----------------------------- MODULE Extraction -----------------------------
(***************************************************************************)
(* The citations and the entities of one decision (worker_extract): the    *)
(* rules that read them off the segments, and what joins the rules with a  *)
(* model's answer.  An entity is [name, relevance]; the name of a provi-   *)
(* sion is <<"regulation", chapter, first, last>>, first 0 for a chapter   *)
(* as a whole.                                                             *)
(***************************************************************************)
EXTENDS Segmentation

CONSTANTS
    MaxExpandedSections,  \* _MAX_EXPANDED_SECTIONS
    CharsPerEntity,       \* _CHARS_PER_ENTITY_ESTIMATE, in words
    NonNames              \* _NON_NAME_WORDS

\* The words of lines, with what an anchored line begins with and what the
\* patterns cannot cross: an empty line and a rule.
LineWords(l) ==
    CASE l.kind = "blank" -> <<<<"gap">>>>
      [] l.kind = "rule" -> <<<<"---">>>>
      [] l.kind \in {"heading"} \union TrailerFields -> <<<<l.kind>>>> \o l.words
      [] OTHER -> l.words

Words(lines) == FlattenSeq([i \in DOMAIN lines |-> LineWords(lines[i])])

(***************************************************************************)
(* Citations: an anchor and the list of numbers it introduces.             *)
(***************************************************************************)
ListSeparators == {<<",">>, <<"och">>}

CitedIdentifiers(words, anchor, forms) ==
    LET cites(i) == i \in DOMAIN words /\ IsId(words[i]) /\ words[i][2] \in forms
        \* The k-th after the first of the list that an anchor at i introduces.
        listed(i, k) == /\ words[i] = anchor
                        /\ \A m \in 0 .. k : cites(i + 1 + 2 * m)
                        /\ \A m \in 1 .. k : words[i + 2 * m] \in ListSeparators
    IN  {words[j] : j \in {j \in DOMAIN words :
            \E i \in DOMAIN words, k \in 0 .. Len(words) :
                j = i + 1 + 2 * k /\ listed(i, k)}}

\* The anchor says which registry a number is of.
CitedCases(words) ==
    {CaseNumber(id) : id \in CitedIdentifiers(words, <<"ON">>, CaseForms)}

CitedDecisions(words) ==
    {NormalizeCited(id) : id \in CitedIdentifiers(words, <<"beslut">>, {"NY", "YN"})}

ExtractReferences(segments) ==
    CitedCases(Words(segments.body)) \union CitedDecisions(Words(segments.body))

(***************************************************************************)
(* Entities.                                                               *)
(***************************************************************************)
Regulation(chapter, first, last) == <<"regulation", chapter, first, last>>

\* The sections a short range names; a long one is kept whole.
CanonicalRegulations(w) ==
    IF w[3] < w[4] /\ w[4] - w[3] < MaxExpandedSections
    THEN {Regulation(w[2], s, s) : s \in w[3] .. w[4]}
    ELSE {Regulation(w[2], w[3], w[4])}

MatchRegulations(words) ==
    UNION {CanonicalRegulations(w) : w \in {w \in Range(words) : w[1] = "provision"}}

\* Capitalised words before a word for a body: parish, diocese or pastorat.
NamedBodies(words) == {w \in Range(words) : w[1] = "named"}

\* A word that opens a sentence or a row of a table, or names a role.
IsNonName(w) == w \in NonNames

\* A body's name without the words before it that are none.
DropLeadingNonName(name) ==
    LET own == {i \in DOMAIN name : ~IsNonName(name[i])}
    IN  IF own = {} THEN <<>> ELSE SubSeq(name, Min(own), Len(name))

MatchParishes(words) ==
    {<<"parish", DropLeadingNonName(w[2])>> : w \in NamedBodies(words)} \ {<<"parish", <<>>>>}

\* Roles and legal concepts are the words of two closed lists.
KnownKinds == {"role", "concept"}

MatchKeywords(words) == {w \in Range(words) : w[1] \in KnownKinds}

EntitiesIn(lines, relevance) ==
    LET words == Words(lines)
    IN  {[name |-> n, relevance |-> relevance] :
            n \in MatchRegulations(words) \union MatchParishes(words)
                  \union MatchKeywords(words)}

\* One entity for each name; PRIMARY wins.
DeduplicateEntities(found) ==
    {e \in found : e.relevance = "PRIMARY"
                   \/ ~\E o \in found : o.name = e.name /\ o.relevance = "PRIMARY"}

IsRange(name) == name[1] = "regulation" /\ name[3] < name[4]

\* Variant: what lies inside a range is dropped, a single section as well.
IsSubsumedInRange(name, names) ==
    /\ name[1] = "regulation"
    /\ \E o \in names \ {name} :
          /\ o[1] = "regulation" /\ o[2] = name[2]
          /\ name[3] = 0 \/ (IsRange(o) /\ o[3] <= name[3] /\ name[4] <= o[4])

\* A chapter one of whose sections is cited, and a range inside a longer one.
IsSubsumed(name, names) ==
    /\ name[1] = "regulation"
    /\ \E o \in names \ {name} :
          /\ o[1] = "regulation" /\ o[2] = name[2]
          /\ name[3] = 0 \/ (IsRange(name) /\ IsRange(o) /\ o[3] <= name[3] /\ name[4] <= o[4])

DropSubsumed(found) ==
    LET names == {e.name : e \in found}
    IN  {e \in found : ~IsSubsumed(e.name, names)}

\* The holding confers relevance, the appendices only mention.
ExtractEntities(segments) ==
    DropSubsumed(DeduplicateEntities(
        (IF segments.holding = None THEN {} ELSE EntitiesIn(segments.holding, "PRIMARY"))
        \union EntitiesIn(segments.body, "MENTIONED")
        \union UNION {EntitiesIn(a, "MENTIONED") : a \in Range(segments.appendices)}))

(***************************************************************************)
(* The strategy.                                                           *)
(***************************************************************************)
\* A stop counts with the word before it.
SizeOf(w) == CASE w[1] = "run" -> w[2] [] w[1] = "." -> 0 [] OTHER -> 1

Size(words) ==
    LET upTo[n \in 0 .. Len(words)] == IF n = 0 THEN 0 ELSE upTo[n - 1] + SizeOf(words[n])
    IN  upTo[Len(words)]

IsResultComplete(entities, segments) ==
    /\ entities # {}
    /\ Cardinality(entities) >= Size(Words(segments.body)) \div CharsPerEntity

\* A model's references are spelled as the model spelled them.
MergeResults(rules, model) ==
    [entities |-> DeduplicateEntities(rules.entities \union model.entities),
     references |-> rules.references \union model.references]

ExtractRuleBased(segments) ==
    [entities |-> ExtractEntities(segments), references |-> ExtractReferences(segments)]

\* The subject line's own words, whatever the strategy.
DeclaredKeywords(trailer) ==
    {[name |-> <<"keyword", k>>, relevance |-> "PRIMARY"] : k \in ParseKeywords(trailer)}

Inferred(entities) == {e \in entities : e.name[1] # "keyword"}
=============================================================================
