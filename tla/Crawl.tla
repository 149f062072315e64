------------------------------- MODULE Crawl -------------------------------
(* worker_crawl: crawls that page through a listing while it changes, and  *)
(* store each decision they do not know with its task rows, over one       *)
(* database.  A listing entry is its document id, which is also its URL    *)
(* (decision_source_url); a document row is the id it was made from.       *)
EXTENDS Integers, Sequences, FiniteSets, SequencesExt

CONSTANTS
    Crawlers,   \* processes that may crawl at once
    Ids,        \* document ids of the listing's entries
    NumberOf,   \* the decision number an entry's headline states, or None
    TagOf,      \* the tag an entry carries
    TagRows,    \* the tags endpoint's answer: <<tag, year or None>>
    Specs,      \* year selectors a crawl may be started with
    ThisYear,   \* the year of date.today()
    Listings,   \* the listings the model starts with: Ids -> date, 0 when absent
    PageSize,   \* crawl_page_size
    MaxPages,   \* MAX_PAGES
    MaxRetries, \* crawl_max_retries
    MaxEvents,  \* bound: crawls begun, changes to the listing, failures and deaths
    None

ASSUME CrawlAssumption ==
    /\ PageSize \in Nat \ {0}
    /\ MaxPages \in Nat \ {0}
    /\ MaxEvents \in Nat
    /\ IsFiniteSet(Ids) /\ None \notin Ids \cup Nat
    /\ Listings \subseteq [Ids -> 0..Cardinality(Ids)]

VARIABLES
    site,      \* publication date of each entry, 0 when it is not published
    counting,  \* whether the server answers $count
    docs,      \* committed document rows
    rows,      \* committed task rows: <<document, step, status>>
    sent,      \* documents whose download task was published
    pending,   \* the document row each crawler's transaction has inserted, or None
    run,       \* what each crawler holds
    events     \* what MaxEvents bounds

vars == <<site, counting, docs, rows, sent, pending, run, events>>

-----------------------------------------------------------------------------
(* Which years and tags.  A selector is a word, or a set of year ranges.   *)

Plausible == 1900..2200

IsYearSpec(spec) ==
    /\ spec.word = "years" => spec.parts # {}
    /\ \A p \in spec.parts : p[1] \in Plausible /\ p[2] \in Plausible /\ p[1] <= p[2]

ResolveYears(spec) ==
    [all |-> spec.word = "all",
     years |-> IF spec.word = "current" THEN {ThisYear}
               ELSE UNION {p[1]..p[2] : p \in spec.parts}]

\* parse_tag_index: a year may have several tags, and one tag has no year.
TagsOfYear(year) == {row[1] : row \in {r \in TagRows : r[2] = year}}

\* Empty where _require_tags raises: a year without a tag is left out.
SelectTagIds(selection) ==
    IF selection.all THEN {row[1] : row \in TagRows}
    ELSE UNION {TagsOfYear(year) : year \in selection.years}

-----------------------------------------------------------------------------
(* The listing.                                                            *)

Tick == events < MaxEvents /\ events' = events + 1

Listed(tags) == {i \in Ids : site[i] > 0 /\ TagOf[i] \in tags}

Newest == CHOOSE d \in 0..(Cardinality(Ids) + MaxEvents) :
            /\ \E i \in Ids : site[i] = d
            /\ \A i \in Ids : site[i] <= d

NotOlder(S, T) == \A i \in S, j \in T : site[i] >= site[j]

\* The rows at positions skip + 1 .. skip + PageSize of some order by date,
\* descending: entries of one date are in no particular order, and need not be
\* in the same one at the next request.
Served(tags, skip) ==
    LET all  == Listed(tags)
        left == Cardinality(all) - skip
        size == IF left <= 0 THEN 0 ELSE IF left < PageSize THEN left ELSE PageSize
        Pages == {P \in SUBSET all :
                    /\ Cardinality(P) = size
                    /\ \E before \in SUBSET (all \ P) :
                         /\ Cardinality(before) = skip
                         /\ NotOlder(before, P)
                         /\ NotOlder(before \cup P, all \ (before \cup P))}
    IN  IF size = 0 THEN {<<>>}
        ELSE {s \in UNION {SetToSeqs(P) : P \in Pages} :
                \A k \in 1..(Len(s) - 1) : site[s[k]] >= site[s[k + 1]]}

\* An entry is published, or published anew, after every other.
Publish(i) ==
    /\ Tick
    /\ site' = [site EXCEPT ![i] = Newest + 1]
    /\ run' = [c \in Crawlers |-> [run[c] EXCEPT !.stayed = @ \ {i}, !.new = @ \cup {i}]]
    /\ UNCHANGED <<counting, docs, rows, sent, pending>>

Withdraw(i) ==
    /\ Tick
    /\ site[i] > 0
    /\ site' = [site EXCEPT ![i] = 0]
    /\ run' = [c \in Crawlers |-> [run[c] EXCEPT !.stayed = @ \ {i}]]
    /\ UNCHANGED <<counting, docs, rows, sent, pending>>

-----------------------------------------------------------------------------
(* Fetching.                                                               *)

Idle == [pc |-> "idle", tags |-> {}, page |-> 0, total |-> None, found |-> <<>>,
         tries |-> 0, at |-> 1, warned |-> {}, short |-> FALSE, stayed |-> {}, new |-> {}]

\* A selector that cannot be read, or that matches no tag, ends the process
\* before it asks for a listing.
Start(c, spec) ==
    LET tags == SelectTagIds(ResolveYears(spec))
    IN  /\ run[c].pc = "idle"
        /\ Tick
        /\ run' = [run EXCEPT ![c] =
                    IF IsYearSpec(spec) /\ tags # {}
                    THEN [Idle EXCEPT !.pc = "paging", !.tags = tags] ELSE Idle]
        /\ UNCHANGED <<site, counting, docs, rows, sent, pending>>

\* Variant: rows are collected without looking for those already there.
CollectAgain(found, page) == found \o page

\* A row already collected keeps its place.
Collect(found, page) ==
    LET upTo[n \in 0..Len(page)] ==
            IF n = 0 THEN found
            ELSE IF page[n] \in ToSet(upTo[n - 1]) THEN upTo[n - 1]
            ELSE Append(upTo[n - 1], page[n])
    IN  upTo[Len(page)]

\* The loop's test: pages are asked for while the first count says there are more.
MorePages(r) == r.page < MaxPages /\ (r.total # None => r.page * PageSize < r.total)

EndFetch(r) ==
    [r EXCEPT !.pc = "look",
              !.short = \/ r.page = MaxPages
                        \/ r.total # None /\ Len(r.found) < r.total]

FetchPage(c) ==
    /\ run[c].pc = "paging"
    /\ MorePages(run[c])
    /\ \E page \in Served(run[c].tags, run[c].page * PageSize) :
         LET asked == [run[c] EXCEPT
                !.tries = 0,
                !.total = IF @ = None /\ counting THEN Cardinality(Listed(run[c].tags)) ELSE @,
                !.stayed = IF run[c].page = 0 THEN Listed(run[c].tags) ELSE @,
                !.new = IF run[c].page = 0 THEN {} ELSE @]
         IN  run' = [run EXCEPT ![c] =
                IF page = <<>> THEN EndFetch(asked)
                ELSE [asked EXCEPT !.found = Collect(@, page), !.page = @ + 1]]
    /\ UNCHANGED <<site, counting, docs, rows, sent, pending, events>>

FinishPaging(c) ==
    /\ run[c].pc = "paging"
    /\ ~MorePages(run[c])
    /\ run' = [run EXCEPT ![c] = EndFetch(@)]
    /\ UNCHANGED <<site, counting, docs, rows, sent, pending, events>>

\* _get_json: a server error or a timeout is tried again; a refusal, an answer
\* that is not the JSON expected, and the last attempt's failure end the process.
FailRequest(c, refused) ==
    LET again == ~refused /\ run[c].tries + 1 < MaxRetries
    IN  /\ run[c].pc = "paging"
        /\ MorePages(run[c])
        /\ Tick
        /\ run' = [run EXCEPT ![c] = IF again THEN [run[c] EXCEPT !.tries = @ + 1] ELSE Idle]
        /\ UNCHANGED <<site, counting, docs, rows, sent, pending>>

-----------------------------------------------------------------------------
(* _store_decision, for one entry of the listing after another.            *)

Entry(c) == run[c].found[run[c].at]

At(c, pc) == run[c].pc = pc /\ run[c].at <= Len(run[c].found)

GoTo(c, pc) == run' = [run EXCEPT ![c].pc = pc]

NextEntry(c) == run' = [run EXCEPT ![c].pc = "look", ![c].at = @ + 1]

SameNumber(i, j) == NumberOf[i] # None /\ NumberOf[i] = NumberOf[j]

\* Variant: no key on the decision number.
ClashesByUrl(i, j) == i = j

\* The unique keys: the URL and the document id are the entry's, and a decision
\* number is stated by one document.
Clashes(i, j) == i = j \/ SameNumber(i, j)

LookUpUrl(c) ==
    /\ At(c, "look")
    /\ IF Entry(c) \in docs THEN NextEntry(c) ELSE GoTo(c, "number")
    /\ UNCHANGED <<site, counting, docs, rows, sent, pending, events>>

LookUpNumber(c) ==
    /\ At(c, "number")
    /\ IF \E d \in docs : SameNumber(Entry(c), d) THEN NextEntry(c) ELSE GoTo(c, "insert")
    /\ UNCHANGED <<site, counting, docs, rows, sent, pending, events>>

\* An insert that meets another transaction's uncommitted key waits for it; one
\* that meets a committed key is an IntegrityError, rolled back and counted known.
Insert(c) ==
    /\ At(c, "insert")
    /\ \A o \in Crawlers \ {c} : pending[o] # None => ~Clashes(Entry(c), pending[o])
    /\ IF \E d \in docs : Clashes(Entry(c), d)
       THEN pending' = [pending EXCEPT ![c] = None] /\ NextEntry(c)
       ELSE pending' = [pending EXCEPT ![c] = Entry(c)] /\ GoTo(c, "commit")
    /\ UNCHANGED <<site, counting, docs, rows, sent, events>>

RowsFor(d) == {<<d, "crawl", "completed">>, <<d, "download", "pending">>}

\* The two task rows join the document's transaction, which commits.
Commit(c) ==
    /\ At(c, "commit")
    /\ docs' = docs \cup {pending[c]}
    /\ rows' = rows \cup RowsFor(pending[c])
    /\ pending' = [pending EXCEPT ![c] = None]
    /\ GoTo(c, "publish")
    /\ UNCHANGED <<site, counting, sent, events>>

PublishTask(c) ==
    /\ At(c, "publish")
    /\ sent' = sent \cup {Entry(c)}
    /\ NextEntry(c)
    /\ UNCHANGED <<site, counting, docs, rows, pending, events>>

\* Any statement of an entry may raise: the crawl warns, rolls back, goes on.
FailEntry(c) ==
    /\ run[c].pc \notin {"idle", "paging"}
    /\ run[c].at <= Len(run[c].found)
    /\ Tick
    /\ pending' = [pending EXCEPT ![c] = None]
    /\ run' = [run EXCEPT ![c].pc = "look", ![c].at = @ + 1,
                          ![c].warned = @ \cup {Entry(c)}]
    /\ UNCHANGED <<site, counting, docs, rows, sent>>

\* The process ends when every entry was looked at, or dies: its connection is
\* closed, and the database rolls its transaction back.
End(c) ==
    /\ run[c].pc = "look"
    /\ run[c].at > Len(run[c].found)
    /\ run' = [run EXCEPT ![c] = Idle]
    /\ UNCHANGED <<site, counting, docs, rows, sent, pending, events>>

Die(c) ==
    /\ run[c].pc # "idle"
    /\ Tick
    /\ pending' = [pending EXCEPT ![c] = None]
    /\ run' = [run EXCEPT ![c] = Idle]
    /\ UNCHANGED <<site, counting, docs, rows, sent>>

-----------------------------------------------------------------------------
Init ==
    /\ site \in Listings
    /\ counting \in BOOLEAN
    /\ docs = {}
    /\ rows = {}
    /\ sent = {}
    /\ pending = [c \in Crawlers |-> None]
    /\ run = [c \in Crawlers |-> Idle]
    /\ events = 0

Crawling(c) ==
    \/ \E spec \in Specs : Start(c, spec)
    \/ FetchPage(c)
    \/ FinishPaging(c)
    \/ \E refused \in BOOLEAN : FailRequest(c, refused)
    \/ LookUpUrl(c)
    \/ LookUpNumber(c)
    \/ Insert(c)
    \/ Commit(c)
    \/ PublishTask(c)
    \/ FailEntry(c)
    \/ End(c)
    \/ Die(c)

Next ==
    \/ \E i \in Ids : Publish(i) \/ Withdraw(i)
    \/ \E c \in Crawlers : Crawling(c)

Spec == Init /\ [][Next]_vars

-----------------------------------------------------------------------------
Runs ==
    [pc : {"idle", "paging", "look", "number", "insert", "commit", "publish"},
     tags : SUBSET {row[1] : row \in TagRows}, page : Nat, total : Nat \cup {None},
     found : Seq(Ids), tries : Nat, at : Nat \ {0}, warned : SUBSET Ids,
     short : BOOLEAN, stayed : SUBSET Ids, new : SUBSET Ids]

TypeOK ==
    /\ events \in 0..MaxEvents
    /\ site \in [Ids -> 0..(Cardinality(Ids) + events)]
    /\ counting \in BOOLEAN
    /\ docs \subseteq Ids
    /\ rows \subseteq Ids \X {"crawl", "download"} \X {"completed", "pending"}
    /\ sent \subseteq docs
    /\ pending \in [Crawlers -> Ids \cup {None}]
    /\ run \in [Crawlers -> Runs]
    /\ \A c \in Crawlers : run[c].at <= Len(run[c].found) + 1

\* What a crawl counts as new or as known is in the corpus as one document,
\* with the completed row of its crawl and the row its download starts from:
\* the IntegrityError branch (service.py:133) answers "known" for a row another
\* crawl inserted, and the rollback of a failing entry (:60) happens on the
\* session every earlier entry used.
CountedMeansStored ==
    \A c \in Crawlers : \A k \in 1..(run[c].at - 1) :
        LET i    == run[c].found[k]
            same == {d \in docs : d = i \/ SameNumber(i, d)}
        IN  i \notin run[c].warned =>
                /\ Cardinality(same) = 1
                /\ \A d \in same : RowsFor(d) \subseteq rows

\* A crawl of a listing that counts its entries, and that does not warn of
\* having collected fewer (odata.py:143), has every entry that was listed from
\* its first page to its last: paging by $skip repeats or passes over entries
\* when the listing shifts, and de-duplicating is what makes that visible,
\* while no more entries are published in the meantime than a page holds.
QuietListingIsWhole ==
    \A c \in Crawlers :
        /\ run[c].pc = "look" /\ run[c].at = 1 /\ counting /\ ~run[c].short
        /\ Cardinality(run[c].new) <= PageSize
        => run[c].stayed \subseteq ToSet(run[c].found)
=============================================================================
