# swe-legal-rag: a verification development in TLA+

The repository ingests the decisions of a Swedish appeals board into PostgreSQL through a chain
of workers, and answers questions about them through an API and a browser interface. This
directory holds TLA+ modules translated from that code, TLC configurations that check them on
small instances, and TLAPS proofs of the central safety properties for every instance.
`PROJECT.json` maps every definition to the lines it models, and lists the runs, the mutants
that show each property can fail, the findings and the hazards.

## 1. The system

| Component | State | Operations | Interacts by |
|---|---|---|---|
| Task envelope (`shared/pipeline.py`, `repositories/task.py`) | `tasks`: one row per (document, step), `pending / processing / completed / failed` | claim, run the body, insert or reset the next row, commit, publish, complete, fail | rows, and messages naming a row |
| Pub/Sub backend (`shared/queue/pubsub.py`) | the topic; each process's unsent batch | publish, deliver, ack, nack, redeliver | at-least-once messages |
| In-process backend (`shared/queue/sync.py`, `scripts/run_pipeline.py`) | a FIFO in memory, a stop flag | resume, crawl, drain, stop | the table is all that outlives a run |
| Crawl (`worker_crawl`) | `documents`, first rows; a listing held while it is stored | choose tags, page, look up, insert, commit, publish | the listing's API, unique keys, first messages |
| Download, parse, metadata, extract, chunk, embed | their tables and objects | a body inside the envelope | the next row and message |
| References (`worker_extract/services`) | `document_references`, `unresolved_references` | resolve, park, promote | transactions of different documents |
| Decision text (`shared/segmentation.py`, `worker_metadata`, `worker_extract`, `worker_chunk`) | metadata columns, entities, keywords, references, chunks of one decision | split, read fields, match rules, chunk | the text the step before stored |
| Chunks (`repositories/chunk.py`) | `chunks`, their embeddings | delete and insert, read ids, update by id | chunk and embed runs of one document |
| Chat route, sessions (`api/routes/chat.py`, `session_service.py`) | `sessions.history`, `.context` | open, stream, store a turn, read a transcript | server-sent events, transactions |
| Agent page (`features/agent`) | React state and refs, query cache | visit, ask, stop, hear, restore | the stream, transcript requests |
| Search and listings (`search_service.py`, `repositories/search.py`, `entity.py`) | none between requests | candidates, arms, fusion, widening, facets, pages | statements between the pipeline's commits |
| Chat agent, SQL agent (`agents/chat`, `agents/sql`) | a scratchpad, carried in `sessions.context` | plan, tools, readings, queries, answer | the session's row, one database session |

What is hard, and is therefore what the models are about:

* **Repeated and overlapping deliveries.** A message is redelivered after a raise, a crash or a
  passed ack deadline. The envelope reads the row and claims it in two steps without a lock, so
  two handlers may run one step.
* **Where a transaction ends.** The body's writes and the next row commit together, publication
  and `completed` come after. A crash or an error may fall between any two of them.
* **Read committed.** A statement sees other transactions' commits and none of their open
  writes. Lookups followed by inserts, and deletes followed by inserts, cross.
* **Restart.** The in-process queue dies with its run. What is left is the table.
* **A moving corpus.** A search is a dozen statements, a crawl a dozen requests; what they read
  changes between two of them.
* **Two decisions in one text.** A published PDF holds the decision under appeal too, with the
  same labels; numbers of two registries are spelled alike.
* **A conversation's memory.** Handles, budgets and citations are kept by a language model's tool
  calls on a pad that outlives the turn, in the transaction that also stores the turn.
* **The browser.** A stream, a route change, a transcript reply and a cache invalidation arrive
  in any order, while the server's turn is stored after the stream has said it is done.

Correctness, by component: the pipeline checkpoints each step before the next begins, abandons
no row and finishes every document; every citation is an edge or a parked row, and a parked row
is promoted when its document arrives; a document whose last row is completed can be found by
its embeddings; a crawl stores what it counts and reports what it missed; a decision's columns,
citations, entities and chunks are its own text's, not its appendix's; a search answers within
its filter and ranks what its arms found; an answer can be followed to what was gathered for it,
and a turn leaves its words and its evidence or neither; a conversation's screen, address and
next question name the same conversation.

## 2. Modules

```
Checkpoints            abstract: steps become durable in order and stay so
   ^ refinement  ^ refinement
PubSubPipeline   SyncPipeline          References        AgentConversation
   |   \  EXTENDS  /
   |    TaskEnvelope                   Crawl     Search
ChunkEmbed (EXTENDS PubSubPipeline)

SqlAgent <- ChatAgent                  Segmentation <- Extraction <- Chunking <- DecisionText

PubSubProofs (of both backend modules) SyncPipelineProofs  ReferencesProofs  CrawlProofs
SearchProofs         ConversationProofs  ChatAgentProofs     DecisionTextProofs
```

A proof module EXTENDS the module it is about, which a run never needs it for.
The `MC...` modules give the constants of an instance their values where a `.cfg` cannot.
Operators marked *Variant* are plausible mistakes in the operator they precede; no specification
uses them, the mutants of `PROJECT.json` do.

**TaskEnvelope** is `run_pipeline_step` for a handler slot `w`, one repository call or commit at a
time: `ReadTask` (`get_by_id`, skip when missing or completed), `Claim` (`processing` committed),
`BodyReturns / BodyRejects / BodyFails`, `AfterBody` (the lookup of the next row), `HandOff` (the
insert or reset, and the commit that holds the body's writes too; a row inserted since the lookup
violates `uq_tasks_document_id_step`), `Published / PublishRaises`, `Complete`, `FailTask`, and
returning or re-raising. `DatabaseFails` is a read, write or commit of the envelope's own that raises:
inside the `try` it fails the step, before it or while the failure is being written it reaches the
caller and leaves the row as it is. `task` is the table, `produced` the rows whose output is durable,
`phase` and `job` a handler's place in the code.

**PubSubPipeline** adds the topic as a bag (`queue`), the publisher client's unsent messages (`batch`,
how often each was published), redelivery (`Nack`, `DeadlinePasses`, `Crash`) and refused publishes. A
behaviour may contain each fault as often as its `Max` constant says; `faults` counts them, and tells
the crash of a process that still owed a message (`loss`) from one that did not. Initially crawl has
left each document's first row pending and its message queued.

**SyncPipeline** composes the same envelope with one handler, the broker's FIFO, and `main()`:
`Start`, `QueuePendingTasks`, the crawl (`Skip`, `Store`, `PublishFresh`), `Serve`, the drain
(`Dispatch ... Return`), `RequestStop`, `Finish` and `Crash`. Runs follow one another without
bound; deaths, stops and failing bodies are bounded.

**References** gives each handler an open READ COMMITTED transaction `tx[w]`: `Begin` reads the
document's identifiers once, `Cite` looks an identifier up and upserts an edge or parks it,
`Reconcile` promotes and deletes what is parked, `Commit` makes the writes visible or `RollBack`
meets a unique key. `Metadata` stores identifiers and hands a document on, also a second time.
Lookups return the first match by decision date, which `Rank` stands for. An identifier is the
value of a column: `Metadata` leaves a column it finds nothing for and overwrites one it finds
another number for. `former` records what was overwritten, and `answered` what a document has
answered to ever since it was last extracted.

**ChunkEmbed** replaces the two last bodies by their statements. A chunk set stands for the rows
one chunk run inserts. `WriteChunks` fixes what its `DELETE` sees; `CommitChunks` applies it;
`ReadChunks` and `CommitEmbeddings` stand on either side of embed's wait for the provider, and
an update of an id that is gone changes nothing. Writing a changed summary locks the document's
row, which is the only thing that serialises two chunk runs. Which documents are empty, and
whose summary the model may repeat word for word, is chosen in the initial state.

**AgentConversation** is one browser tab and the API. `route`, `shown`, `own`, `sid`, `screen` and
`holder` are the hook's props, refs and state; `cache` and `fetch` are the query client's entries for
transcripts; `turn`, `wire`, `created` and `history` are the server's requests, streams and rows. One
step is one event as React handles it: handler, render and effects. `EnterRoute` is both effects of a
route change, `HearDone` the whole done branch with the invalidation and the renders it causes.
`AppendTurn` is the one `UPDATE` that appends: it waits for a row another turn holds, and what it read
then is what it writes. `Finish` is the end of the response and `Store` the commit that follows it;
`GiveUp` undoes what was not committed. A turn is the number of its question; its tokens, sources and
steps are data.

**Crawl** is any number of `worker_crawl` processes over one database and one listing. `site` is
the listing, which entries join and leave (`Publish`, `Withdraw`); `run[c]` is what a crawl
holds: its tags, page, first count, collected entries and place. `FetchPage` serves any page
consistent with the dates, since entries of one date come in no fixed order; `FailRequest` is a
server error tried again or an end. Each entry passes `LookUpUrl`, `LookUpNumber`, `Insert` (which
waits for another transaction's uncommitted key, and meets a committed one as `IntegrityError`),
`Commit` and `PublishTask`; `FailEntry` warns and rolls back, `Die` may come at any point.

**Segmentation**, **Extraction** and **Chunking** are pure operators: `SplitDocument`, `FieldValue`
and `ParseKeywords`, identifiers and their normal forms, `ExtractMetadata`, the model's answer and
`CanonicalizeAnswer`; citations, provisions, ranges, roles, parishes and keywords; sentences, budget,
overlap and summary. A text is a sequence of lines, a line a kind and words, a word what one pattern
reads as one thing. **DecisionText** is the decision's life: `Write` adds a line the nämnd may write,
with the part it belongs to and what it means to cite; `Parse` joins the pages, `Describe` stores the
columns, `Extract` entities and references under the strategy configured, `Chunk` the passages.
`heard` is what the listing and the model said when the columns were stored. What the pipeline stores
is compared with what was meant, which the pipeline never sees.

**Search** holds `docs`, what the pipeline has made of each decision, and a `request` that runs one
statement at a time: `StartSearch`, `FindCandidates`, `RunArm` (text and vectors of each phrasing),
`Widen`, `Respond`, or `StartListing` and `ReadPage`, or `StartVocabulary` and `ReadEntities`;
`Parse`, `Describe`, `Extract`, `Chunk` and `Embed` commit between them. `ChunkRaced` is a chunk run
that another overlapped, which leaves sets of both (`raced`). Similarity and text rank are given
functions. Where an `ORDER BY` or a sort key leaves no tie, the rows are `Arranged` by a set of pairs:
`Ahead` for passages, `AheadOf` for decisions, `Newer` for the listing, `MoreCited` for the
vocabulary; elsewhere `Ordered` leaves the database its choice. `Denominator` makes the reciprocal
ranks whole numbers.

**ChatAgent** is a conversation's turns: `Open`, `CommitSession` (which `routes/chat.py:104` needs
before the turn, because the SQL sandbox rolls the request's session back before and after each
statement), `PlanReply` or `BeginResearch`, one action for each tool, `ReaderRaises` (a reading paid
for whose answer cannot be read, which `consulted` does not have), `Answer`, `WriteProse`, `Fail`,
`Synthesize`, `SaveContext` (one update in the turn's transaction), `StoreTurn`, and `StoreFails`, an
append that raises after `done` and is swallowed. The pad is a sequence of entries under handles;
`Kept` are the places the codec carries, and `Carried` is the pad the next turn restores. An entry's
value is what the code keeps apart by its class: a passage, a decision, a reading, a query's result, a
selection, the cases. Readings and results also say which turn asked for them, which no code reads and
the properties do. Tool calls of one message run one after another. **SqlAgent** is the query tool's
own loop, as a record: grounding, the guard, `Iterations` and `Result`.

## 3. Runs

| Run | Instance | What it shows |
|---|---|---|
| `pubsub` | 1 document, 3 steps, 2 handlers, one crash, duplicate, refusal and failure (of a body or of the database) each | `CheckpointOrder`, `MessagesNameRows`, `NoAbandonedProcessing`, `NoStrandedPending`; `DocumentsFinish`; refinement of `Checkpoints` |
| `sync` | 3 documents, 3 steps, two deaths, one stop, one failure of any kind | `OneMessagePerRow`, `QueueIsPendingRows`, `ProcessingIsBeingHandled`; `DocumentsFinish`; refinement; no deadlock |
| `sync_redrive` | 1 document, 2 steps, one death | *violated*: a row a dead run left in `processing` is worked on again |
| `crawl` | 4 entries and a fifth, pages of 2, two crawls, 3 events | `CountedMeansStored`: what a crawl counts is one document with its rows; `QuietListingIsWhole`: a listing collected in part is warned of |
| `references` | 3 documents sharing an identifier, 2 handlers, re-extraction | `NoCitationLost` always; `NoSelfEdge` and `ParkedMeansNotIngested` where extractions do not overlap |
| `decision_text` | decisions of three templates, up to 4 trailer lines, an appendix, a page break | `IdentityIsAsStated`, `CitationsAreTheNamnds`, `EntitiesAreGrounded`, `ChunksCoverTheText` |
| `chunks_fit` | the same | *violated*: a chunk of several sentences is within the budget |
| `chunk_embed` | 1 document, 2 handlers, one fault of each kind | `OneChunkSet` and `CompletedMeansEmbedded`, with the overlaps that alone escape them |
| `search` | 2 decisions of a body and an appendix, 2 commits, 1 request | `AnswersAreInScope`, `FusionIsFair`, `OneChunkingEach`, `PagesPartition`, `VocabularyPagesPartition` |
| `chat_agent` | 2 turns, 2 decisions, 3 tool calls, a pad of 3 | `OneHandleEach`, `HandlesKeepTheirMeaning`, `AnswersAreSourced`, `ReadingsAreBudgeted`, `CasesAccumulate`, `TurnsAreStoredWhole`, `TurnsEnd` |
| `conversation` | 2 questions, 1 earlier conversation, 3 visits | `ScreenIsRoute`, `PatientlyAskedWhereShown`, `LiveTurnsStay`, `StoredTurnsSurvive`, `ComposerReturns` |
| `conversation_stale` | 2 visits | *violated*: a transcript held as fresh is the conversation's |

**Bounds.** Two handlers are enough for every race here: each concerns two runs of one task, or
two documents. A chain of three steps has a first, a middle and a last one, which is all the
envelope tells apart. One document suffices under Pub/Sub, where documents do not interact; the
in-process run has three, since they share a queue. Two deaths let a resuming run die in turn.
In `references` the second metadata run of a document may answer with another number, and its second
extraction meets its own earlier rows; a third document is needed for a shared identifier. In
`conversation`, two questions let one stream outlive another's start, and three visits let the user
leave, return and leave again.

In `crawl`, `MaxEvents = 3` bounds crawls begun, changes and faults together: two crawls and a
fault, or one crawl and two changes of the listing. Two entries are one decision, two have the
same date, one has no number, one is of a year with two tags; pages of two and a cap of three let
a crawl end by its count, by an empty page and by the cap. `counting` is FALSE where the server
gives no count: then nothing can be compared, and the property makes no claim. `QuietListingIsWhole`
holds while no more entries are published during a crawl than a page has room for (the code's page
is 100), each newer than all before, and `run[c].new` counts them. The run's bound keeps it below
that; section 4 proves it for every number of pages, publications and withdrawals. A burst of one
entry more fills a page, and the page after it then puts an entry the first count knew nothing of
in the place of one that was passed over: the numbers agree, and nothing is warned of. So does a
publication that ties with an older entry.

In `decision_text`, a template fixes what a decision is rich in: fields (any order of subject, matter
and number, with wrapped values, a page break and an appendix with all the same labels), citations
(lists, both registries, both spellings, ranges at and beyond `MaxExpandedSections = 6`) or lengths
(sentences below, at and above the budget; windows of 6, 16, 28 and a sentinel). `SummaryTail = 3`
lines stand for the last 2000 characters, where the outcome is looked for. Four trailer lines hold
every order of the three labels with a continuation. In `search`, `CandidateLimit = 1` makes a filter
cut its candidates, `SearchLimit = 2` and `ArmLimit = 3` let an arm miss what another finds, and two
commits are enough to chunk and embed again during a request, since each decision is fresh or fully
processed at the start. In `chat_agent`, a pad of `Cap = 3` drops entries after two tool calls,
`MaxDocumentsRead = 1` refuses a second reading, `MaxPerReading = 1` and `MaxCited = 2` cut lists, and
`SqlIterations = 2` allows one retry.

The passing runs state where a property stops holding instead of leaving the case out: `overlapped`,
`raced` (in `ChunkEmbed` and each decision of `Search`), `overtaken`, `hasty` and the fault counters
are history variables that name the overlap or fault, as `former` in `References` names a number that
was replaced; `run[c].stayed` and `.new` in `Crawl`, `request.matched`, `silent`, `moved` and
`rechunked` in `Search`, `found` and `consulted` in `ChatAgent` record what was the case when a
statement ran. A violation run states the unconditional claim the repository makes and shows what
refutes it. `hasty` is true once a page was left with a turn open, or a question was asked with a
transcript being fetched or another stream open.

**Fairness.** `pubsub`: a handler keeps running and the client library keeps sending (weak fairness of
`Step` and `Send`); no fault is ever required. `sync`: a run that started goes on, and runs with the
default flags keep being started (strong fairness of `Start(TRUE)`, since `--no-resume` runs may come
between). `conversation`: a request is served and its frames and replies arrive (weak fairness for
each question and transcript); the user owes nothing, so the composer must come back without being
stopped. `chat_agent`: a turn's own request goes on (weak fairness of `Advance(t)`); the loop's bound,
not fairness, is what makes it end. `crawl`, `search`, `decision_text`, `references` and `chunk_embed`
state safety only. Deadlock is checked in `sync`, whose runs repeat for ever; the others
may stop: the queue empties, the questions are used up, a decision is chunked, or the bounds are
reached.

## 4. Proofs

Every theorem holds for every value of the constants that the named assumptions of its module
admit, and TLC evaluates those assumptions in every run. Each proof has the same shape: an
invariant that is inductive, checked by TLC on the run's instance before it was proved; one
lemma for each action, or group of actions, that says it is kept; the property, which is one of
its conjuncts or follows from it.

The proofs about both backends begin with the same lemmas about the envelope: a step of
`run_pipeline_step` keeps its types, loses no row (`AdvanceKeepsRows`), keeps `CheckpointOrder`
(`AdvanceKeepsCheckpointOrder`) and is a step or a stutter of `Checkpoints` (`AdvanceCheckpoints`).
They assume that a chain has a step (`NumStepsAssumption`) and that no message is `NoMessage`.

**PubSubProofs**: any set of documents and handlers, any length of chain, any bounds on faults.

* `InductiveHolds`: `Inductive`, the conjunction of `TypeOK`, `CheckpointOrder`,
  `MessagesNameRows` and `HandlerProgress`, is an invariant. `CheckpointOrder` is not inductive
  alone: `Complete` keeps it only because a handler that reached `completing` has a committed
  next row, which is `HandlerProgress`; that in turn needs rows never to disappear
  (`RowsPersist`), and that a delivered message names a row (`MessagesNameRows`).
* `TypeCorrect`, `Checkpointed` and `CommitBeforePublish` follow.
* `NothingAbandoned`: a `processing` row always has a delivery outstanding. A delivery ends only
  in an ack, which follows a write of the outcome, or in its own replacement (`DeliveriesAreKept`,
  `SettledStatus`, `StatusOrigin`).
* `NothingStranded`: where no publication was lost or refused, a pending row has a delivery
  outstanding or owed (`LossesAreRemembered`, `DebtsAreKept`).
* `CheckpointsAreImplemented`: `Spec => Abstract!Spec` under `reached <- produced`. The only
  steps that change `produced` are `HandOff` and `Complete`, and `CheckpointOrder` gives the
  predecessor's output.

**SyncPipelineProofs**: any finite set of documents (`CorpusAssumption`: what a crawl lists comes to
an end, so that the pending rows can be put into a queue), one handler, any bounds on deaths, stops
and failures.

* `InductiveHolds`: `TypeOK /\ CheckpointOrder /\ Progress`. The run's properties speak of the queue
  and the table; what keeps them is where the one handler is. `HandlerHolds` gives the status of
  its row and of the next at every line of the envelope, `Frontier` says that a row not yet worked
  on has no next row, so `HandOff` always inserts: the envelope's reset branch is unreachable on
  this backend (`phase[w] # "resetting"`), and a row enters the queue only when it is inserted.
  `FreshIsUnqueued` is the same for the crawl's store-then-publish; `ResumedSeesAll` accounts for
  every pending row of a run that resumed: queued, handled, or about to be queued. A row whose handler
  is done has an outcome (`Settled`), unless the database failed before it was claimed (`unread`) or
  while the outcome was written (`unrecorded`), which are the two faults the properties name.
* `RowsAreQueuedOnce`, `QueueIsTheTable`, `StopsAbandonNothing` and the refinement
  `CheckpointsAreImplemented` follow.

**ReferencesProofs**: any documents, identifiers and citations; `GraphAssumption` is that lookups are
sorted by a total order. `NoCitationLost` speaks of committed rows, but a citation's record may be in
a transaction's writes, or being deleted by one that promotes it. `VisitedAreRecorded` says that every
citation an open transaction's loop has passed is on record for it, whatever others commit meanwhile,
and `DeletedArePromoted` that a parked row is deleted together with an edge that replaces it.
`CitationsAreKept` follows: an edge leads to a document that answers to the cited number, or did
before metadata replaced it. The two properties of sequential extraction need a second invariant,
`Sequential`: unless extractions have overlapped, at most one transaction is open, what it read still
holds, and a document is still known under what it answered to (`AnsweredIsKnown`: a number that is
replaced leaves both). `NothingCitesItself` and `ParkedIsUnanswered` follow.

**PubSubProofs**, second part: `ChunkEmbed`, on top of the same invariant, any documents, empty or
not, and any faults. `OneChunkSet` is kept because a chunk run that locks the document's row has
deleted everything that is there when it commits (`OneWriter`), and one that does not lock is alone
unless the document is in `raced`; `CompletedMeansEmbedded`, because an embed run that has read its
ids and was not overtaken has read all of them (`SeesAll`). `BodiesAgree` ties the bodies' places to
the envelope's. `OneSetEach` and `CompletedIsSearchable` follow.

**CrawlProofs**: any listing and any changes of it, any number of crawls, failures and deaths
(`CrawlAssumption`: the set of entries is finite, and `None` is no entry and no count).
`CountedIsStored` follows from `Inductive`: the unique keys hold over committed *and* inserted rows
(`KeysHold`), so no two crawls have clashing entries pending; a crawl holds a pending row exactly
between its insert and its commit (`PlacesAgree`); an entry behind its place is stored or warned of
(`PastIsStored`); document and task rows are committed together (`RowsTogether`). The collecting loop
is a recursive function, and `CollectIsTheLoop` derives its two equations from an induction over the
naturals (`SetInduction`), stated of membership in a set, so that no operator has to be instantiated.

`QuietIsWhole` needs a second invariant, `CountsHold`: whatever a crawl's first page counted, the
entries listed now are among those or were published since (`Counted`), and those published since
are newer than all others (`NewerThanOthers`). `NewEntryComesLate` is the argument: a page past the
first that shows an entry published since skipped at least a page of entries as new, so until there
are that many every collected entry is one that was counted. As none is collected twice
(`CollectCollects`, `NoneTwiceCounts`), collecting as many as were counted is collecting them all.

**ConversationProofs**: any conversations, questions and visits; `ConversationAssumption` is that a
conversation is neither `None` nor the number of a question, and that those stored at the start are
conversations.

* `InductiveHolds`: for a user who waits (`~hasty`), the refs `sid`, `shown` and `own` agree with
  the address and at most one stream is read, of this conversation (`HookAgrees`); a live turn is on
  screen only while no transcript is under way that would replace it (`LiveIsSafe`). Hasty or not,
  a turn is stored, cached and fetched only where it was asked (`TurnsAtHome`), and what is done
  has a conversation (`DoneHasHome`).
* `AppendsInTurn`, proved with it, is that at most one turn of a conversation holds the row, and that
  what its append read is what the row still holds. `HistoriesGrow` is it at the commit: `Store`
  replaces the history by what was read and the turn, and loses none.
* `ScreenShowsTheRoute` and `QuestionsGoWhereShown` follow; the action property `LiveTurnsRemain`
  needs `LiveIsSafe` at the step that answers a transcript.

**ChatAgentProofs**: any corpus, any answers of searches, readers and models, any bounds on the loop,
the budgets and the pad, and any number of turns, at once too. `CorpusAssumption` is that a passage
is of one decision and that a search finds a decision with passages of its own, which is what the
joins of the search return; `CallsAssumption` bounds nothing a model may name, made-up handles and
positions included; `BoundsAssumption` types the settings.

* The pad is reasoned about as the set of its entries: `Lookup` and `RememberIs` replace places by
  membership, and `NextHandleIsNew` shows that one above the greatest number in use is nobody's
  handle, also after older entries were dropped. The loops over hits, passages and cited handles are
  recursive functions; `LoopExists` gives the function that satisfies a loop's two equations, and
  `ThoseAre`, `ChunksAreRemembered` and `OutcomeIsRemembered` follow by `SetInduction`.
* `ToolsWork` says of every tool call the same: it `Gathers`, that is, it keeps each entry under
  `c`, `d` and `r`, keeps the pad in order and adds only evidence of its own turn. This is all
  that the invariant's proof needs of a tool, and the action property `HandlesKeepMeaning` is it.
* `Inductive` adds to the properties what each stands on. `InOrder` says of entries what
  `OneHandleEach` says of handles, and that a handle has one entry. `TurnHolds` says that what a turn
  found is on its pad with its decision (a pad that is carried does not say so: a passage may outlive
  its decision), that the budget counts every reading that was answered, and that a query's rows are
  those of its last success. `RowAgrees` is why a turn that works has a stored row, so that the SQL
  sandbox's rollback never takes one that is not committed, and that a turn at its end has one to
  write to. `EvidenceIsOwned` says that what is carried was asked by a stored turn, or by the turn
  that carries it; `CasesAreCarried`, that a turn alone with the context has all its cases.
* `HandlesAreUnique`, `Sourced`, `Budgeted`, `StoredWhole`, `HandlesKeepMeaning` and `CasesAreKept`
  follow: every safety and action property of the run.

**SearchProofs**: any corpus and vocabulary, any similarity and text rank, any limits, and a pipeline
that commits what it likes between two statements. `CorpusAssumption` is that the documents are
finitely many and are compared as numbers, dates too, and that a label is a pair;
`QueriesAssumption` that ranks are naturals; `LimitsAssumption` that a page has room for one.

* `PlacesAre` and `ArrangedIs`: in a finite total order the number of members before one is its
  place, so arranging lists each member once and in order; `OrderedIsArranged`: it is the only way
  to. `SeenIs`, `AheadIsTotal`, `DecisionsAreRanked` and `ListingIsOrdered` show that the code's
  sort keys are total orders, which is what a variant without its last key is not.
* `DenominatorIs` shows that every `RrfK + rank` divides the common denominator, so a better rank
  weighs strictly more (`WeightIs`); by induction over the rankings a chunk that each of them puts
  ahead of another scores strictly more (`BeatingScoresMore`). `HitsAreFair` lifts this to decisions.
* `Inductive` is `TypeOK` with `CorpusHolds` (one chunk set a document unless its chunk runs raced,
  links only to entities there are), `ArmsHold` (whatever was ranked is of a candidate, of a section
  in question, and of a chunking that is there or whose loss is in `rechunked`), `HitsHold` (an answer
  is what `Hits` makes of the rankings) and `PagesHold` (of a corpus that has not moved, page *n* is
  page *n* of the listing or the vocabulary as it would be read now, where its order leaves no tie).
  `CommitsHold` is the lemma that counts: it is kept by any commit of any pipeline step between two
  statements.
* `AnswersStayInScope`, `FusionStaysFair`, `ChunkingsDoNotMix`, `PagesArePartitions` and
  `VocabularyPagesArePartitions` follow: every property of the run. For the last two, `PagesFlatten`
  joins the pages by induction into the whole; a tie of the vocabulary's order is between two types.

**DecisionTextProofs**: any templates, so any way of writing a decision line by line, any listing,
model, strategy and page break, that the assumptions admit. `LinesAssumption` says what a nämnd's
lines are: a trailer's labelled lines have a number each, a line on its own cites what its author
means by it, and no list of numbers runs on from one line to the next. The listing and the model may
say anything (`MeetingAssumption` gives their answers a type), the appended decision's numbers too: a
stated number wins over both, and where none is stated the property says whose word is taken. What the
theorems add is what the code does with lines that are right: that cutting, joining, breaking pages,
folding and deduplicating put none where it does not belong and lose none.

* `InductiveHolds`: the parts come in order, each opens as it should, a field comes once and what is
  wrapped under the subject line follows it or a page break (`TextHolds`); what was stored is what the
  steps compute from the text as it still is (`StepsRan`). `Write` and `Parse` are what could break it.
* The operators are loops over sequences: `LoopExists`, `LoopAppends` and `SeqInduction` replace
  induction over data by an induction over the naturals and over membership in a set. `FlattenJoins` and
  `WordsRange` follow, and `NthOrders`, that what is picked at a set of places comes in their order.
* `Cuts` says where the trailer and the appendices begin, `BodyIs`, `TrailerIs`, `HoldingHolds` and
  `AppendicesAre` what the pieces are, line by line. `FieldReads` is that a field of the trailer reads
  as it was written, whatever lies around it, `CaseIsStated` and `DecisionIsStated` that the two
  numbers are the trailer's, `BareAnswer` that a model's answer is taken only if it is a number and
  nothing else, `ReadWordsAreOwn` that the other columns are the decision's own words. `IdentityHolds`
  follows.
* `CitationsJoin`: no list of an anchor crosses from one run of words to the next, if the one does not
  end in an anchor or a separator and the other does not begin with one; so the body cites what each
  of its lines does (`LinesCite`). `CitationsHold` follows.
* `FoundFacts`: every provision of the text is found, with the relevance of its segment, and nothing
  else. `NamesSurvive` shows that dropping what lies inside a longer range, and a chapter some section
  of which is cited, leaves each section covered and a single section itself, because a range
  contains only finitely many longer ones. `PiecesHold` is that cutting the subject line at its stops
  loses no word but the stops. `EntitiesHold` follows.
* `SectionsAre`: what stands between two labels reads, sentence by sentence, as the segment that was
  cut there; empty lines around it fall (`GapsFall`). `SentencesTold` is the invariant of the
  chunker's loop: the chunks closed and the one that is open each consist of the overlap of the chunk
  before and of new sentences, the new ones are those told so far, and a chunk is within the budget
  unless one sentence is new (`Told`). `OverlapIs` says that any tail longer than the overlap exceeds
  it, so what a chunk repeats can be read off the chunks alone (`AddedIs`), and a sentence longer than
  the budget leaves no overlap. `SummaryFits` is that the summary is cut to its reserve in each of
  three ways. `ChunksHold` follows, for any window the worker starts on.

Proving made models stricter: `TypeOK` of `References`, `ChunkEmbed` and `Crawl` now says that the
fields of a transaction, of a body and of a crawl are records of their types, and not only what
each run reads of them; `ChatAgent` has a type invariant of every entry of a pad, `Search` one of
every ranking, hit and page; `Crawl`, `AgentConversation`, `ChatAgent` and `Search` state
assumptions they had relied on; `DecisionText` states what it takes a line to be, and its loops
are recursive functions. And it corrected one: `QuietListingIsWhole` was thought to hold up
to twice as many publications as it does.

**Only model-checked.** All liveness (`DocumentsFinish` of both backends, `ComposerReturns`,
`TurnsEnd`): fairness and `ENABLED` are beyond the prover. Every safety property of a passing run is
a theorem.

## 5. What the checks found

Claims of the repository that a run refutes:

1. `run_pipeline.py:107` resumes `pending` rows only; the row a dead run left in `processing` is
   never worked on again, and nor is its document (`sync_redrive`).
2. `useAgentConversation.ts:143`: the invalidation on `done` fetches the open transcript before
   the server has committed the turn, and the reply is cached for ever (`conversation_stale`).
3. `chunker.py:93`: a sentence appended to the overlap of the chunk before it may exceed the
   budget, by up to the overlap; the margin does not cover it (`chunks_fit`).

Limits that the passing properties state in their conditions:

* `reference_service.py:48`: two extractions that overlap can leave a citation parked for good,
  although the document it names is there; `:46`: when metadata recognises a document's number
  while it is being extracted, its own citation of it can become an edge to itself.
  `document.py:114`: edges made and citations parked under a number that metadata has since replaced
  stay under it.
* `chunk.py:90`: two deliveries of one chunk message leave two sets of chunks when neither changes
  the document's row; `chunk.py:82`: a redelivered chunk message that replaces the rows during
  embed's wait lets embed complete over chunks without embeddings. A search may quote two sets that
  raced side by side.
* `queue/sync.py:101`: a database error while a failure is being written leaves the row in
  `processing`, and the in-process drain drops its message.
* `useAgentConversation.ts:135`: the `done` frame of a question whose page was left decides where
  the next question goes, for a user who does not wait.
* `session.py:146`: of two turns open at once, the last to commit replaces what the other carried,
  its cited cases too.
* `_agent.py:294`: carried passages and readings of earlier turns pass for evidence of this one.
  The query shown with a count is the last one to have answered, which may be an earlier turn's.
* `_tools.py:553`: a reading whose reader raises was called and paid for, and returns before its
  decision is counted, so a turn may pay for more decisions than the comment at `_tools.py:566` says.
  `ReadingsAreBudgeted` is of the readings that were answered.
* `odata.py:143`: a crawl overtaken by more publications than a page holds may miss an entry that
  was listed all the while, and have the right number.
* `search_service.py:161`: a limit of zero phrasings is no limit. `repositories/search.py:103`: the
  candidates of a broad filter are the database's choice, so two equal searches may differ.
  `repositories/entity.py:73`: entities of different types that tie on name and count have no fixed
  order, so a page of all types may repeat one and pass over another.
* `segmentation.py`: a text right after a rule in the trailer becomes a continuation, because
  rules are dropped before fields are read; a page break inside a wrapped keyword list loses what
  follows; only the first of several ärendenummer is stored; an appendix without its label is
  read as the decision's own text.
* `patterns.py:90`: a number that a model answers on its own is taken as it is, whatever it is the
  number of.
* `rule_based.py:383`: a range of the holding too long to expand may be dropped for a longer one
  mentioned elsewhere; a model's references are stored as the model spelled them.

## 6. Plan

Every component with state of its own is modelled, in whole or in part. To come:

1. Transactions of two extractions that get or create one entity, in *Search*'s `Extract`.
2. The statements of the download: a file stored before its URI is committed, and a source that may
   have replaced it by the time a redelivery fetches it again.

## 7. Not modelled

* Wording: abbreviations, inflection, typographic repair, character offsets, sentence contexts,
  prompts and formatting. A word of the model is what a pattern reads as one thing; whether the
  pattern reads it so is for the repository's own tests.
* PDF decoding, tokenisation, embedding vectors, similarity and `ts_rank`: given functions.
* The download's retries and content check; object storage, whose keys are functions of the
  document id; connection pools and event loops; logging and tracing.
* Providers beyond success, failure and what they may answer. The agent loop and the guard's SQL
  parser are libraries outside the repository, modelled by how they are configured and called.
* Listing conversations and their titles, the history window (a window of zero turns is the whole
  history, `session_service.py:223`), the pages of the browser interface other than the agent's,
  the file-backed stand-ins for development, and migrations.

`PROJECT.json` has the reason for each component.
