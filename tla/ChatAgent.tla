----------------------------- MODULE ChatAgent -----------------------------
(***************************************************************************)
(* The turns of one conversation with the chat agent: plan, tool loop,     *)
(* writing, and what a turn leaves for the next.                           *)
(*                                                                         *)
(* A turn's findings are on its scratchpad, a list of entries under short  *)
(* handles.  The pad is restored from sessions.context when the turn       *)
(* begins and written back when it ends, cut to the Cap last entries; the  *)
(* turn's question and answer are appended to sessions.history in the same *)
(* transaction.  The loop and the dump are those of the agent library,     *)
(* modelled from how this code configures them.  A message of the model    *)
(* calls one tool.                                                         *)
(***************************************************************************)
EXTENDS SqlAgent, SequencesExt

CONSTANTS
    Decisions,
    ChunksOf,         \* decision -> its passages in reading order
    Outcomes,         \* what a search may find: sequences of [doc, chunks]
    IndexLists,       \* what a reader may point at
    HandleLists,      \* what an answer may cite
    MaxIterations,    \* chat_agent_max_iterations
    MaxDocumentsRead, \* chat_agent_max_documents_read
    MaxPerReading,    \* chat_agent_max_chunks_per_reading
    MaxCited,         \* chat_agent_max_chunks_cited
    Cap,              \* chat_agent_max_carried_entries
    MaxTurns,
    MaxDeletes

Turns == 1 .. MaxTurns

Chunks == UNION {ToSet(ChunksOf[d]) : d \in Decisions}

OwnerOf(c) == CHOOSE d \in Decisions : c \in ToSet(ChunksOf[d])

\* A passage is of one decision, and a search finds a decision with its own.
ASSUME CorpusAssumption ==
    /\ \A d \in Decisions : ChunksOf[d] \in Seq(Chunks)
    /\ \A d, e \in Decisions : ToSet(ChunksOf[d]) \intersect ToSet(ChunksOf[e]) # {} => d = e
    /\ Outcomes \subseteq Seq([doc : Decisions, chunks : Seq(Chunks)])
    /\ \A outcome \in Outcomes : \A i \in DOMAIN outcome :
          ToSet(outcome[i].chunks) \subseteq ToSet(ChunksOf[outcome[i].doc])

\* What a model may name: handles it made up too, and positions that are not there.
ASSUME CallsAssumption ==
    /\ IndexLists \subseteq Seq(Nat)
    /\ HandleLists \subseteq Seq({"c", "d", "r"} \X Nat)

ASSUME BoundsAssumption ==
    /\ MaxTurns \in Nat \ {0}
    /\ {MaxIterations, MaxDocumentsRead, MaxPerReading, MaxCited, Cap} \subseteq Nat

VARIABLES
    row,       \* the session's row: "none", "flushed", "stored", "deleted"
    history,   \* its turns, in the order they were stored
    context,   \* its carried pad
    turn,      \* what each turn's request has come to
    overlapped \* a turn was stored after another had read the context

vars == <<row, history, context, turn, overlapped>>

\* The elements of s that are in S, in their order.
Those(s, S) ==
    LET upTo[n \in 0 .. Len(s)] ==
            IF n = 0 THEN <<>>
            ELSE IF s[n] \in S THEN Append(upTo[n - 1], s[n])
            ELSE upTo[n - 1]
    IN  upTo[Len(s)]

(***************************************************************************)
(* The scratchpad.                                                         *)
(***************************************************************************)
Sql == <<"sql", 0>>
Selection == <<"selection", 0>>
Cases == <<"cases", 0>>

Keys(pad) == {pad[i].key : i \in DOMAIN pad}

Get(pad, key) == (CHOOSE e \in ToSet(pad) : e.key = key).value

\* A key keeps its place when its value is replaced.
Remember(pad, key, value) ==
    IF key \in Keys(pad)
    THEN [i \in DOMAIN pad |->
            IF pad[i].key = key THEN [key |-> key, value |-> value] ELSE pad[i]]
    ELSE Append(pad, [key |-> key, value |-> value])

HandlesOf(pad, prefix) == {k \in Keys(pad) : k[1] = prefix}

\* Variant: the entries are counted.
NextHandleByCount(pad, prefix) == <<prefix, 1 + Cardinality(HandlesOf(pad, prefix))>>

NextHandle(pad, prefix) == <<prefix, 1 + Max({0} \union {k[2] : k \in HandlesOf(pad, prefix)})>>

HandlesFor(pad, prefix, value) == {k \in HandlesOf(pad, prefix) : Get(pad, k) = value}

RememberDecision(pad, d) ==
    IF HandlesFor(pad, "d", d) # {} THEN pad
    ELSE Remember(pad, NextHandle(pad, "d"), d)

\* Variant: a passage gets a handle whenever it is found.
RememberChunkAgain(pad, c) == Remember(pad, NextHandle(pad, "c"), c)

\* A passage that is on the pad keeps the handle it has.
RememberChunk(pad, c) ==
    IF HandlesFor(pad, "c", c) # {} THEN pad
    ELSE Remember(pad, NextHandle(pad, "c"), c)

\* The handles that name a passage.
ChunkHandles(pad) == HandlesOf(pad, "c")

Readings(pad) == {Get(pad, k) : k \in HandlesOf(pad, "r")}

SelectedHandles(pad) == IF Selection \in Keys(pad) THEN Get(pad, Selection) ELSE <<>>

Selected(pad) == Those(SelectedHandles(pad), ChunkHandles(pad))

CaseOf(pad, c) == HandlesFor(pad, "d", OwnerOf(c)) # {}

\* Variant: a list of its own for each turn.
RecordCasesAfresh(pad, ds) == Remember(pad, Cases, ds)

RecordCases(pad, ds) ==
    Remember(pad, Cases, ds \union IF Cases \in Keys(pad) THEN Get(pad, Cases) ELSE {})

\* What is carried: the newest Cap entries, and the list of cases whatever its age.
Kept(pad) ==
    LET heavy == {i \in DOMAIN pad : pad[i].key # Cases}
    IN  {i \in DOMAIN pad : i \in heavy => Cardinality({j \in heavy : j > i}) < Cap}

Carried(pad) ==
    LET places == Those([i \in DOMAIN pad |-> i], Kept(pad))
    IN  [n \in DOMAIN places |-> pad[places[n]]]

(***************************************************************************)
(* The evidence a turn writes from.                                        *)
(***************************************************************************)
\* Variant: passages of one decision are collapsed into the first of them.
SourcesByDecision(pad) ==
    LET hs == Selected(pad)
    IN  Those(hs, {h \in ToSet(hs) : \A i \in DOMAIN hs :
            OwnerOf(Get(pad, hs[i])) = OwnerOf(Get(pad, h)) =>
                \E j \in DOMAIN hs : hs[j] = h /\ j <= i})

\* One reference for each cited passage, in the order the agent named them.
Sources(pad) == Selected(pad)

Tabular(pad) == Sql \in Keys(pad) /\ Get(pad, Sql).result.answered

HasEvidence(pad) == Sources(pad) # <<>> \/ Readings(pad) # {} \/ Tabular(pad)

(***************************************************************************)
(* A request.                                                              *)
(***************************************************************************)
Idle ==
    [at |-> "idle", pad |-> <<>>, grounded |-> FALSE, read |-> {},
     consulted |-> {}, found |-> {}, iterations |-> 0, run |-> NewRun,
     answered |-> FALSE, done |-> FALSE]

Active(t) == turn[t].at \notin {"idle", "ended", "unstored", "failed", "gone"}

Init ==
    /\ row = "none"
    /\ history = <<>>
    /\ context = <<>>
    /\ turn = [t \in Turns |-> Idle]
    /\ overlapped = FALSE

Set(t, next) == turn' = [turn EXCEPT ![t] = next]

\* Of a request that is over only its outcome is kept.
Over(t, at) == Set(t, [Idle EXCEPT !.at = at, !.done = turn[t].done])

\* The first question opens the session.  Later ones name it, which the client
\* can from the done frame on; none is asked of a session that was deleted.
Open(t) ==
    /\ turn[t].at = "idle"
    /\ IF t = 1 THEN row = "none" /\ row' = "flushed"
       ELSE (\E u \in Turns : turn[u].done) /\ row = "stored" /\ UNCHANGED row
    /\ Set(t, [turn[t] EXCEPT !.at = "opened"])
    /\ UNCHANGED <<history, context, overlapped>>

\* The row is committed before the turn, and the turn reads its context.
CommitSession(t) ==
    /\ turn[t].at = "opened"
    /\ row' = IF row = "flushed" THEN "stored" ELSE row
    /\ Set(t, [turn[t] EXCEPT !.at = "planning", !.pad = context])
    /\ UNCHANGED <<history, context, overlapped>>

\* The plan step wrote the reply itself: no sources, and no evidence is asked for.
PlanReply(t) ==
    /\ turn[t].at = "planning"
    /\ Set(t, [turn[t] EXCEPT !.at = "saving"])
    /\ UNCHANGED <<row, history, context, overlapped>>

BeginResearch(t) ==
    /\ turn[t].at = "planning"
    /\ Set(t, [turn[t] EXCEPT !.at = "looping"])
    /\ UNCHANGED <<row, history, context, overlapped>>

(***************************************************************************)
(* The tools.                                                              *)
(***************************************************************************)
MayCall(t) == turn[t].at = "looping" /\ turn[t].iterations < MaxIterations

\* The turn after a call that left it as `next`.
Called(t, next) ==
    /\ Set(t, [next EXCEPT !.iterations = @ + 1])
    /\ UNCHANGED <<row, history, context, overlapped>>

ListVocabulary(t) ==
    /\ MayCall(t)
    /\ Called(t, [turn[t] EXCEPT !.grounded = TRUE])

\* A handle nobody gave out, a filter on values nobody read, a spent budget, a
\* decision without text: a result, and no more.
Refused(t) ==
    /\ MayCall(t)
    /\ Called(t, turn[t])

\* What is on record of a decision, for the model alone: the pad keeps nothing of it.
InspectDecision(t) ==
    /\ MayCall(t)
    /\ HandlesOf(turn[t].pad, "d") # {}
    /\ Called(t, turn[t])

RememberChunks(pad, chunks) ==
    LET upTo[n \in 0 .. Len(chunks)] ==
            IF n = 0 THEN pad ELSE RememberChunk(upTo[n - 1], chunks[n])
    IN  upTo[Len(chunks)]

RememberHit(pad, hit) == RememberChunks(RememberDecision(pad, hit.doc), hit.chunks)

RememberOutcome(pad, outcome) ==
    LET upTo[n \in 0 .. Len(outcome)] ==
            IF n = 0 THEN pad ELSE RememberHit(upTo[n - 1], outcome[n])
    IN  upTo[Len(outcome)]

ChunksIn(outcome) == UNION {ToSet(outcome[i].chunks) : i \in DOMAIN outcome}

\* A filter on free text passes once the vocabulary was read this turn.
Grounded(t, freeText) == freeText => turn[t].grounded

SearchDecisions(t) ==
    /\ MayCall(t)
    /\ \E freeText \in BOOLEAN, outcome \in Outcomes :
          /\ Grounded(t, freeText)
          /\ Called(t, [turn[t] EXCEPT !.pad = RememberOutcome(@, outcome),
                                       !.found = @ \union ChunksIn(outcome)])

\* The passages a reading points at: those there are, once each, to the limit.
PassagesRead(d, indices) ==
    LET there == Those(indices, DOMAIN ChunksOf[d])
        once == Those([k \in DOMAIN there |-> k],
                      {k \in DOMAIN there : \A j \in 1 .. k - 1 : there[j] # there[k]})
    IN  [n \in 1 .. Min({Len(once), MaxPerReading}) |-> ChunksOf[d][there[once[n]]]]

AddReading(pad, t, d, passages) ==
    LET filled == RememberChunks(pad, passages)
        HandleOf(c) == CHOOSE h \in HandlesFor(filled, "c", c) : TRUE
    IN  Remember(filled, NextHandle(filled, "r"),
                 [of |-> d, asked |-> t, handles |-> [k \in DOMAIN passages |-> HandleOf(passages[k])]])

\* Variant: only a reading that found something is counted.
CountsAsReadUseful(passages) == passages # <<>>

\* A reading counts whatever it found.
CountsAsRead(passages) == TRUE

WithinBudget(t, d) == d \in turn[t].read \/ Cardinality(turn[t].read) < MaxDocumentsRead

\* The reader answered.  A reading that carries nothing, or points at nothing,
\* leaves nothing on the pad.
ReadDecision(t) ==
    /\ MayCall(t)
    /\ \E k \in HandlesOf(turn[t].pad, "d"), indices \in IndexLists :
          LET d == Get(turn[t].pad, k)
              passages == PassagesRead(d, indices)
          IN  /\ WithinBudget(t, d)
              /\ Called(t, [turn[t] EXCEPT
                    !.pad = IF passages = <<>> THEN @ ELSE AddReading(@, t, d, passages),
                    !.found = @ \union ToSet(passages),
                    !.consulted = @ \union {d},
                    !.read = IF CountsAsRead(passages) THEN @ \union {d} ELSE @])

\* The reader was called, and raised or wrote what its schema cannot read.  The
\* tool returns before the decision is counted as read.
ReaderRaises(t) ==
    /\ MayCall(t)
    /\ \E k \in HandlesOf(turn[t].pad, "d") :
          WithinBudget(t, Get(turn[t].pad, k))
    /\ Called(t, turn[t])

\* Every statement of the SQL agent begins and ends with a rollback of the
\* request's session, the one the turn's own rows are written in.
Sandboxed == row' = IF row = "flushed" THEN "none" ELSE row

QueryCorpus(t) ==
    /\ MayCall(t)
    /\ Set(t, [turn[t] EXCEPT !.at = "counting", !.run = NewRun])
    /\ UNCHANGED <<row, history, context, overlapped>>

SqlIteration(t) ==
    /\ turn[t].at = "counting"
    /\ \E run \in Iterations(turn[t].run) : Set(t, [turn[t] EXCEPT !.run = run])
    /\ Sandboxed
    /\ UNCHANGED <<history, context, overlapped>>

\* Variant: the loop does not count a call that a sub-agent took over.
SqlEndsUncounted(t) ==
    LET found == [asked |-> t, result |-> Result(turn[t].run)]
    IN  /\ turn[t].at = "counting"
        /\ Set(t, [turn[t] EXCEPT !.at = "looping", !.run = NewRun,
                                  !.pad = Remember(@, Sql, found)])
        /\ UNCHANGED <<row, history, context, overlapped>>

\* The result replaces the one an earlier query left, also when it answers nothing.
SqlEnds(t) ==
    LET found == [asked |-> t, result |-> Result(turn[t].run)]
    IN  /\ turn[t].at = "counting"
        /\ Called(t, [turn[t] EXCEPT !.at = "looping", !.run = NewRun,
                                     !.pad = Remember(@, Sql, found)])

\* Unknown handles are ignored, and of the known ones the first MaxCited are kept.
Answer(t) ==
    /\ MayCall(t)
    /\ \E handles \in HandleLists :
          LET known == Those(handles, ChunkHandles(turn[t].pad))
              cited == SubSeq(known, 1, Min({Len(known), MaxCited}))
              passages == {Get(turn[t].pad, h) : h \in ToSet(cited)}
              cases == {OwnerOf(c) : c \in {c \in passages : CaseOf(turn[t].pad, c)}}
          IN  Called(t, [turn[t] EXCEPT
                !.at = "writing",
                !.answered = TRUE,
                !.pad = RecordCases(Remember(@, Selection, cited), cases)])

\* The loop's model writes prose and calls nothing.
WriteProse(t) ==
    /\ MayCall(t)
    /\ Called(t, [turn[t] EXCEPT !.at = "writing"])

\* An exhausted loop, a tool or a provider that raises: the terminal error event,
\* and the request ends without having written.
Fail(t) ==
    /\ turn[t].at \in {"planning", "looping", "counting", "writing", "saving"}
    /\ Over(t, "failed")
    /\ UNCHANGED <<row, history, context, overlapped>>

\* The sources went out before this; the text is written from the evidence, or
\* says that there is none.
Synthesize(t) ==
    /\ turn[t].at = "writing"
    /\ Set(t, [Idle EXCEPT !.at = "saving", !.pad = turn[t].pad])
    /\ UNCHANGED <<row, history, context, overlapped>>

(***************************************************************************)
(* The end of a request.                                                   *)
(***************************************************************************)
\* An update of the row that is not committed holds its lock.
RowLocked == \E u \in Turns : turn[u].at = "saved"

\* Variant: the pad is written in a transaction of its own.
SaveContextApart(t) ==
    /\ turn[t].at = "saving"
    /\ ~RowLocked
    /\ Set(t, [turn[t] EXCEPT !.at = "saved", !.done = TRUE, !.pad = Carried(@)])
    /\ context' = Carried(turn[t].pad)
    /\ UNCHANGED <<row, history, overlapped>>

\* The pad is written, in the request's transaction, and done is sent.
SaveContext(t) ==
    /\ turn[t].at = "saving"
    /\ ~RowLocked
    /\ Set(t, [turn[t] EXCEPT !.at = "saved", !.done = TRUE, !.pad = Carried(@)])
    /\ UNCHANGED <<row, history, context, overlapped>>

\* Others that read the context this commit replaces, and will replace it.
ReadBefore(t) == \E u \in Turns \ {t} : Active(u) /\ turn[u].at # "opened"

\* append_turn and the commit that ends the request.  An update of a row that is
\* gone changes nothing.
StoreTurn(t) ==
    /\ turn[t].at = "saved"
    /\ IF row = "stored"
       THEN history' = Append(history, t) /\ context' = turn[t].pad
       ELSE UNCHANGED <<history, context>>
    /\ row' = IF row = "flushed" THEN "stored" ELSE row
    /\ Over(t, "ended")
    /\ overlapped' = (overlapped \/ ReadBefore(t))

\* append_turn raises, which the route swallows: done is out, and the transaction
\* the pad was written in is lost with the turn's words.
StoreFails(t) ==
    /\ turn[t].at = "saved"
    /\ Over(t, "unstored")
    /\ UNCHANGED <<row, history, context, overlapped>>

\* The client goes away: what the request has not committed is rolled back.
Disconnect(t) ==
    /\ Active(t)
    /\ Over(t, "gone")
    /\ row' = IF row = "flushed" THEN "none" ELSE row
    /\ UNCHANGED <<history, context, overlapped>>

DeleteSession ==
    /\ MaxDeletes > 0
    /\ row = "stored"
    /\ ~RowLocked
    /\ row' = "deleted"
    /\ UNCHANGED <<history, context, turn, overlapped>>

Tool(t) ==
    \/ ListVocabulary(t)
    \/ Refused(t)
    \/ SearchDecisions(t)
    \/ ReadDecision(t)
    \/ ReaderRaises(t)
    \/ InspectDecision(t)
    \/ QueryCorpus(t)
    \/ SqlIteration(t)
    \/ SqlEnds(t)
    \/ Answer(t)
    \/ WriteProse(t)

Advance(t) ==
    \/ CommitSession(t)
    \/ PlanReply(t)
    \/ BeginResearch(t)
    \/ Tool(t)
    \/ Fail(t)
    \/ Synthesize(t)
    \/ SaveContext(t)
    \/ StoreTurn(t)
    \/ StoreFails(t)

Next ==
    \/ \E t \in Turns : Open(t) \/ Advance(t) \/ Disconnect(t)
    \/ DeleteSession

Spec == Init /\ [][Next]_vars

FairSpec == Spec /\ \A t \in Turns : WF_vars(Advance(t))

(***************************************************************************)
(* Properties.                                                             *)
(***************************************************************************)
Stages ==
    {"idle", "opened", "planning", "looping", "counting", "writing", "saving", "saved",
     "ended", "unstored", "failed", "gone"}

ReadingRecords == [of : Decisions, asked : Turns, handles : Seq({"c"} \X Nat)]

Entries ==
    [key : {"c"} \X Nat, value : Chunks]
    \union [key : {"d"} \X Nat, value : Decisions]
    \union [key : {"r"} \X Nat, value : ReadingRecords]
    \union [key : {Sql}, value : [asked : Turns, result : Results]]
    \union [key : {Selection}, value : Seq({"c"} \X Nat)]
    \union [key : {Cases}, value : SUBSET Decisions]

TurnRecords ==
    [at : Stages, pad : Seq(Entries), grounded : BOOLEAN, read : SUBSET Decisions,
     consulted : SUBSET Decisions, found : SUBSET Chunks, iterations : Nat, run : Runs,
     answered : BOOLEAN, done : BOOLEAN]

TypeOK ==
    /\ row \in {"none", "flushed", "stored", "deleted"}
    /\ history \in Seq(Turns)
    /\ context \in Seq(Entries)
    /\ turn \in [Turns -> TurnRecords]
    /\ overlapped \in BOOLEAN

Pads == {context} \union {turn[t].pad : t \in Turns}

\* The turn's evidence is complete and its text is being written or was.
Writes(t) == turn[t].at = "writing"

\* However a passage or a decision comes up again, by another search, a reading
\* or a later turn that recalls it, it has one handle.
OneHandleEach ==
    \A pad \in Pads : \A prefix \in {"c", "d"} : \A h, k \in HandlesOf(pad, prefix) :
        Get(pad, h) = Get(pad, k) => h = k

\* Within a turn a handle the model was shown never comes to name something
\* else, whatever was carried into the turn or dropped before it.
HandlesKeepTheirMeaning ==
    [][\A t \in Turns : turn[t].at = "looping" /\ turn'[t].at \in {"looping", "writing"} =>
          \A h \in Keys(turn[t].pad) : h[1] \in {"c", "d", "r"} =>
              h \in Keys(turn'[t].pad) /\ Get(turn'[t].pad, h) = Get(turn[t].pad, h)]_vars

\* Every passage this turn's answer cites is among the sources its marks are
\* resolved against, and is named by its case if this turn found it.  Only a
\* passage recalled from an earlier turn may have outlived its decision.
CitationsResolve ==
    \A t \in Turns : Writes(t) /\ turn[t].answered =>
        LET pad == turn[t].pad
            cited == SelectedHandles(pad)
        IN  /\ ToSet(cited) = ToSet(Sources(pad))
            /\ \A h \in ToSet(cited) : Get(pad, h) \in turn[t].found => CaseOf(pad, Get(pad, h))

\* A count that is shown is shown with the query that produced its rows.
CountsShowTheirQuery ==
    \A pad \in Pads : Sql \in Keys(pad) =>
        LET r == Get(pad, Sql).result IN r.sql = r.rows /\ r.answered = (r.rows # NoStatement)

\* What an answer shows can be followed back to what was gathered for it.
AnswersAreSourced == CitationsResolve /\ CountsShowTheirQuery

\* A turn's readers answer about at most MaxDocumentsRead decisions, however many
\* of the readings turn out to carry nothing.  A reader that raises has been paid
\* for and is not counted: the budget does not bound those.
ReadingsAreBudgeted == \A t \in Turns : Cardinality(turn[t].consulted) <= MaxDocumentsRead

CasesOf(pad) == IF Cases \in Keys(pad) THEN Get(pad, Cases) ELSE {}

\* The cases a conversation has cited are never forgotten, whatever else has
\* aged off the pad, unless two of its turns were open at once.
CasesAccumulate == [][CasesOf(context) \subseteq CasesOf(context') \/ overlapped]_vars

\* A turn whose append went through is in the history, unless the conversation
\* was deleted meanwhile.
TurnsAreRemembered ==
    \A t \in Turns : turn[t].at = "ended" => t \in ToSet(history) \/ row = "deleted"

\* What is carried was gathered by turns that are in the history: a turn that
\* failed, that could not be stored, or whose client went away, leaves nothing.
CarriedIsOfStoredTurns ==
    \A k \in Keys(context) : k[1] \in {"r", "sql"} => Get(context, k).asked \in ToSet(history)

\* A turn leaves both its words and its evidence to the next, or neither.
TurnsAreStoredWhole == TurnsAreRemembered /\ CarriedIsOfStoredTurns

\* Every turn that was asked ends, in an answer, an error or a disconnection.
TurnsEnd == \A t \in Turns : turn[t].at = "opened" ~> ~Active(t)

=============================================================================
