----------------------------- MODULE ChunkEmbed -----------------------------
(***************************************************************************)
(* What the last two steps do to the `chunks` table, inside the Pub/Sub    *)
(* pipeline of PubSubPipeline cut down to them: step 1 is chunk, step 2 is *)
(* embed.  Chunking replaces a document's chunks with new rows; embedding  *)
(* reads the rows' ids and later updates those ids.                        *)
(*                                                                         *)
(* A chunk set is the rows one chunk run inserts for a document, numbered  *)
(* in the order of the commits.  The database is READ COMMITTED: a         *)
(* transaction's DELETE sees the rows that are committed when it starts.   *)
(***************************************************************************)
EXTENDS PubSubPipeline, FiniteSets

ASSUME TwoSteps == NumSteps = 2

VARIABLES
    empty,      \* documents whose text yields no chunks
    repeats,    \* documents the summariser may repeat itself on
    summarised, \* documents with a stored summary
    made,       \* chunk sets committed so far for each document
    chunks,     \* the chunk sets in the table
    embedded,   \* those of them that have embeddings
    body,       \* what each handler's open body has done
    raced,      \* documents whose chunks a run replaced while another was at it
    overtaken   \* documents whose chunks were replaced under an embed run

\* Settled when the documents are: no step changes them.
texts == <<empty, repeats>>

storeVars == <<texts, summarised, made, chunks, embedded, raced, overtaken>>

allVars == <<vars, storeVars, body>>

Bodies ==
    [at : {"start", "read", "written"},
     seen : SUBSET Nat,    \* embed: the chunk sets whose ids it read
     deletes : SUBSET Nat, \* chunk: the chunk sets its DELETE found
     known : BOOLEAN,      \* chunk: the document had a summary when it was read
     locks : BOOLEAN]      \* chunk: it updated, so locks, the documents row

Untouched == [at |-> "start", seen |-> {}, deletes |-> {}, known |-> FALSE,
              locks |-> FALSE]

StoreTypeOK ==
    /\ {empty, repeats, summarised, raced, overtaken} \subseteq SUBSET Docs
    /\ made \in [Docs -> Nat]
    /\ {chunks, embedded} \subseteq [Docs -> SUBSET Nat]
    /\ \A d \in Docs : chunks[d] \subseteq 1 .. made[d]
    /\ \A d \in Docs : embedded[d] \subseteq chunks[d]
    /\ body \in [Workers -> Bodies]
    /\ \A w \in Workers :
          phase[w] \notin {"working", "inserting", "resetting", "completing"} =>
             body[w] = Untouched

StoreInit ==
    /\ Init
    /\ empty \in SUBSET Docs
    /\ repeats \in SUBSET Docs
    /\ summarised = {}
    /\ made = [d \in Docs |-> 0]
    /\ chunks = [d \in Docs |-> {}]
    /\ embedded = [d \in Docs |-> {}]
    /\ body = [w \in Workers |-> Untouched]
    /\ raced = {}
    /\ overtaken = {}

(***************************************************************************)
(* The two bodies.                                                         *)
(***************************************************************************)
Inside(w, at) == phase[w] = "working" /\ body[w].at = at

\* Chunk reads the document before it asks for a summary of it.
ReadDocument(w) ==
    /\ Inside(w, "start")
    /\ ~IsLast(job[w])
    /\ body' = [body EXCEPT ![w].at = "read",
                            ![w].known = job[w].doc \in summarised]
    /\ UNCHANGED <<vars, storeVars>>

\* Another handler holds the row lock of the document's row.
Locked(d, w) == \E v \in Workers \ {w} : body[v].locks /\ job[v].doc = d

\* Variant: an update of the documents row is never seen to be needed.
UpdatesSummaryNever(w) == FALSE

\* The summary is written through the ORM: it updates the row, and takes its
\* lock, only when it differs from the one that was read.
UpdatesSummary(w) == job[w].doc \notin repeats \/ ~body[w].known

WriteChunks(w) ==
    LET d == job[w].doc
    IN  /\ Inside(w, "read")
        /\ ~IsLast(job[w])
        /\ \E updates \in {UpdatesSummary(w), TRUE} :
              /\ updates => ~Locked(d, w)
              /\ body' = [body EXCEPT ![w].at = "written",
                                      ![w].locks = updates,
                                      ![w].deletes = chunks[d]]
        /\ raced' = IF \E v \in Workers \ {w} : job[v] = job[w] /\ body[v].at = "written"
                    THEN raced \union {d} ELSE raced
        /\ UNCHANGED <<vars, texts, summarised, made, chunks, embedded, overtaken>>

\* Embed reads the chunks' ids and texts, then waits for the provider.
ReadChunks(w) ==
    /\ Inside(w, "start")
    /\ IsLast(job[w])
    /\ chunks[job[w].doc] # {}
    /\ body' = [body EXCEPT ![w].at = "read", ![w].seen = chunks[job[w].doc]]
    /\ UNCHANGED <<vars, storeVars>>

\* NoChunksError.
FindNoChunks(w) ==
    /\ Inside(w, "start")
    /\ IsLast(job[w])
    /\ chunks[job[w].doc] = {}
    /\ Goto(w, "failing")
    /\ UNCHANGED <<task, produced, job, queue, batch, faults, storeVars, body>>

(***************************************************************************)
(* Their commits, which the envelope makes.                                *)
(***************************************************************************)
\* An embed run has read the document's chunks and not committed.
Embedding(d) == \E w \in Workers : job[w] = [doc |-> d, step |-> 2] /\ body[w].at = "read"

\* The old rows go, their vectors with them, and the new ones have none.
CommitChunks(w) ==
    LET d == job[w].doc
        kept == chunks[d] \ body[w].deletes
        new == IF d \in empty THEN {} ELSE {made[d] + 1}
    IN  /\ summarised' = summarised \union {d}
        /\ made' = [made EXCEPT ![d] = @ + 1]
        /\ chunks' = [chunks EXCEPT ![d] = kept \union new]
        /\ embedded' = [embedded EXCEPT ![d] = @ \intersect kept]
        /\ overtaken' = IF Embedding(d) THEN overtaken \union {d} ELSE overtaken
        /\ UNCHANGED <<texts, raced>>

\* An id that is gone by now is an update of no row, and nobody is told.
CommitEmbeddings(w) ==
    LET d == job[w].doc
    IN  /\ embedded' = [embedded EXCEPT ![d] = @ \union (body[w].seen \intersect chunks[d])]
        /\ UNCHANGED <<texts, summarised, made, chunks, raced, overtaken>>

\* The body of w's step has done all it does.
BodyDone(w) == body[w].at = IF IsLast(job[w]) THEN "read" ELSE "written"

HandsOff(w) == phase[w] \in {"inserting", "resetting"} /\ phase'[w] = "publishing"

Completes(w) == phase[w] = "completing" /\ phase'[w] = "returning"

\* A step of the pipeline around the bodies.  Neither body raises
\* StepInputError here: the documents exist and have text.
Pipeline(w) ==
    /\ Step(w) \/ Send(w) \/ Fail(w) \/ PublishRefused(w) \/ DeadlinePasses(w) \/ Crash(w)
    /\ phase[w] = "working" => phase'[w] # "rejecting"
    /\ phase[w] = "working" /\ phase'[w] \in {"inserting", "resetting", "completing"} =>
          BodyDone(w)
    /\ \/ HandsOff(w) /\ CommitChunks(w)
       \/ Completes(w) /\ IsLast(job[w]) /\ CommitEmbeddings(w)
       \/ ~HandsOff(w) /\ ~(Completes(w) /\ IsLast(job[w])) /\ UNCHANGED storeVars
    /\ body' = IF phase'[w] \in {"working", "inserting", "resetting", "completing"}
                  /\ ~HandsOff(w)
               THEN body ELSE [body EXCEPT ![w] = Untouched]

StoreNext ==
    \E w \in Workers :
        \/ ReadDocument(w)
        \/ WriteChunks(w)
        \/ ReadChunks(w)
        \/ FindNoChunks(w)
        \/ Pipeline(w)

StoreSpec == StoreInit /\ [][StoreNext]_allVars

(***************************************************************************)
(* Properties.                                                             *)
(***************************************************************************)
\* Two sets of chunks of one document are the work of two chunk runs that were
\* at it at the same time and had no summary to change: runs that do, wait for
\* each other on the documents row.
OneChunkSet ==
    \A d \in Docs : Cardinality(chunks[d]) > 1 => d \in raced \intersect repeats

Embedded(d) ==
    task[[doc |-> d, step |-> 2]] = "completed" =>
        chunks[d] # {} /\ embedded[d] = chunks[d]

\* A completed embed row means that search finds the document's text: it has
\* chunks and all of them have embeddings, unless chunks were replaced while
\* embed waited for their vectors.
CompletedMeansEmbedded == \A d \in Docs : d \in overtaken \/ Embedded(d)
=============================================================================
