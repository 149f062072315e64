---------------------------- MODULE TaskEnvelope ----------------------------
(***************************************************************************)
(* The envelope every subscribing worker runs its body in                  *)
(* (shared/pipeline.py, run_pipeline_step), over the tasks table.          *)
(*                                                                         *)
(* A step is its position in the chain: 1 is the step crawl hands          *)
(* documents to and NumSteps is embed, which hands on to nobody.  `tasks`  *)
(* holds at most one row per (document, step), so a row, and the queue     *)
(* message that names it, are the pair of the two.                         *)
(*                                                                         *)
(* A handler advances by one repository call or commit at a time, so that  *)
(* two handlers of the same task, which at-least-once delivery allows,     *)
(* interleave between the check of a status and the write that follows.    *)
(* Delivery and publishing belong to the modules that extend this one.     *)
(***************************************************************************)
EXTENDS Naturals

CONSTANTS
    Docs,          \* documents crawl has stored
    NumSteps,      \* length of the chain behind crawl
    ReraisingSteps,\* steps whose envelope is called with reraise=True
    Workers,       \* handler slots: each runs one message at a time
    NoMessage      \* what an idle handler holds

ASSUME NumStepsAssumption == NumSteps \in Nat \ {0}

Steps == 1 .. NumSteps

Messages == [doc : Docs, step : Steps]

ASSUME NoMessageAssumption == NoMessage \notin Messages

IsLast(m) == m.step = NumSteps

\* The row and message of the next step for the same document.
Successor(m) == [doc |-> m.doc, step |-> m.step + 1]

Statuses == {"pending", "processing", "completed", "failed"}

Phases ==
    { "idle",       \* no message
      "starting",   \* the message is delivered, the row not yet read
      "claiming",   \* the row was read and was not completed
      "working",    \* the body runs; processing is committed
      "inserting",  \* the body returned, the next row was not found
      "resetting",  \* the body returned, the next row was found
      "publishing", \* the body's writes and the next row are committed
      "completing", \* all that is left is to write completed
      "rejecting",  \* the body raised StepInputError
      "failing",    \* anything else raised
      "returning",  \* the handler returned
      "raising" }   \* the handler raised

VARIABLES
    task,     \* status of each row of `tasks`, "none" where there is no row
    produced, \* the rows whose body's writes are committed
    phase,    \* where each handler is in the envelope
    job       \* the message each handler works on

envelopeVars == <<task, produced, phase, job>>

EnvelopeTypeOK ==
    /\ task \in [Messages -> Statuses \union {"none"}]
    /\ produced \in SUBSET Messages
    /\ phase \in [Workers -> Phases]
    /\ job \in [Workers -> Messages \union {NoMessage}]
    /\ \A w \in Workers :
          /\ job[w] = NoMessage <=> phase[w] = "idle"
          /\ phase[w] \in {"inserting", "resetting", "publishing"} =>
                ~IsLast(job[w])

(***************************************************************************)
(* The steps of one handler.                                               *)
(***************************************************************************)
Goto(w, p) == phase' = [phase EXCEPT ![w] = p]

Receive(w, m) ==
    /\ phase[w] = "idle"
    /\ Goto(w, "starting")
    /\ job' = [job EXCEPT ![w] = m]
    /\ UNCHANGED <<task, produced>>

\* Variant: a row another delivery is processing is skipped as well.
SkippableIfTaken(status) == status \in {"none", "completed", "processing"}

\* A row that is missing or already completed is skipped.
Skippable(status) == status \in {"none", "completed"}

ReadTask(w) ==
    /\ phase[w] = "starting"
    /\ Goto(w, IF Skippable(task[job[w]]) THEN "returning" ELSE "claiming")
    /\ UNCHANGED <<task, produced, job>>

Claim(w) ==
    /\ phase[w] = "claiming"
    /\ task' = [task EXCEPT ![job[w]] = "processing"]
    /\ Goto(w, "working")
    /\ UNCHANGED <<produced, job>>

BodyRejects(w) ==
    /\ phase[w] = "working"
    /\ Goto(w, "rejecting")
    /\ UNCHANGED <<task, produced, job>>

BodyFails(w) ==
    /\ phase[w] = "working"
    /\ Goto(w, "failing")
    /\ UNCHANGED <<task, produced, job>>

\* A read, a write or a commit of the envelope's own raises.  Within the try it
\* is a failure of the step; before it, or where the outcome of a failure is
\* written, it reaches the caller, whatever the step asked for.
DatabaseFails(w) ==
    /\ \/ phase[w] \in {"inserting", "resetting", "completing"} /\ Goto(w, "failing")
       \/ phase[w] \in {"starting", "claiming", "rejecting", "failing"} /\ Goto(w, "raising")
    /\ UNCHANGED <<task, produced, job>>

\* Variant: the message is published before the next row is committed.
AfterBodyPublishesFirst(m) ==
    IF IsLast(m) THEN "completing" ELSE "publishing"

\* Where a body that returned goes: the terminal step has nobody to hand on to;
\* any other looks the next row up, before it writes it.
AfterBody(m) ==
    IF IsLast(m) THEN "completing"
    ELSE IF task[Successor(m)] = "none" THEN "inserting" ELSE "resetting"

BodyReturns(w) ==
    /\ phase[w] = "working"
    /\ Goto(w, AfterBody(job[w]))
    /\ UNCHANGED <<task, produced, job>>

\* Variant: the next row is committed ahead of the body's writes.
HandOffAheadOfOutput(w) ==
    /\ phase[w] \in {"inserting", "resetting"}
    /\ Goto(w, "publishing")
    /\ task' = [task EXCEPT ![Successor(job[w])] = "pending"]
    /\ UNCHANGED <<produced, job>>

\* Variant: only a row that is new is published.
HandOffPublishesNewRows(w) ==
    /\ phase[w] \in {"inserting", "resetting"}
    /\ Goto(w, IF phase[w] = "inserting" THEN "publishing" ELSE "completing")
    /\ task' = [task EXCEPT ![Successor(job[w])] = "pending"]
    /\ produced' = produced \union {job[w]}
    /\ UNCHANGED job

\* Variant: a next row that exists is left as it is.
HandOffLeavesNextRow(w) ==
    /\ phase[w] \in {"inserting", "resetting"}
    /\ Goto(w, "publishing")
    /\ task' = [task EXCEPT ![Successor(job[w])] =
                    IF phase[w] = "inserting" THEN "pending" ELSE @]
    /\ produced' = produced \union {job[w]}
    /\ UNCHANGED job

\* One transaction holds the body's writes and the pending next row.  The insert
\* of a row another handler committed since the lookup violates
\* uq_tasks_document_id_step, and the transaction is rolled back.
HandOff(w) ==
    /\ phase[w] \in {"inserting", "resetting"}
    /\ LET next == Successor(job[w])
       IN  IF phase[w] = "inserting" /\ task[next] # "none"
           THEN /\ Goto(w, "failing")
                /\ UNCHANGED <<task, produced>>
           ELSE /\ Goto(w, "publishing")
                /\ task' = [task EXCEPT ![next] = "pending"]
                /\ produced' = produced \union {job[w]}
    /\ UNCHANGED job

\* publish() returned, or raised: the envelope's side of either.
Published(w) ==
    /\ phase[w] = "publishing"
    /\ Goto(w, "completing")
    /\ UNCHANGED <<task, produced, job>>

PublishRaises(w) ==
    /\ phase[w] = "publishing"
    /\ Goto(w, "failing")
    /\ UNCHANGED <<task, produced, job>>

\* The last commit of a successful run, which for the terminal step holds the
\* body's writes as well.
Complete(w) ==
    /\ phase[w] = "completing"
    /\ task' = [task EXCEPT ![job[w]] = "completed"]
    /\ produced' = produced \union {job[w]}
    /\ Goto(w, "returning")
    /\ UNCHANGED job

\* Variant: a rejected document's row is left as it is.
FailTaskUnlessRejected(w) ==
    /\ phase[w] \in {"rejecting", "failing"}
    /\ task' = [task EXCEPT ![job[w]] =
                    IF phase[w] = "failing" THEN "failed" ELSE @]
    /\ Goto(w, IF phase[w] = "failing" /\ job[w].step \in ReraisingSteps
               THEN "raising" ELSE "returning")
    /\ UNCHANGED <<produced, job>>

\* Both exception paths mark the row failed; only an unexpected error of a
\* reraising step reaches the caller.
FailTask(w) ==
    /\ phase[w] \in {"rejecting", "failing"}
    /\ task' = [task EXCEPT ![job[w]] = "failed"]
    /\ Goto(w, IF phase[w] = "failing" /\ job[w].step \in ReraisingSteps
               THEN "raising" ELSE "returning")
    /\ UNCHANGED <<produced, job>>

\* Variant: a handler that stopped keeps its message.
ReleaseKeepsJob(w) ==
    /\ phase' = [phase EXCEPT ![w] = "idle"]
    /\ UNCHANGED <<task, produced, job>>

Release(w) ==
    /\ phase' = [phase EXCEPT ![w] = "idle"]
    /\ job' = [job EXCEPT ![w] = NoMessage]
    /\ UNCHANGED <<task, produced>>

\* The handler's moves that neither fail nor concern the queue.
Advance(w) ==
    \/ ReadTask(w)
    \/ Claim(w)
    \/ BodyRejects(w)
    \/ BodyReturns(w)
    \/ HandOff(w)
    \/ Complete(w)
    \/ FailTask(w)

(***************************************************************************)
(* What the table promises under every delivery the modules below allow.   *)
(***************************************************************************)
\* A next row exists only once the output it continues from is committed, and a
\* row is completed only once its output is committed and the next row exists:
\* "each step checkpoints its output" however handlers of one task interleave.
CheckpointOrder ==
    \A m \in Messages :
        /\ ~IsLast(m) /\ task[Successor(m)] # "none" => m \in produced
        /\ task[m] = "completed" =>
              /\ m \in produced
              /\ ~IsLast(m) => task[Successor(m)] # "none"

\* What a handler's place in the envelope says of the rows around its task:
\* the strengthening that makes the properties inductive.
HandlerProgress ==
    \A w \in Workers :
        /\ phase[w] \in {"resetting", "publishing"} =>
              task[Successor(job[w])] # "none"
        /\ phase[w] = "completing" /\ ~IsLast(job[w]) =>
              task[Successor(job[w])] # "none"
=============================================================================
