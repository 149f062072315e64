--------------------------- MODULE PubSubPipeline ---------------------------
(***************************************************************************)
(* The pipeline on its Pub/Sub backend (shared/queue/pubsub.py): one       *)
(* process per worker, at-least-once delivery, and a publisher whose       *)
(* messages sit in a client-side batch until the library sends it.         *)
(*                                                                         *)
(* A message is delivered again when the handler raises, when its process  *)
(* dies before the ack, and when the ack deadline passes while the handler *)
(* still runs; so several handlers may hold the same task.                 *)
(*                                                                         *)
(* The Max* constants bound how often each fault happens in a behaviour.   *)
(***************************************************************************)
EXTENDS TaskEnvelope

CONSTANTS
    MaxCrashes,     \* processes that die
    MaxDuplicates,  \* messages delivered again although still being handled
    MaxRefusals,    \* publish() calls that raise
    MaxFailures     \* bodies, and reads and writes around them, that raise

ASSUME FaultsAssumption ==
    /\ MaxCrashes \in Nat
    /\ MaxDuplicates \in Nat
    /\ MaxRefusals \in Nat
    /\ MaxFailures \in Nat

VARIABLES
    queue,   \* how many deliverable copies of each message the topic holds
    batch,   \* how often each process has published a message and not yet sent it
    faults   \* how many faults of each kind have happened

vars == <<task, produced, phase, job, queue, batch, faults>>

\* A "loss" is the crash of a process that still owes a publication.
FaultKinds == {"crash", "loss", "duplicate", "refusal", "failure"}

TypeOK ==
    /\ EnvelopeTypeOK
    /\ queue \in [Messages -> Nat]
    /\ batch \in [Workers -> [Messages -> Nat]]
    /\ faults \in [FaultKinds -> Nat]

NothingBatched == [m \in Messages |-> 0]

\* What crawl leaves behind: a pending first row per document, and its message.
Init ==
    /\ task = [m \in Messages |-> IF m.step = 1 THEN "pending" ELSE "none"]
    /\ produced = {}
    /\ phase = [w \in Workers |-> "idle"]
    /\ job = [w \in Workers |-> NoMessage]
    /\ queue = [m \in Messages |-> IF m.step = 1 THEN 1 ELSE 0]
    /\ batch = [w \in Workers |-> NothingBatched]
    /\ faults = [k \in FaultKinds |-> 0]

Fault(kind, bound) ==
    /\ faults[kind] < bound
    /\ faults' = [faults EXCEPT ![kind] = @ + 1]

Deliver(w, m) ==
    /\ queue[m] > 0
    /\ Receive(w, m)
    /\ queue' = [queue EXCEPT ![m] = @ - 1]
    /\ UNCHANGED <<batch, faults>>

Handle(w) ==
    /\ Advance(w)
    /\ UNCHANGED <<queue, batch, faults>>

Fail(w) ==
    /\ BodyFails(w) \/ DatabaseFails(w)
    /\ Fault("failure", MaxFailures)
    /\ UNCHANGED <<queue, batch>>

\* publish() only adds to the client's batch; the future it returns is dropped.
Publish(w) ==
    /\ Published(w)
    /\ batch' = [batch EXCEPT ![w][Successor(job[w])] = @ + 1]
    /\ UNCHANGED <<queue, faults>>

PublishRefused(w) ==
    /\ PublishRaises(w)
    /\ Fault("refusal", MaxRefusals)
    /\ UNCHANGED <<queue, batch>>

\* The library sends the batch from its own thread.
Send(w) ==
    /\ batch[w] # NothingBatched
    /\ queue' = [m \in Messages |-> queue[m] + batch[w][m]]
    /\ batch' = [batch EXCEPT ![w] = NothingBatched]
    /\ UNCHANGED <<envelopeVars, faults>>

Ack(w) ==
    /\ phase[w] = "returning"
    /\ Release(w)
    /\ UNCHANGED <<queue, batch, faults>>

Nack(w) ==
    /\ phase[w] = "raising"
    /\ Release(w)
    /\ queue' = [queue EXCEPT ![job[w]] = @ + 1]
    /\ UNCHANGED <<batch, faults>>

\* The ack deadline passes while the handler runs.
DeadlinePasses(w) ==
    /\ phase[w] # "idle"
    /\ Fault("duplicate", MaxDuplicates)
    /\ queue' = [queue EXCEPT ![job[w]] = @ + 1]
    /\ UNCHANGED <<envelopeVars, batch>>

\* A committed next row has no message outside w's process yet.
OwesMessage(w) == phase[w] = "publishing" \/ batch[w] # NothingBatched

\* The process dies: the transaction it had open and its batch are gone, and
\* the message it had not acknowledged is delivered again.
Crash(w) ==
    /\ phase[w] # "idle" \/ batch[w] # NothingBatched
    /\ Fault(IF OwesMessage(w) THEN "loss" ELSE "crash", MaxCrashes)
    /\ Release(w)
    /\ batch' = [batch EXCEPT ![w] = NothingBatched]
    /\ queue' = IF phase[w] = "idle" THEN queue
                ELSE [queue EXCEPT ![job[w]] = @ + 1]

\* What the process does by itself when nothing goes wrong.
Step(w) ==
    \/ \E m \in Messages : Deliver(w, m)
    \/ Handle(w)
    \/ Publish(w)
    \/ Ack(w)
    \/ Nack(w)

Next ==
    \E w \in Workers :
        \/ Step(w)
        \/ Send(w)
        \/ Fail(w)
        \/ PublishRefused(w)
        \/ DeadlinePasses(w)
        \/ Crash(w)

Spec == Init /\ [][Next]_vars

\* A handler keeps running and the client library keeps sending; nothing is
\* assumed of the faults, which the Max* constants make finitely many.
Fairness == \A w \in Workers : WF_vars(Step(w)) /\ WF_vars(Send(w))

FairSpec == Spec /\ Fairness

(***************************************************************************)
(* Properties.                                                             *)
(***************************************************************************)
\* Commit-before-publish: whatever is queued, batched or being handled names a
\* committed row, so no handler ever drops a message because its row is missing.
MessagesNameRows ==
    /\ \A m \in Messages : queue[m] > 0 => task[m] # "none"
    /\ \A w \in Workers, m \in Messages : batch[w][m] > 0 => task[m] # "none"
    /\ \A w \in Workers : phase[w] # "idle" => task[job[w]] # "none"

\* A delivery of m is still to come, or has not written its outcome yet.
Outstanding(m) ==
    \/ queue[m] > 0
    \/ \E w \in Workers : job[w] = m /\ phase[w] # "returning"

\* m's message is committed to but has not left the publishing process.
Owed(m) ==
    \E w \in Workers :
        \/ batch[w][m] > 0
        \/ phase[w] = "publishing" /\ Successor(job[w]) = m

\* A row in `processing` is never abandoned: through crashes, duplicates, nacks
\* and refused publishes, some delivery is left that will overwrite it.
NoAbandonedProcessing ==
    \A m \in Messages : task[m] = "processing" => Outstanding(m)

\* A pending row has a message under way, unless a process died owing one or
\* publish() raised: those are the only two windows that strand a document.
NoStrandedPending ==
    faults["loss"] = 0 /\ faults["refusal"] = 0 =>
        \A m \in Messages : task[m] = "pending" => Outstanding(m) \/ Owed(m)

Finished(d) ==
    \/ \E k \in Steps : task[[doc |-> d, step |-> k]] = "failed"
    \/ task[[doc |-> d, step |-> NumSteps]] = "completed"

\* Where no publication is lost, every document ends finished or with a failed
\* row that says where it stopped, however deliveries are repeated.
DocumentsFinish ==
    <>[](faults["loss"] = 0 /\ faults["refusal"] = 0 =>
            \A d \in Docs : Finished(d))

\* The checkpoints this backend makes are the abstract pipeline's.
Abstract == INSTANCE Checkpoints WITH reached <- produced

ImplementsCheckpoints == Abstract!Spec
=============================================================================
