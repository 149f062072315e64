---------------------------- MODULE SyncPipeline ----------------------------
(***************************************************************************)
(* The pipeline on its in-process backend: scripts/run_pipeline.py hosts   *)
(* every worker, resumes what an earlier run left pending, crawls, and     *)
(* then drains shared/queue/sync.py's broker until it is empty.            *)
(*                                                                         *)
(* The broker's queue lives in the process and is gone with it, so what a  *)
(* later run can find is what the tasks table says.  One handler runs at a *)
(* time: Workers is a singleton.                                           *)
(***************************************************************************)
EXTENDS TaskEnvelope, Sequences, FiniteSets

CONSTANTS
    MaxCrashes,   \* runs that die where they stand
    MaxStops,     \* shutdown signals
    MaxFailures   \* bodies, and reads and writes around them, that raise

ASSUME OneHandlerAssumption == \E w \in Workers : Workers = {w}

\* What a crawl lists comes to an end.
ASSUME CorpusAssumption == IsFiniteSet(Docs)

ASSUME FaultsAssumption ==
    /\ MaxCrashes \in Nat
    /\ MaxStops \in Nat
    /\ MaxFailures \in Nat

VARIABLES
    stage,    \* how far the current run's main() has come
    resumed,  \* the current run was not started with --no-resume
    pending,  \* the broker's queue, oldest message first
    stopped,  \* a stop was requested of the broker
    listed,   \* documents the current crawl still has to look at
    fresh,    \* the document crawl has stored and not published yet, if any
    faults    \* how many faults of each kind have happened

vars == <<task, produced, phase, job, stage, resumed, pending, stopped, listed,
          fresh, faults>>

Stages == {"down", "resuming", "crawling", "draining"}

\* A row is "unread" when the handler cannot read or claim it, and a failure
\* "unrecorded" when it cannot write that the step failed.
FaultKinds == {"crash", "stop", "failure", "unread", "unrecorded"}

Row(d, k) == [doc |-> d, step |-> k]

\* Documents crawl has stored: those whose first row exists.
Known == {d \in Docs : task[Row(d, 1)] # "none"}

TypeOK ==
    /\ EnvelopeTypeOK
    /\ stage \in Stages
    /\ resumed \in BOOLEAN
    /\ pending \in Seq(Messages)
    /\ stopped \in BOOLEAN
    /\ listed \in SUBSET Docs
    /\ fresh \in SUBSET Docs
    /\ faults \in [FaultKinds -> Nat]

Init ==
    /\ task = [m \in Messages |-> "none"]
    /\ produced = {}
    /\ phase = [w \in Workers |-> "idle"]
    /\ job = [w \in Workers |-> NoMessage]
    /\ stage = "down"
    /\ resumed = FALSE
    /\ pending = <<>>
    /\ stopped = FALSE
    /\ listed = {}
    /\ fresh = {}
    /\ faults = [k \in FaultKinds |-> 0]

Fault(kind, bound) ==
    /\ faults[kind] < bound
    /\ faults' = [faults EXCEPT ![kind] = @ + 1]

(***************************************************************************)
(* main(): resume, then crawl, then drain.                                 *)
(***************************************************************************)
\* A fresh process: empty broker, every step subscribed; --no-resume goes
\* straight to the crawl.
Start(resume) ==
    /\ stage = "down"
    /\ stage' = IF resume THEN "resuming" ELSE "crawling"
    /\ resumed' = resume
    /\ pending' = <<>>
    /\ stopped' = FALSE
    /\ listed' = Docs
    /\ fresh' = {}
    /\ UNCHANGED <<envelopeVars, faults>>

\* Variant: the terminal step is missing from _RESUMABLE_STEPS.
ResumableStepsButLast == 1 .. NumSteps - 1

\* The steps whose pending rows a run queues again.
ResumableSteps == Steps

Left == {m \in Messages : m.step \in ResumableSteps /\ task[m] = "pending"}

\* The orders in which a set of messages can be queued: oldest step first, and
\* within a step in whatever order the table returns the rows.
InStepOrder(S) ==
    {q \in [1 .. Cardinality(S) -> S] :
        \A i, j \in 1 .. Cardinality(S) :
            i < j => q[i] # q[j] /\ q[i].step <= q[j].step}

QueuePendingTasks ==
    /\ stage = "resuming"
    /\ \E q \in InStepOrder(Left) : pending' = pending \o q
    /\ stage' = "crawling"
    /\ UNCHANGED <<envelopeVars, resumed, stopped, listed, fresh, faults>>

\* Crawl looks at one listing at a time, skips a document it knows, and commits
\* the rows of a new one before it publishes them.
Skip(d) ==
    /\ stage = "crawling"
    /\ fresh = {}
    /\ d \in listed \intersect Known
    /\ listed' = listed \ {d}
    /\ UNCHANGED <<envelopeVars, stage, resumed, pending, stopped, fresh, faults>>

Store(d) ==
    /\ stage = "crawling"
    /\ fresh = {}
    /\ d \in listed \ Known
    /\ task' = [task EXCEPT ![Row(d, 1)] = "pending"]
    /\ fresh' = {d}
    /\ listed' = listed \ {d}
    /\ UNCHANGED <<produced, phase, job, stage, resumed, pending, stopped, faults>>

PublishFresh(d) ==
    /\ d \in fresh
    /\ pending' = Append(pending, Row(d, 1))
    /\ fresh' = {}
    /\ UNCHANGED <<envelopeVars, stage, resumed, stopped, listed, faults>>

\* Variant: pending rows are queued after the crawl (as well).
ServeAfterResuming ==
    /\ stage = "crawling"
    /\ listed = {} /\ fresh = {}
    /\ \E q \in InStepOrder(Left) : pending' = pending \o q
    /\ stage' = "draining"
    /\ UNCHANGED <<envelopeVars, resumed, stopped, listed, fresh, faults>>

Serve ==
    /\ stage = "crawling"
    /\ listed = {} /\ fresh = {}
    /\ stage' = "draining"
    /\ UNCHANGED <<envelopeVars, resumed, pending, stopped, listed, fresh, faults>>

(***************************************************************************)
(* The drain: one message at a time, on one thread.                        *)
(***************************************************************************)
mainVars == <<stage, resumed, stopped, listed, fresh>>

\* Drain goes on while there is a message and no stop was requested.
GoesOn == pending # <<>> /\ ~stopped

Dispatch(w) ==
    /\ stage = "draining"
    /\ GoesOn
    /\ Receive(w, Head(pending))
    /\ pending' = Tail(pending)
    /\ UNCHANGED <<mainVars, faults>>

Handle(w) ==
    /\ Advance(w)
    /\ UNCHANGED <<mainVars, pending, faults>>

Fail(w) ==
    /\ BodyFails(w) \/ DatabaseFails(w)
    /\ faults["failure"] + faults["unread"] + faults["unrecorded"] < MaxFailures
    /\ Fault(IF phase[w] \in {"starting", "claiming"} THEN "unread"
             ELSE IF phase[w] \in {"rejecting", "failing"} THEN "unrecorded"
             ELSE "failure", MaxFailures)
    /\ UNCHANGED <<mainVars, pending>>

\* Every topic is subscribed, so enqueue() does not raise; the message is queued
\* behind the others.
Publish(w) ==
    /\ Published(w)
    /\ pending' = Append(pending, Successor(job[w]))
    /\ UNCHANGED <<mainVars, faults>>

\* The drain swallows what a handler raises, and drops its message either way.
Return(w) ==
    /\ phase[w] \in {"returning", "raising"}
    /\ Release(w)
    /\ UNCHANGED <<mainVars, pending, faults>>

\* SIGTERM or SIGINT while serve() blocks.
RequestStop ==
    /\ stage = "draining"
    /\ ~stopped
    /\ Fault("stop", MaxStops)
    /\ stopped' = TRUE
    /\ UNCHANGED <<envelopeVars, stage, resumed, pending, listed, fresh>>

\* The drain ends between two messages and the process with it.
Finish ==
    /\ stage = "draining"
    /\ \A w \in Workers : phase[w] = "idle"
    /\ ~GoesOn
    /\ stage' = "down"
    /\ pending' = <<>>
    /\ UNCHANGED <<envelopeVars, resumed, stopped, listed, fresh, faults>>

\* The process dies: its open transaction and its queue are gone.
Crash(w) ==
    /\ stage # "down"
    /\ Fault("crash", MaxCrashes)
    /\ Release(w)
    /\ stage' = "down"
    /\ pending' = <<>>
    /\ fresh' = {}
    /\ UNCHANGED <<resumed, stopped, listed>>

\* What a run does by itself.
Run ==
    \/ QueuePendingTasks
    \/ \E d \in Docs : Skip(d) \/ Store(d) \/ PublishFresh(d)
    \/ Serve
    \/ \E w \in Workers : Dispatch(w) \/ Handle(w) \/ Publish(w) \/ Return(w)
    \/ Finish

Next ==
    \/ \E resume \in BOOLEAN : Start(resume)
    \/ Run
    \/ RequestStop
    \/ \E w \in Workers : Fail(w) \/ Crash(w)

Spec == Init /\ [][Next]_vars

\* A run that started goes on, and runs with the default flag keep being
\* started; --no-resume runs may come between them.
FairSpec == Spec /\ WF_vars(Run) /\ SF_vars(Start(TRUE))

(***************************************************************************)
(* Properties.                                                             *)
(***************************************************************************)
\* A row is queued or handled at most once at a time.  Resuming before the crawl
\* is what keeps it so: afterwards, a row crawl has just created and queued is
\* indistinguishable from one an earlier run left (run_pipeline.py:98).
OneMessagePerRow ==
    /\ \A i, j \in 1 .. Len(pending) : pending[i] = pending[j] => i = j
    /\ \A i \in 1 .. Len(pending), w \in Workers : pending[i] # job[w]

\* Every queued message still has its work to do, so no step runs twice on one
\* row; and a run that resumed drains every pending row there is, but for those
\* a handler could not read, whose message the drain has dropped.
QueueIsPendingRows ==
    /\ \A i \in 1 .. Len(pending) : task[pending[i]] = "pending"
    /\ stage = "draining" /\ resumed /\ faults["unread"] = 0 =>
          \A m \in Messages : task[m] = "pending" =>
             \/ \E i \in 1 .. Len(pending) : pending[i] = m
             \/ \E w \in Workers :
                   \/ job[w] = m
                   \/ phase[w] = "publishing" /\ Successor(job[w]) = m

\* A shutdown signal stops the drain between two messages: unless a run died, or
\* a failure could not be written down ("its task row already carries the
\* failure", queue/sync.py:101), no row is left in processing, the one status no
\* later run picks up.
ProcessingIsBeingHandled ==
    faults["crash"] = 0 /\ faults["unrecorded"] = 0 =>
        \A m \in Messages : task[m] = "processing" =>
            \E w \in Workers : job[w] = m

Finished(d) ==
    \/ \E k \in Steps : task[Row(d, k)] = "failed"
    \/ task[Row(d, NumSteps)] = "completed"

\* However often the drain is stopped, every listed document is finished in the
\* end, or has a failed row, as long as no run dies and every failure is written
\* down: a row that could not be read is found pending by a later run.
DocumentsFinish ==
    <>[](faults["crash"] = 0 /\ faults["unrecorded"] = 0 => \A d \in Docs : Finished(d))

\* The checkpoints this backend makes are the abstract pipeline's, across runs.
Abstract == INSTANCE Checkpoints WITH reached <- produced

ImplementsCheckpoints == Abstract!Spec

\* "Crawl only publishes for documents it has just discovered, so a document
\* whose earlier run died mid-pipeline is invisible to it ... This is what
\* re-drives those" (run_pipeline.py:91-94): a row a dead run left behind would
\* be worked on again by a later one.
DeadRunsAreRedriven ==
    \A m \in Messages :
        stage = "down" /\ task[m] = "processing" ~> task[m] # "processing"
=============================================================================
