---------------------------- MODULE PubSubProofs ----------------------------
(***************************************************************************)
(* Theorems about PubSubPipeline, for every set of documents and handler   *)
(* slots, every length of chain and every bound on the faults; and about   *)
(* the bodies of chunk and embed on top of it (ChunkEmbed), whichever      *)
(* texts yield no chunks or have a summary that repeats itself.            *)
(***************************************************************************)
EXTENDS ChunkEmbed, FiniteSetTheorems, TLAPS

(***************************************************************************)
(* The chain.                                                              *)
(***************************************************************************)
\* Every row but the last of its document has a next row.
LEMMA SuccessorIsMessage ==
    ASSUME NEW m \in Messages, ~IsLast(m)
    PROVE  Successor(m) \in Messages
  BY NumStepsAssumption DEF Messages, Steps, IsLast, Successor

\* No row is the next row of two.
LEMMA SuccessorIsInjective ==
    ASSUME NEW m \in Messages, NEW n \in Messages,
           Successor(m) = Successor(n)
    PROVE  m = n
  <1>1. m.doc = n.doc /\ m.step + 1 = n.step + 1
    BY DEF Messages, Successor
  <1>2. m.step = n.step
    BY <1>1 DEF Messages, Steps
  <1> QED  BY <1>1, <1>2 DEF Messages

\* The row before m, where there is one.
Predecessor(m) == [doc |-> m.doc, step |-> m.step - 1]

\* Every row but the first of its document is a next row.
LEMMA PredecessorIsMessage ==
    ASSUME NEW m \in Messages, m.step > 1
    PROVE  /\ Predecessor(m) \in Messages
           /\ ~IsLast(Predecessor(m))
           /\ Successor(Predecessor(m)) = m
  BY NumStepsAssumption
  DEF Messages, Steps, IsLast, Successor, Predecessor

(***************************************************************************)
(* One move of a handler.                                                  *)
(***************************************************************************)
\* The envelope's variables keep their types, and the handler its message.
LEMMA AdvanceKeepsTypes ==
    ASSUME EnvelopeTypeOK, NEW w \in Workers, Advance(w)
    PROVE  EnvelopeTypeOK' /\ job' = job /\ phase[w] # "idle"
  <1> USE NoMessageAssumption DEF EnvelopeTypeOK, Statuses, Phases, Goto
  <1>1. CASE ReadTask(w)
    BY <1>1 DEF ReadTask
  <1>2. CASE Claim(w)
    BY <1>2 DEF Claim
  <1>3. CASE BodyRejects(w)
    BY <1>3 DEF BodyRejects
  <1>4. CASE BodyReturns(w)
    BY <1>4 DEF BodyReturns, AfterBody
  <1>5. CASE HandOff(w)
    BY <1>5 DEF HandOff
  <1>6. CASE Complete(w)
    BY <1>6 DEF Complete
  <1>7. CASE FailTask(w)
    BY <1>7 DEF FailTask
  <1> QED  BY <1>1, <1>2, <1>3, <1>4, <1>5, <1>6, <1>7 DEF Advance

\* A hand-over is the one step that adds a row, and it is its successor's.
LEMMA HandOffEffect ==
    ASSUME EnvelopeTypeOK, NEW w \in Workers, HandOff(w)
    PROVE  /\ job[w] \in Messages
           /\ Successor(job[w]) \in Messages
           /\ ~IsLast(job[w])
  BY SuccessorIsMessage DEF HandOff, EnvelopeTypeOK

\* Neither a row nor an output is ever taken back.
LEMMA AdvanceKeepsRows ==
    ASSUME EnvelopeTypeOK, NEW w \in Workers, Advance(w)
    PROVE  /\ \A m \in Messages : task[m] # "none" => task'[m] # "none"
           /\ produced \subseteq produced'
  <1> USE DEF EnvelopeTypeOK
  <1>1. CASE Claim(w) \/ Complete(w) \/ FailTask(w)
    BY <1>1 DEF Claim, Complete, FailTask
  <1>2. CASE HandOff(w)
    BY <1>2 DEF HandOff
  <1>3. CASE ReadTask(w) \/ BodyRejects(w) \/ BodyReturns(w)
    BY <1>3 DEF ReadTask, BodyRejects, BodyReturns
  <1> QED  BY <1>1, <1>2, <1>3 DEF Advance

\* A handler that works on a row there is keeps outputs ahead of the rows that
\* stand on them.
LEMMA AdvanceKeepsCheckpointOrder ==
    ASSUME EnvelopeTypeOK, CheckpointOrder, HandlerProgress,
           NEW w \in Workers, Advance(w), task[job[w]] # "none"
    PROVE  CheckpointOrder'
  <1> USE DEF EnvelopeTypeOK
  <1>1. job[w] \in Messages
    BY DEF Advance, ReadTask, Claim, BodyRejects, BodyReturns, HandOff,
           Complete, FailTask
  <1>2. CASE UNCHANGED <<task, produced>>
    BY <1>2 DEF CheckpointOrder
  <1>3. CASE Claim(w) \/ FailTask(w)
    <2>1. /\ produced' = produced
          /\ \A m \in Messages :
                /\ task'[m] = "none" <=> task[m] = "none"
                /\ task'[m] = "completed" => task[m] = "completed"
      BY <1>1, <1>3 DEF Claim, FailTask
    <2> QED  BY <2>1, SuccessorIsMessage DEF CheckpointOrder
  <1>4. CASE /\ HandOff(w)
             /\ task' = [task EXCEPT ![Successor(job[w])] = "pending"]
             /\ produced' = produced \union {job[w]}
    <2>1. ASSUME NEW m \in Messages, ~IsLast(m),
                 task'[Successor(m)] # "none"
          PROVE  m \in produced'
      <3>1. CASE Successor(m) = Successor(job[w])
        BY <3>1, <1>4, HandOffEffect, SuccessorIsInjective
      <3>2. CASE Successor(m) # Successor(job[w])
        BY <2>1, <3>2, <1>4, SuccessorIsMessage DEF CheckpointOrder
      <3> QED  BY <3>1, <3>2
    <2>2. ASSUME NEW m \in Messages, task'[m] = "completed"
          PROVE  /\ m \in produced'
                 /\ ~IsLast(m) => task'[Successor(m)] # "none"
      <3>1. task[m] = "completed"
        BY <2>2, <1>4
      <3> QED  BY <3>1, <1>4, AdvanceKeepsRows, SuccessorIsMessage
               DEF CheckpointOrder
    <2> QED  BY <2>1, <2>2 DEF CheckpointOrder
  <1>5. CASE Complete(w)
    <2>1. ~IsLast(job[w]) => task[Successor(job[w])] # "none"
      BY <1>5 DEF Complete, HandlerProgress
    <2>2. /\ produced' = produced \union {job[w]}
          /\ \A m \in Messages :
                /\ task'[m] = "none" <=> task[m] = "none"
                /\ task'[m] = "completed" =>
                      task[m] = "completed" \/ m = job[w]
      BY <1>1, <1>5 DEF Complete
    <2> QED  BY <2>1, <2>2, SuccessorIsMessage DEF CheckpointOrder
  <1> QED  BY <1>2, <1>3, <1>4, <1>5
           DEF Advance, ReadTask, BodyRejects, BodyReturns, HandOff

\* What a move makes durable is the output of the handler's own step, and the
\* output it continues from is durable already.
LEMMA AdvanceCheckpoints ==
    ASSUME EnvelopeTypeOK, CheckpointOrder,
           NEW w \in Workers, Advance(w), task[job[w]] # "none"
    PROVE  \/ UNCHANGED produced
           \/ /\ job[w] \in Messages
              /\ produced' = produced \union {job[w]}
              /\ job[w].step > 1 => Predecessor(job[w]) \in produced
  <1>1. CASE produced' = produced
    BY <1>1
  <1>2. CASE produced' # produced
    <2>1. job[w] \in Messages /\ produced' = produced \union {job[w]}
      BY <1>2 DEF EnvelopeTypeOK, Advance, ReadTask, Claim, BodyRejects,
                  BodyReturns, HandOff, Complete, FailTask
    <2>2. job[w].step > 1 => Predecessor(job[w]) \in produced
      BY <2>1, PredecessorIsMessage DEF CheckpointOrder
    <2> QED  BY <2>1, <2>2
  <1> QED  BY <1>1, <1>2

(***************************************************************************)
(* Type correctness.                                                       *)
(***************************************************************************)
LEMMA TypeHoldsInitially == ASSUME Init PROVE TypeOK
  BY NoMessageAssumption
  DEF Init, TypeOK, EnvelopeTypeOK, NothingBatched, Messages, Steps, Statuses, Phases

LEMMA TypeIsPreserved == ASSUME TypeOK, [Next]_vars PROVE TypeOK'
  <1> USE NoMessageAssumption DEF TypeOK, EnvelopeTypeOK, Statuses, Phases
  <1>1. CASE UNCHANGED vars
    BY <1>1 DEF vars
  <1>2. ASSUME NEW w \in Workers, NEW m \in Messages, Deliver(w, m)
        PROVE  TypeOK'
    BY <1>2 DEF Deliver, Receive, Goto
  <1>3. ASSUME NEW w \in Workers, Handle(w)
        PROVE  TypeOK'
    <2>1. EnvelopeTypeOK'
      BY <1>3, AdvanceKeepsTypes DEF Handle
    <2> QED  BY <1>3, <2>1 DEF Handle
  <1>4. ASSUME NEW w \in Workers, Publish(w)
        PROVE  TypeOK'
    <2>1. job[w] \in Messages /\ ~IsLast(job[w])
      BY <1>4 DEF Publish, Published
    <2>2. Successor(job[w]) \in Messages
      BY <2>1, SuccessorIsMessage
    <2>3. batch' \in [Workers -> [Messages -> Nat]]
      BY <1>4, <2>2 DEF Publish
    <2> QED  BY <1>4, <2>3 DEF Publish, Published, Goto
  <1>5. ASSUME NEW w \in Workers, Send(w)
        PROVE  TypeOK'
    <2>1. NothingBatched \in [Messages -> Nat]
      BY DEF NothingBatched
    <2>2. batch' \in [Workers -> [Messages -> Nat]]
      BY <1>5, <2>1 DEF Send
    <2>3. queue' \in [Messages -> Nat]
      BY <1>5 DEF Send
    <2> QED  BY <1>5, <2>2, <2>3 DEF Send, envelopeVars
  <1>6. ASSUME NEW w \in Workers, Ack(w)
        PROVE  TypeOK'
    BY <1>6 DEF Ack, Release
  <1>7. ASSUME NEW w \in Workers, Nack(w)
        PROVE  TypeOK'
    <2>1. job[w] \in Messages
      BY <1>7 DEF Nack
    <2> QED  BY <1>7, <2>1 DEF Nack, Release
  <1>8. ASSUME NEW w \in Workers, Fail(w)
        PROVE  TypeOK'
    BY <1>8 DEF Fail, BodyFails, DatabaseFails, Goto, Fault, FaultKinds
  <1>9. ASSUME NEW w \in Workers, PublishRefused(w)
        PROVE  TypeOK'
    BY <1>9 DEF PublishRefused, PublishRaises, Goto, Fault, FaultKinds
  <1>10. ASSUME NEW w \in Workers, DeadlinePasses(w)
         PROVE  TypeOK'
    <2>1. job[w] \in Messages
      BY <1>10 DEF DeadlinePasses
    <2> QED  BY <1>10, <2>1
             DEF DeadlinePasses, Fault, FaultKinds, envelopeVars
  <1>11. ASSUME NEW w \in Workers, Crash(w)
         PROVE  TypeOK'
    <2>1. faults' \in [FaultKinds -> Nat]
      BY <1>11 DEF Crash, Fault, FaultKinds
    <2>2. queue' \in [Messages -> Nat]
      BY <1>11 DEF Crash
    <2>3. batch' \in [Workers -> [Messages -> Nat]]
      <3>1. NothingBatched \in [Messages -> Nat]
        BY DEF NothingBatched
      <3> QED  BY <1>11, <3>1 DEF Crash
    <2> QED  BY <1>11, <2>1, <2>2, <2>3 DEF Crash, Release
  <1> QED  BY <1>1, <1>2, <1>3, <1>4, <1>5, <1>6, <1>7, <1>8, <1>9, <1>10,
              <1>11 DEF Next, Step

\* Every variable keeps its type, and a handler holds a message exactly when it
\* is not idle.
THEOREM TypeCorrect == Spec => []TypeOK
  BY TypeHoldsInitially, TypeIsPreserved, PTL DEF Spec

(***************************************************************************)
(* Rows and checkpoints.                                                   *)
(***************************************************************************)
\* The invariant the safety properties follow from.
Inductive ==
    /\ TypeOK
    /\ MessagesNameRows
    /\ HandlerProgress
    /\ CheckpointOrder

LEMMA InductiveHoldsInitially == ASSUME Init PROVE Inductive
  <1>1. TypeOK
    BY TypeHoldsInitially
  <1>2. MessagesNameRows /\ HandlerProgress
    BY DEF Init, NothingBatched, MessagesNameRows, HandlerProgress
  <1>3. CheckpointOrder
    <2>1. \A m \in Messages : ~IsLast(m) => task[Successor(m)] = "none"
      <3> SUFFICES ASSUME NEW m \in Messages, ~IsLast(m)
                   PROVE  task[Successor(m)] = "none"
        OBVIOUS
      <3>1. Successor(m) \in Messages /\ Successor(m).step # 1
        BY SuccessorIsMessage DEF Successor, Messages, Steps
      <3> QED  BY <3>1 DEF Init
    <2>2. \A m \in Messages : task[m] # "completed"
      BY DEF Init
    <2> QED  BY <2>1, <2>2 DEF CheckpointOrder
  <1> QED  BY <1>1, <1>2, <1>3 DEF Inductive

\* Delivery, publishing and the faults write neither a row nor an output.
QuietStep(w) ==
    \/ \E m \in Messages : Deliver(w, m)
    \/ Publish(w)
    \/ Send(w)
    \/ Ack(w)
    \/ Nack(w)
    \/ Fail(w)
    \/ PublishRefused(w)
    \/ DeadlinePasses(w)
    \/ Crash(w)

LEMMA QuietSteps ==
    ASSUME NEW w \in Workers, QuietStep(w)
    PROVE  UNCHANGED <<task, produced>>
  BY DEF QuietStep, Deliver, Receive, Publish, Published, Send, Ack, Nack,
         Release, Fail, BodyFails, DatabaseFails, PublishRefused, PublishRaises,
         DeadlinePasses, Crash, envelopeVars

LEMMA RowsPersist ==
    ASSUME TypeOK, [Next]_vars
    PROVE  /\ \A m \in Messages : task[m] # "none" => task'[m] # "none"
           /\ produced \subseteq produced'
  <1> DEFINE Persist ==
        /\ \A m \in Messages : task[m] # "none" => task'[m] # "none"
        /\ produced \subseteq produced'
  <1>1. ASSUME UNCHANGED <<task, produced>>
        PROVE  Persist
    BY <1>1
  <1>2. ASSUME NEW w \in Workers, Handle(w)
        PROVE  Persist
    BY <1>2, AdvanceKeepsRows DEF Handle, TypeOK
  <1>3. CASE UNCHANGED vars
    BY <1>1, <1>3 DEF vars
  <1> QED  BY <1>1, <1>2, <1>3, QuietSteps DEF Next, Step, QuietStep

LEMMA CheckpointOrderIsPreserved ==
    ASSUME Inductive, [Next]_vars
    PROVE  CheckpointOrder'
  <1>1. ASSUME UNCHANGED <<task, produced>>
        PROVE  CheckpointOrder'
    BY <1>1 DEF CheckpointOrder, Inductive
  <1>2. ASSUME NEW w \in Workers, Handle(w)
        PROVE  CheckpointOrder'
    <2>1. EnvelopeTypeOK /\ Advance(w)
      BY <1>2 DEF Inductive, TypeOK, Handle
    <2>2. task[job[w]] # "none"
      BY <2>1, AdvanceKeepsTypes DEF Inductive, MessagesNameRows
    <2> QED  BY <2>1, <2>2, AdvanceKeepsCheckpointOrder DEF Inductive
  <1>3. CASE UNCHANGED vars
    BY <1>1, <1>3 DEF vars
  <1> QED  BY <1>1, <1>2, <1>3, QuietSteps DEF Next, Step, QuietStep

LEMMA MessagesNameRowsIsPreserved ==
    ASSUME Inductive, [Next]_vars
    PROVE  MessagesNameRows'
  <1> USE DEF Inductive, TypeOK, EnvelopeTypeOK
  <1>0. \A m \in Messages : task[m] # "none" => task'[m] # "none"
    BY RowsPersist
  <1>1. ASSUME NEW w \in Workers, NEW m \in Messages, Deliver(w, m)
        PROVE  MessagesNameRows'
    BY <1>0, <1>1 DEF Deliver, Receive, Goto, MessagesNameRows
  <1>2. ASSUME NEW w \in Workers, Publish(w)
        PROVE  MessagesNameRows'
    <2>1. Successor(job[w]) \in Messages /\ task[Successor(job[w])] # "none"
      BY <1>2, SuccessorIsMessage DEF Publish, Published, HandlerProgress
    <2>2. \A v \in Workers, m \in Messages : batch'[v][m] > 0 =>
             batch[v][m] > 0 \/ m = Successor(job[w])
      BY <1>2, <2>1 DEF Publish
    <2> QED  BY <1>0, <1>2, <2>1, <2>2
             DEF Publish, Published, Goto, MessagesNameRows
  <1>3. ASSUME NEW w \in Workers, Send(w)
        PROVE  MessagesNameRows'
    <2>1. \A m \in Messages : queue'[m] > 0 => queue[m] > 0 \/ batch[w][m] > 0
      BY <1>3 DEF Send
    <2>2. \A v \in Workers, m \in Messages : batch'[v][m] > 0 => batch[v][m] > 0
      BY <1>3 DEF Send, NothingBatched
    <2> QED  BY <1>0, <1>3, <2>1, <2>2 DEF Send, envelopeVars, MessagesNameRows
  <1>4. ASSUME NEW w \in Workers, Ack(w) \/ Nack(w) \/ Crash(w)
        PROVE  MessagesNameRows'
    <2>1. \A m \in Messages : queue'[m] > 0 =>
             \/ queue[m] > 0
             \/ phase[w] # "idle" /\ m = job[w]
      <3>1. \/ queue' = queue
            \/ phase[w] # "idle" /\ queue' = [queue EXCEPT ![job[w]] = @ + 1]
        BY <1>4 DEF Ack, Nack, Crash
      <3>2. CASE queue' = queue
        BY <3>2
      <3>3. CASE phase[w] # "idle" /\ queue' = [queue EXCEPT ![job[w]] = @ + 1]
        BY <3>3
      <3> QED  BY <3>1, <3>2, <3>3
    <2>2. \A v \in Workers, m \in Messages : batch'[v][m] > 0 => batch[v][m] > 0
      BY <1>4 DEF Ack, Nack, Crash, NothingBatched
    <2>3. \A v \in Workers : phase'[v] # "idle" =>
             phase[v] # "idle" /\ job'[v] = job[v]
      BY <1>4 DEF Ack, Nack, Crash, Release
    <2> QED  BY <1>0, <2>1, <2>2, <2>3 DEF MessagesNameRows
  <1>5. ASSUME NEW w \in Workers,
               Handle(w) \/ Fail(w) \/ PublishRefused(w)
        PROVE  MessagesNameRows'
    <2>1. UNCHANGED <<queue, batch, job>> /\ phase[w] # "idle"
      BY <1>5 DEF Handle, Advance, ReadTask, Claim, BodyRejects, BodyReturns,
                  HandOff, Complete, FailTask, Fail, BodyFails, DatabaseFails, PublishRefused,
                  PublishRaises
    <2>2. \A v \in Workers : phase'[v] # "idle" => phase[v] # "idle"
      BY <2>1, TypeIsPreserved
    <2> QED  BY <1>0, <2>1, <2>2 DEF MessagesNameRows
  <1>6. ASSUME NEW w \in Workers, DeadlinePasses(w)
        PROVE  MessagesNameRows'
    BY <1>0, <1>6 DEF DeadlinePasses, envelopeVars, MessagesNameRows
  <1>7. CASE UNCHANGED vars
    BY <1>7 DEF vars, MessagesNameRows
  <1> QED  BY <1>1, <1>2, <1>3, <1>4, <1>5, <1>6, <1>7 DEF Next, Step

LEMMA HandlerProgressIsPreserved ==
    ASSUME Inductive, [Next]_vars
    PROVE  HandlerProgress'
  <1> USE DEF Inductive, TypeOK, EnvelopeTypeOK
  <1>0. \A m \in Messages : task[m] # "none" => task'[m] # "none"
    BY RowsPersist
  <1> DEFINE Told(v) == phase'[v] \in {"resetting", "publishing", "completing"}
  <1>1. SUFFICES ASSUME NEW v \in Workers, Told(v), ~IsLast(job'[v])
                 PROVE  task'[Successor(job'[v])] # "none"
    BY TypeIsPreserved DEF HandlerProgress
  <1>2. CASE phase'[v] = phase[v] /\ job'[v] = job[v]
    BY <1>0, <1>1, <1>2, SuccessorIsMessage DEF HandlerProgress
  <1>3. CASE BodyReturns(v)
    BY <1>1, <1>3 DEF BodyReturns, AfterBody, Goto
  <1>4. CASE HandOff(v)
    <2>1. phase'[v] = "publishing" /\ job' = job
      BY <1>1, <1>4 DEF HandOff, Goto
    <2>2. task' = [task EXCEPT ![Successor(job[v])] = "pending"]
      BY <1>4, <2>1 DEF HandOff, Goto
    <2> QED  BY <1>4, <2>1, <2>2, HandOffEffect
  <1>5. CASE Published(v)
    BY <1>0, <1>1, <1>5, SuccessorIsMessage DEF Published, HandlerProgress
  <1>6. ASSUME ~(phase'[v] = phase[v] /\ job'[v] = job[v])
        PROVE  BodyReturns(v) \/ HandOff(v) \/ Published(v)
    <2>1. CASE UNCHANGED vars
      BY <1>6, <2>1 DEF vars
    <2>2. ASSUME NEW w \in Workers, Handle(w)
          PROVE  BodyReturns(v) \/ HandOff(v)
      BY <1>1, <1>6, <2>2
      DEF Handle, Advance, ReadTask, Claim, BodyRejects, BodyReturns, HandOff,
          Complete, FailTask, Goto
    <2>3. ASSUME NEW w \in Workers, Publish(w)
          PROVE  Published(v)
      BY <1>6, <2>3 DEF Publish, Published, Goto
    <2>4. ASSUME NEW w \in Workers, NEW m \in Messages, Deliver(w, m)
          PROVE  FALSE
      BY <1>1, <1>6, <2>4 DEF Deliver, Receive, Goto
    <2>5. ASSUME NEW w \in Workers, Ack(w) \/ Nack(w) \/ Crash(w)
          PROVE  FALSE
      BY <1>1, <1>6, <2>5 DEF Ack, Nack, Crash, Release
    <2>6. ASSUME NEW w \in Workers,
                 Send(w) \/ Fail(w) \/ PublishRefused(w) \/ DeadlinePasses(w)
          PROVE  FALSE
      BY <1>1, <1>6, <2>6 DEF Send, Fail, BodyFails, DatabaseFails, PublishRefused,
                              PublishRaises, DeadlinePasses, Goto, envelopeVars
    <2> QED  BY <2>1, <2>2, <2>3, <2>4, <2>5, <2>6 DEF Next, Step
  <1> QED  BY <1>2, <1>3, <1>4, <1>5, <1>6

\* At every moment: commits precede publications, and checkpoints precede the
\* rows that build on them.
THEOREM InductiveHolds == Spec => []Inductive
  <1>1. Inductive /\ [Next]_vars => Inductive'
    BY TypeIsPreserved, MessagesNameRowsIsPreserved,
       HandlerProgressIsPreserved, CheckpointOrderIsPreserved DEF Inductive
  <1> QED  BY <1>1, InductiveHoldsInitially, PTL DEF Spec

\* Commit-before-publish holds under every fault.
THEOREM CommitBeforePublish == Spec => []MessagesNameRows
  BY InductiveHolds, PTL DEF Inductive

\* Each step checkpoints its output before anything builds on it.
THEOREM Checkpointed == Spec => []CheckpointOrder
  BY InductiveHolds, PTL DEF Inductive

(***************************************************************************)
(* Nothing is abandoned.                                                   *)
(***************************************************************************)
\* A delivery's outcome is settled: it wrote one, or found one to be there.
Settles(w) ==
    \/ Complete(w)
    \/ FailTask(w)
    \/ ReadTask(w) /\ Skippable(task[job[w]])

\* Deliveries do not disappear: only a handler that settles m's outcome takes
\* one away.
LEMMA DeliveriesAreKept ==
    ASSUME Inductive, [Next]_vars, NEW m \in Messages, Outstanding(m)
    PROVE  \/ Outstanding(m)'
           \/ \E w \in Workers : job[w] = m /\ Handle(w) /\ Settles(w)
  <1> USE DEF Inductive, TypeOK, EnvelopeTypeOK
  <1>1. CASE queue[m] > 0
    <2> SUFFICES ASSUME ~(queue'[m] > 0)
                 PROVE  \E w \in Workers :
                           job'[w] = m /\ phase'[w] = "starting"
      BY DEF Outstanding
    <2>1. ASSUME NEW w \in Workers, NEW n \in Messages, Deliver(w, n)
          PROVE  job'[w] = m /\ phase'[w] = "starting"
      <3>1. n = m
        BY <1>1, <2>1 DEF Deliver
      <3> QED  BY <2>1, <3>1 DEF Deliver, Receive, Goto
    <2>2. ASSUME NEW w \in Workers, Send(w)
          PROVE  FALSE
      BY <1>1, <2>2 DEF Send
    <2>3. ASSUME NEW w \in Workers, Nack(w) \/ Crash(w) \/ DeadlinePasses(w)
          PROVE  FALSE
      <3>1. \/ queue' = queue
            \/ /\ job[w] \in Messages
               /\ queue' = [queue EXCEPT ![job[w]] = @ + 1]
        BY <2>3 DEF Nack, Crash, DeadlinePasses
      <3> QED  BY <1>1, <3>1
    <2>4. ASSUME NEW w \in Workers,
                 \/ Handle(w) \/ Publish(w) \/ Ack(w) \/ Fail(w)
                 \/ PublishRefused(w)
          PROVE  FALSE
      BY <1>1, <2>4 DEF Handle, Publish, Ack, Fail, PublishRefused
    <2>5. CASE UNCHANGED vars
      BY <1>1, <2>5 DEF vars
    <2> QED  BY <2>1, <2>2, <2>3, <2>4, <2>5 DEF Next, Step
  <1>2. ASSUME NEW v \in Workers, job[v] = m, phase[v] # "returning"
        PROVE  \/ Outstanding(m)'
               \/ \E w \in Workers : job[w] = m /\ Handle(w) /\ Settles(w)
    <2>0. phase[v] # "idle"
      BY <1>2, NoMessageAssumption
    <2>1. CASE job'[v] = m /\ phase'[v] # "returning"
      BY <2>1 DEF Outstanding
    <2>2. ASSUME NEW w \in Workers, NEW n \in Messages, Deliver(w, n)
          PROVE  job'[v] = m /\ phase'[v] # "returning"
      BY <1>2, <2>0, <2>2 DEF Deliver, Receive, Goto
    <2>3. ASSUME NEW w \in Workers, Handle(w)
          PROVE  \/ job'[v] = m /\ phase'[v] # "returning"
                 \/ job[v] = m /\ Handle(v) /\ Settles(v)
      BY <1>2, <2>3
      DEF Handle, Advance, ReadTask, Claim, BodyRejects, BodyReturns, HandOff,
          Complete, FailTask, Goto, AfterBody, Settles
    <2>4. ASSUME NEW w \in Workers,
                 \/ Publish(w) \/ Send(w) \/ Fail(w) \/ PublishRefused(w)
                 \/ DeadlinePasses(w)
          PROVE  job'[v] = m /\ phase'[v] # "returning"
      BY <1>2, <2>4 DEF Publish, Published, Send, Fail, BodyFails, DatabaseFails,
                        PublishRefused, PublishRaises, DeadlinePasses, Goto,
                        envelopeVars
    <2>5. ASSUME NEW w \in Workers, w # v, Ack(w) \/ Nack(w) \/ Crash(w)
          PROVE  job'[v] = m /\ phase'[v] # "returning"
      BY <1>2, <2>5 DEF Ack, Nack, Crash, Release
    <2>6. ASSUME Ack(v) \/ Nack(v) \/ Crash(v)
          PROVE  Outstanding(m)'
      <3>1. queue' = [queue EXCEPT ![m] = @ + 1]
        BY <1>2, <2>0, <2>6 DEF Ack, Nack, Crash
      <3>2. queue'[m] > 0
        BY <3>1
      <3> QED  BY <3>2 DEF Outstanding
    <2>7. CASE UNCHANGED vars
      BY <1>2, <2>7 DEF vars, Outstanding
    <2> QED  BY <1>2, <2>1, <2>2, <2>3, <2>4, <2>5, <2>6, <2>7 DEF Next, Step
  <1> QED  BY <1>1, <1>2 DEF Outstanding

\* A row whose outcome was settled is neither pending nor processing.
LEMMA SettledStatus ==
    ASSUME Inductive, NEW w \in Workers, Handle(w), Settles(w)
    PROVE  task'[job[w]] \notin {"pending", "processing"}
  <1>1. job[w] \in Messages
    BY DEF Inductive, TypeOK, EnvelopeTypeOK, Settles, Complete, FailTask,
           ReadTask
  <1> QED  BY <1>1 DEF Inductive, TypeOK, EnvelopeTypeOK, Settles, Complete,
                       FailTask, ReadTask, Skippable

\* Which step gives a row the status pending or processing.
LEMMA StatusOrigin ==
    ASSUME Inductive, [Next]_vars, NEW m \in Messages, task'[m] # task[m]
    PROVE  /\ task'[m] = "processing" =>
                  \E w \in Workers : job[w] = m /\ Claim(w)
           /\ task'[m] = "pending" =>
                  \E w \in Workers :
                     /\ Successor(job[w]) = m
                     /\ HandOff(w)
                     /\ phase'[w] = "publishing"
                     /\ job' = job
  <1> USE DEF Inductive, TypeOK, EnvelopeTypeOK
  <1>1. PICK w \in Workers : Claim(w) \/ HandOff(w) \/ Complete(w) \/ FailTask(w)
    <2>1. ~UNCHANGED vars
      BY DEF vars
    <2>2. PICK w \in Workers : Handle(w)
      BY <2>1, QuietSteps DEF Next, Step, QuietStep
    <2> QED  BY <2>2 DEF Handle, Advance, ReadTask, BodyRejects, BodyReturns
  <1>2. CASE Claim(w)
    <2>1. job[w] \in Messages
      BY <1>2 DEF Claim
    <2> QED  BY <1>2, <2>1 DEF Claim
  <1>3. CASE HandOff(w)
    <2>1. task' = [task EXCEPT ![Successor(job[w])] = "pending"]
          /\ phase'[w] = "publishing" /\ job' = job
      BY <1>3 DEF HandOff, Goto
    <2> QED  BY <1>3, <2>1, HandOffEffect
  <1>4. CASE Complete(w) \/ FailTask(w)
    BY <1>4 DEF Complete, FailTask
  <1> QED  BY <1>1, <1>2, <1>3, <1>4

\* No crash, duplicate, nack or refused publication leaves a row in processing
\* that nobody will write again.
THEOREM NothingAbandoned == Spec => []NoAbandonedProcessing
  <1>1. Init => NoAbandonedProcessing
    BY DEF Init, NoAbandonedProcessing
  <1>2. ASSUME Inductive, NoAbandonedProcessing, [Next]_vars
        PROVE  NoAbandonedProcessing'
    <2> SUFFICES ASSUME NEW m \in Messages, task'[m] = "processing"
                 PROVE  Outstanding(m)'
      BY DEF NoAbandonedProcessing
    <2>1. CASE task[m] = "processing"
      BY <1>2, <2>1, DeliveriesAreKept, SettledStatus
      DEF NoAbandonedProcessing
    <2>2. CASE task[m] # "processing"
      <3>1. PICK w \in Workers : job[w] = m /\ Claim(w)
        BY <1>2, <2>2, StatusOrigin
      <3>2. job'[w] = m /\ phase'[w] # "returning"
        BY <1>2, <3>1 DEF Claim, Goto, Inductive, TypeOK, EnvelopeTypeOK
      <3> QED  BY <3>2 DEF Outstanding
    <2> QED  BY <2>1, <2>2
  <1> QED  BY <1>1, <1>2, InductiveHolds, PTL DEF Spec

\* No publication has been lost so far.
NothingLost == faults["loss"] = 0 /\ faults["refusal"] = 0

LEMMA LossesAreRemembered ==
    ASSUME TypeOK, [Next]_vars, NothingLost'
    PROVE  NothingLost
  <1> USE DEF TypeOK, FaultKinds, NothingLost
  <1>1. ASSUME NEW k \in FaultKinds, NEW bound, Fault(k, bound)
        PROVE  NothingLost
    BY <1>1 DEF Fault
  <1>2. ASSUME NEW w \in Workers,
               Fail(w) \/ PublishRefused(w) \/ DeadlinePasses(w) \/ Crash(w)
        PROVE  NothingLost
    BY <1>1, <1>2 DEF Fail, PublishRefused, DeadlinePasses, Crash
  <1>3. ASSUME NEW w \in Workers, Step(w) \/ Send(w)
        PROVE  UNCHANGED faults
    BY <1>3 DEF Step, Deliver, Handle, Publish, Ack, Nack, Send
  <1>4. CASE UNCHANGED vars
    BY <1>4 DEF vars
  <1> QED  BY <1>2, <1>3, <1>4 DEF Next

\* A publication a process owes is made, unless it is lost.
LEMMA DebtsAreKept ==
    ASSUME Inductive, [Next]_vars, NothingLost', NEW m \in Messages, Owed(m)
    PROVE  Owed(m)' \/ Outstanding(m)'
  <1> USE DEF Inductive, TypeOK, EnvelopeTypeOK
  <1>1. PICK v \in Workers :
           \/ batch[v][m] > 0
           \/ phase[v] = "publishing" /\ Successor(job[v]) = m
    BY DEF Owed
  <1>2. ASSUME Crash(v)
        PROVE  FALSE
    <2>1. OwesMessage(v)
      BY <1>1 DEF OwesMessage, NothingBatched
    <2> QED  BY <1>2, <2>1 DEF Crash, Fault, FaultKinds, NothingLost
  <1>3. ASSUME PublishRefused(v)
        PROVE  FALSE
    BY <1>3 DEF PublishRefused, Fault, FaultKinds, NothingLost
  <1>4. CASE batch[v][m] > 0
    <2>1. CASE Send(v)
      <3>1. queue'[m] = queue[m] + batch[v][m]
        BY <2>1 DEF Send
      <3>2. queue'[m] > 0
        BY <1>4, <3>1
      <3> QED  BY <3>2 DEF Outstanding
    <2>2. ASSUME ~Send(v)
          PROVE  batch'[v][m] > 0
      <3>1. ASSUME NEW w \in Workers, Send(w) \/ Crash(w)
            PROVE  batch'[v][m] > 0
        BY <1>2, <1>4, <2>2, <3>1 DEF Send, Crash
      <3>2. ASSUME NEW w \in Workers, Publish(w)
            PROVE  batch'[v][m] > 0
        <4>1. Successor(job[w]) \in Messages
          BY <3>2, SuccessorIsMessage DEF Publish, Published
        <4>2. batch'[v][m] \in {batch[v][m], batch[v][m] + 1}
          BY <3>2, <4>1 DEF Publish
        <4> QED  BY <1>4, <4>2
      <3>3. ASSUME NEW w \in Workers,
                   \/ \E n \in Messages : Deliver(w, n)
                   \/ Handle(w) \/ Ack(w) \/ Nack(w) \/ Fail(w)
                   \/ PublishRefused(w) \/ DeadlinePasses(w)
            PROVE  batch'[v][m] > 0
        BY <1>4, <3>3 DEF Deliver, Handle, Ack, Nack, Fail, PublishRefused,
                          DeadlinePasses
      <3>4. CASE UNCHANGED vars
        BY <1>4, <3>4 DEF vars
      <3> QED  BY <3>1, <3>2, <3>3, <3>4 DEF Next, Step
    <2> QED  BY <2>1, <2>2 DEF Owed
  <1>5. CASE phase[v] = "publishing" /\ Successor(job[v]) = m
    <2>1. CASE Publish(v)
      <3>1. batch'[v][m] > 0
        BY <1>5, <2>1 DEF Publish, Published
      <3> QED  BY <3>1 DEF Owed
    <2>2. ASSUME ~Publish(v)
          PROVE  phase'[v] = "publishing" /\ job'[v] = job[v]
      <3>1. ASSUME NEW w \in Workers, Handle(w)
            PROVE  phase'[v] = "publishing" /\ job'[v] = job[v]
        BY <1>5, <3>1
        DEF Handle, Advance, ReadTask, Claim, BodyRejects, BodyReturns,
            HandOff, Complete, FailTask, Goto
      <3>2. ASSUME NEW w \in Workers, Publish(w) \/ PublishRefused(w)
            PROVE  phase'[v] = "publishing" /\ job'[v] = job[v]
        BY <1>3, <1>5, <2>2, <3>2
        DEF Publish, Published, PublishRefused, PublishRaises, Goto
      <3>3. ASSUME NEW w \in Workers, NEW n \in Messages, Deliver(w, n)
            PROVE  phase'[v] = "publishing" /\ job'[v] = job[v]
        BY <1>5, <3>3 DEF Deliver, Receive, Goto
      <3>4. ASSUME NEW w \in Workers,
                   \/ Ack(w) \/ Nack(w) \/ Crash(w) \/ Send(w)
                   \/ DeadlinePasses(w) \/ Fail(w)
            PROVE  phase'[v] = "publishing" /\ job'[v] = job[v]
        BY <1>2, <1>5, <3>4
        DEF Ack, Nack, Crash, Release, Send, DeadlinePasses, Fail, BodyFails, DatabaseFails,
            Goto, envelopeVars
      <3>5. CASE UNCHANGED vars
        BY <1>5, <3>5 DEF vars
      <3> QED  BY <3>1, <3>2, <3>3, <3>4, <3>5 DEF Next, Step
    <2>3. CASE phase'[v] = "publishing" /\ job'[v] = job[v]
      BY <1>5, <2>3 DEF Owed
    <2> QED  BY <2>1, <2>2, <2>3
  <1> QED  BY <1>1, <1>4, <1>5

\* While no publication is lost, every pending row has a message under way.
THEOREM NothingStranded == Spec => []NoStrandedPending
  <1>1. Init => NoStrandedPending
    BY DEF Init, NoStrandedPending, Outstanding
  <1>2. ASSUME Inductive, NoStrandedPending, [Next]_vars
        PROVE  NoStrandedPending'
    <2> SUFFICES ASSUME NothingLost', NEW m \in Messages, task'[m] = "pending"
                 PROVE  Outstanding(m)' \/ Owed(m)'
      BY DEF NoStrandedPending, NothingLost
    <2>1. CASE task[m] = "pending"
      <3>1. Outstanding(m) \/ Owed(m)
        BY <1>2, <2>1, LossesAreRemembered
        DEF NoStrandedPending, NothingLost, Inductive
      <3> QED  BY <1>2, <3>1, DeliveriesAreKept, SettledStatus, DebtsAreKept
    <2>2. CASE task[m] # "pending"
      BY <1>2, <2>2, StatusOrigin DEF Owed
    <2> QED  BY <2>1, <2>2
  <1> QED  BY <1>1, <1>2, InductiveHolds, PTL DEF Spec

(***************************************************************************)
(* Refinement.                                                             *)
(***************************************************************************)
\* The outputs the backend makes durable are the abstract pipeline's
\* checkpoints: in chain order, one at a time, never lost.
THEOREM CheckpointsAreImplemented == Spec => ImplementsCheckpoints
  <1>1. Init => Abstract!Init
    BY DEF Init, Abstract!Init
  <1>2. ASSUME Inductive, [Next]_vars
        PROVE  [Abstract!Next]_produced
    <2>1. ASSUME NEW w \in Workers, Handle(w), produced' # produced
          PROVE  Abstract!Next
      <3>1. EnvelopeTypeOK /\ Advance(w)
        BY <1>2, <2>1 DEF Inductive, TypeOK, Handle
      <3>2. task[job[w]] # "none"
        BY <1>2, <3>1, AdvanceKeepsTypes DEF Inductive, MessagesNameRows
      <3>3. /\ job[w] \in Messages
            /\ produced' = produced \union {job[w]}
            /\ job[w].step > 1 => Predecessor(job[w]) \in produced
        BY <1>2, <2>1, <3>1, <3>2, AdvanceCheckpoints DEF Inductive
      <3>4. /\ job[w].doc \in Docs
            /\ job[w].step \in 1 .. NumSteps
            /\ job[w] = [doc |-> job[w].doc, step |-> job[w].step]
        BY <3>3 DEF Messages, Steps
      <3>5. Abstract!Reach(job[w].doc, job[w].step)
        BY <3>3, <3>4 DEF Abstract!Reach, Predecessor
      <3> QED  BY <3>4, <3>5 DEF Abstract!Next
    <2>2. CASE UNCHANGED vars
      BY <2>2 DEF vars
    <2> QED  BY <1>2, <2>1, <2>2, QuietSteps DEF Next, Step, QuietStep
  <1> QED  BY <1>1, <1>2, InductiveHolds, PTL
           DEF Spec, ImplementsCheckpoints, Abstract!Spec

(***************************************************************************)
(* Chunk and embed: the inductive invariant.                               *)
(***************************************************************************)
\* The phases in which a body has uncommitted work.
Busy == {"working", "inserting", "resetting", "completing"}

\* Chunk run w has deleted the old rows and inserted new ones, uncommitted.
Wrote(w) == body[w].at = "written"

\* Documents over which two chunk runs have not met, or had a summary to change.
Apart(d) == d \notin raced \intersect repeats

\* A body gets no further than its step's, and has finished where the envelope
\* goes on from it.
BodiesAgree ==
    \A w \in Workers :
        /\ body[w].at = "start" => body[w] = Untouched
        /\ Wrote(w) => phase[w] \in {"working", "inserting", "resetting"} /\ ~IsLast(job[w])
        /\ phase[w] \in {"inserting", "resetting"} => Wrote(w)
        /\ phase[w] = "completing" /\ IsLast(job[w]) => body[w].at = "read"
        /\ body[w].locks => Wrote(w)
        /\ Wrote(w) /\ job[w].doc \notin repeats => body[w].locks

\* Of the chunk runs of a document with an open delete, no two are apart, and
\* one that is has deleted all there is.
OneWriter ==
    \A w \in Workers : Wrote(w) /\ Apart(job[w].doc) =>
        /\ body[w].deletes = chunks[job[w].doc]
        /\ \A v \in Workers : Wrote(v) /\ job[v].doc = job[w].doc => v = w

OneSet == \A d \in Docs : Apart(d) => \A x, y \in chunks[d] : x = y

\* An embed run that was not overtaken has read the chunks there are.
SeesAll ==
    \A w \in Workers :
        body[w].at = "read" /\ IsLast(job[w]) /\ job[w].doc \notin overtaken =>
            body[w].seen = chunks[job[w].doc] /\ body[w].seen # {}

StoreInductive ==
    /\ TypeOK
    /\ StoreTypeOK
    /\ BodiesAgree
    /\ OneWriter
    /\ OneSet
    /\ SeesAll
    /\ CompletedMeansEmbedded

(***************************************************************************)
(* The pipeline around the bodies.                                         *)
(***************************************************************************)
\* Where a step of the envelope can leave a handler that has work uncommitted.
MovesOn(w) ==
    /\ job'[w] = job[w]
    /\ \/ phase'[w] = phase[w]
       \/ phase[w] = "claiming" /\ phase'[w] = "working"
       \/ phase[w] = "working" /\ phase'[w] \in {"inserting", "resetting"} /\ ~IsLast(job[w])
       \/ phase[w] = "working" /\ phase'[w] = "completing" /\ IsLast(job[w])
       \/ phase[w] = "publishing" /\ phase'[w] = "completing" /\ ~IsLast(job[w])

\* What a step does to the rows and the handlers, and where it writes.
Around(w) ==
    /\ \A v \in Workers \ {w} : phase'[v] = phase[v] /\ job'[v] = job[v]
    /\ phase'[w] \in Busy => MovesOn(w)
    /\ HandsOff(w) => task' = [task EXCEPT ![Successor(job[w])] = "pending"]
    /\ Completes(w) => task' = [task EXCEPT ![job[w]] = "completed"]
    /\ ~Completes(w) =>
          \A m \in Messages : task'[m] = "completed" => task[m] = "completed"

LEMMA AdvanceAround == ASSUME TypeOK, NEW w \in Workers, Advance(w) PROVE Around(w)
  <1> USE DEF TypeOK, EnvelopeTypeOK, Goto, Around, MovesOn, Busy, HandsOff, Completes
  <1>1. CASE ReadTask(w)
    BY <1>1 DEF ReadTask
  <1>2. CASE Claim(w)
    BY <1>2 DEF Claim
  <1>3. CASE BodyRejects(w)
    BY <1>3 DEF BodyRejects
  <1>4. CASE BodyReturns(w)
    BY <1>4 DEF BodyReturns, AfterBody
  <1>5. CASE HandOff(w)
    <2>1. Successor(job[w]) \in Messages
      BY <1>5, HandOffEffect
    <2> QED  BY <1>5, <2>1 DEF HandOff
  <1>6. CASE Complete(w)
    BY <1>6 DEF Complete
  <1>7. CASE FailTask(w)
    BY <1>7 DEF FailTask
  <1> QED  BY <1>1, <1>2, <1>3, <1>4, <1>5, <1>6, <1>7 DEF Advance

LEMMA PipelineAround == ASSUME TypeOK, NEW w \in Workers, Pipeline(w) PROVE Around(w)
  <1>1. CASE Handle(w)
    BY <1>1, AdvanceAround DEF Handle
  <1>2. CASE Send(w) \/ DeadlinePasses(w)
    BY <1>2
    DEF Send, DeadlinePasses, envelopeVars, Around, MovesOn, HandsOff, Completes
  <1>3. ASSUME NEW m \in Messages, Deliver(w, m)
        PROVE  Around(w)
    BY <1>3
    DEF Deliver, Receive, Goto, TypeOK, EnvelopeTypeOK, Around, MovesOn, Busy, HandsOff, Completes
  <1>4. CASE Publish(w) \/ PublishRefused(w) \/ Fail(w)
    BY <1>4
    DEF Publish, PublishRefused, Fail, Published, PublishRaises, BodyFails, DatabaseFails, Goto, TypeOK,
        EnvelopeTypeOK, Around, MovesOn, Busy, HandsOff, Completes
  <1>5. CASE Ack(w) \/ Nack(w) \/ Crash(w)
    BY <1>5
    DEF Ack, Nack, Crash, Release, TypeOK, EnvelopeTypeOK, Around, MovesOn, Busy, HandsOff,
        Completes
  <1> QED  BY <1>1, <1>2, <1>3, <1>4, <1>5 DEF Pipeline, Step

\* The bodies' own steps leave the types of the pipeline as they are, and so do
\* the envelope's.
LEMMA PipelineTypes == ASSUME TypeOK, [StoreNext]_allVars PROVE TypeOK'
  <1>1. ASSUME NEW w \in Workers, Pipeline(w)
        PROVE  TypeOK'
    BY <1>1, TypeIsPreserved DEF Pipeline, Next
  <1>2. ASSUME NEW w \in Workers, FindNoChunks(w)
        PROVE  TypeOK'
    BY <1>2 DEF FindNoChunks, Inside, Goto, TypeOK, EnvelopeTypeOK, Phases
  <1>3. CASE UNCHANGED vars
    BY <1>3, TypeIsPreserved
  <1> QED
    BY <1>1, <1>2, <1>3 DEF StoreNext, ReadDocument, WriteChunks, ReadChunks, allVars

(***************************************************************************)
(* The bodies' own steps.                                                  *)
(***************************************************************************)
LEMMA UntouchedIsBody == Untouched \in Bodies /\ Untouched.at = "start"
  BY DEF Untouched, Bodies

LEMMA ReadDocumentKeeps ==
    ASSUME StoreInductive, TypeOK', NEW w \in Workers, ReadDocument(w)
    PROVE  StoreInductive'
  <1> USE DEF StoreInductive
  <1>1. /\ phase[w] = "working" /\ body[w].at = "start" /\ ~IsLast(job[w])
        /\ UNCHANGED <<vars, storeVars>>
    BY DEF ReadDocument, Inside
  <1>2. /\ body' \in [Workers -> Bodies]
        /\ body'[w].at = "read" /\ body'[w].locks = body[w].locks
        /\ \A v \in Workers \ {w} : body'[v] = body[v]
    <2>1. body \in [Workers -> Bodies] /\ (job[w].doc \in summarised) \in BOOLEAN
      BY DEF StoreTypeOK
    <2> QED  BY <2>1 DEF ReadDocument, Bodies
  <1>3. StoreTypeOK'
    BY <1>1, <1>2 DEF StoreTypeOK, storeVars, texts, vars
  <1>4. BodiesAgree'
    BY <1>1, <1>2 DEF BodiesAgree, Wrote, vars, storeVars, texts
  <1>5. OneWriter' /\ OneSet'
    BY <1>1, <1>2 DEF OneWriter, OneSet, Wrote, Apart, vars, storeVars, texts
  <1>6. SeesAll'
    BY <1>1, <1>2 DEF SeesAll, vars, storeVars, texts
  <1>7. CompletedMeansEmbedded'
    BY <1>1 DEF CompletedMeansEmbedded, Embedded, vars, storeVars, texts
  <1> QED  BY <1>3, <1>4, <1>5, <1>6, <1>7

LEMMA ReadChunksKeeps ==
    ASSUME StoreInductive, TypeOK', NEW w \in Workers, ReadChunks(w)
    PROVE  StoreInductive'
  <1> USE DEF StoreInductive
  <1>1. /\ phase[w] = "working" /\ body[w].at = "start" /\ IsLast(job[w])
        /\ chunks[job[w].doc] # {} /\ job[w] \in Messages
        /\ UNCHANGED <<vars, storeVars>>
    BY DEF ReadChunks, Inside, TypeOK, EnvelopeTypeOK
  <1>2. /\ body' \in [Workers -> Bodies]
        /\ body'[w].at = "read" /\ body'[w].locks = body[w].locks
        /\ body'[w].seen = chunks[job[w].doc]
        /\ \A v \in Workers \ {w} : body'[v] = body[v]
    <2>1. chunks[job[w].doc] \in SUBSET Nat
      BY <1>1 DEF StoreTypeOK, Messages
    <2>2. body \in [Workers -> Bodies]
      BY DEF StoreTypeOK
    <2> QED  BY <2>1, <2>2 DEF ReadChunks, Bodies
  <1>3. StoreTypeOK'
    BY <1>1, <1>2 DEF StoreTypeOK, storeVars, texts, vars
  <1>4. BodiesAgree'
    BY <1>1, <1>2 DEF BodiesAgree, Wrote, vars, storeVars, texts
  <1>5. OneWriter' /\ OneSet'
    BY <1>1, <1>2 DEF OneWriter, OneSet, Wrote, Apart, vars, storeVars, texts
  <1>6. SeesAll'
    BY <1>1, <1>2 DEF SeesAll, vars, storeVars, texts
  <1>7. CompletedMeansEmbedded'
    BY <1>1 DEF CompletedMeansEmbedded, Embedded, vars, storeVars, texts
  <1> QED  BY <1>3, <1>4, <1>5, <1>6, <1>7

LEMMA FindNoChunksKeeps ==
    ASSUME StoreInductive, TypeOK', NEW w \in Workers, FindNoChunks(w)
    PROVE  StoreInductive'
  <1> USE DEF StoreInductive
  <1>1. /\ body[w] = Untouched
        /\ UNCHANGED <<task, job, storeVars, body>>
        /\ phase'[w] = "failing" /\ \A v \in Workers \ {w} : phase'[v] = phase[v]
    BY DEF FindNoChunks, Inside, Goto, TypeOK, EnvelopeTypeOK, BodiesAgree
  <1>2. StoreTypeOK'
    BY <1>1 DEF StoreTypeOK, storeVars, texts
  <1>3. BodiesAgree'
    BY <1>1 DEF BodiesAgree, Wrote, Untouched, storeVars, texts
  <1>4. OneWriter' /\ OneSet' /\ SeesAll'
    BY <1>1 DEF OneWriter, OneSet, SeesAll, Wrote, Apart, storeVars, texts
  <1>5. CompletedMeansEmbedded'
    BY <1>1 DEF CompletedMeansEmbedded, Embedded, storeVars, texts
  <1> QED  BY <1>2, <1>3, <1>4, <1>5

\* Two chunk runs of one document are runs of one message.
LEMMA SameChunkJob ==
    ASSUME TypeOK, NEW v \in Workers, NEW w \in Workers,
           job[v] # NoMessage, job[w] # NoMessage,
           ~IsLast(job[v]), ~IsLast(job[w]), job[v].doc = job[w].doc
    PROVE  job[v] = job[w] /\ job[w].step = 1
  <1>1. job[v] \in Messages /\ job[w] \in Messages
    BY DEF TypeOK, EnvelopeTypeOK
  <1>2. job[v].step = 1 /\ job[w].step = 1
    BY <1>1, TwoSteps DEF Messages, Steps, IsLast
  <1> QED  BY <1>1, <1>2 DEF Messages

\* The row lock, or the race that is noted, keeps a second writer from joining
\* one that is apart.
LEMMA WriteChunksKeeps ==
    ASSUME StoreInductive, TypeOK', NEW w \in Workers, WriteChunks(w)
    PROVE  StoreInductive'
  <1> USE DEF StoreInductive
  <1> DEFINE d == job[w].doc
  <1>1. /\ phase[w] = "working" /\ body[w].at = "read" /\ ~IsLast(job[w])
        /\ job[w] \in Messages /\ d \in Docs
        /\ UNCHANGED <<vars, texts, summarised, made, chunks, embedded, overtaken>>
    BY DEF WriteChunks, Inside, TypeOK, EnvelopeTypeOK, Messages
  <1>2. PICK updates \in {UpdatesSummary(w), TRUE} :
           /\ updates => ~Locked(d, w)
           /\ body' = [body EXCEPT ![w].at = "written", ![w].locks = updates,
                                   ![w].deletes = chunks[d]]
    BY DEF WriteChunks
  <1>3. UpdatesSummary(w) \in BOOLEAN /\ (d \notin repeats => updates)
    BY <1>2 DEF UpdatesSummary
  <1>4. chunks[d] \in SUBSET Nat
    BY <1>1 DEF StoreTypeOK
  <1>5. /\ body' \in [Workers -> Bodies]
        /\ body'[w].at = "written" /\ body'[w].locks = updates
        /\ body'[w].deletes = chunks[d]
        /\ \A v \in Workers \ {w} : body'[v] = body[v]
    <2>1. body \in [Workers -> Bodies] /\ updates \in BOOLEAN
      BY <1>2, <1>3 DEF StoreTypeOK
    <2> QED  BY <1>2, <1>4, <2>1 DEF Bodies
  <1>6. /\ raced \subseteq raced' /\ raced' \subseteq raced \union {d}
        /\ \A v \in Workers \ {w} : job[v] = job[w] /\ Wrote(v) => d \in raced'
    BY DEF WriteChunks, Wrote
  <1>7. StoreTypeOK'
    BY <1>1, <1>5, <1>6 DEF StoreTypeOK, texts, vars
  <1>8. BodiesAgree'
    BY <1>1, <1>3, <1>5 DEF BodiesAgree, Wrote, vars, texts
  <1>9. \A v \in Workers \ {w} : Wrote(v) /\ job[v].doc = d => ~Apart(d)'
    <2> SUFFICES ASSUME NEW v \in Workers \ {w}, Wrote(v), job[v].doc = d, Apart(d)'
                 PROVE  FALSE
      OBVIOUS
    <2>1. ~IsLast(job[v]) /\ job[v] # NoMessage /\ job[w] # NoMessage
      BY <1>1 DEF BodiesAgree, TypeOK, EnvelopeTypeOK
    <2>2. d \in raced'
      BY <1>1, <1>6, <2>1, SameChunkJob
    <2>3. d \notin repeats
      BY <1>1, <2>2 DEF Apart, texts, vars
    <2>4. body[v].locks
      BY <2>3 DEF BodiesAgree
    <2> QED  BY <1>2, <1>3, <2>3, <2>4 DEF Locked
  <1>10. OneWriter'
    <2> SUFFICES ASSUME NEW u \in Workers, Wrote(u)', Apart(job[u].doc)'
                 PROVE  /\ body'[u].deletes = chunks[job[u].doc]
                        /\ \A v \in Workers : Wrote(v)' /\ job[v].doc = job[u].doc => v = u
      BY <1>1 DEF OneWriter, vars
    <2>1. CASE u = w
      BY <1>1, <1>5, <1>9, <2>1 DEF Wrote, vars
    <2>2. CASE u # w
      <3>1. Wrote(u) /\ Apart(job[u].doc) /\ job[u].doc # d
        BY <1>1, <1>5, <1>6, <1>9, <2>2 DEF Wrote, Apart, vars, texts
      <3> QED  BY <1>1, <1>5, <2>2, <3>1 DEF OneWriter, Wrote, vars
    <2> QED  BY <2>1, <2>2
  <1>11. OneSet'
    BY <1>1, <1>6 DEF OneSet, Apart, texts
  <1>12. SeesAll'
    BY <1>1, <1>5 DEF SeesAll, vars
  <1>13. CompletedMeansEmbedded'
    BY <1>1 DEF CompletedMeansEmbedded, Embedded, vars
  <1> QED  BY <1>7, <1>8, <1>10, <1>11, <1>12, <1>13

(***************************************************************************)
(* The envelope's steps, and the commits it makes for the bodies.          *)
(***************************************************************************)
EmbedRow(d) == [doc |-> d, step |-> 2]

LEMMA EmbedRowIsMessage == \A d \in Docs : EmbedRow(d) \in Messages
  BY TwoSteps DEF Messages, Steps, EmbedRow

LEMMA EmbedRowIsLast ==
    ASSUME NEW m \in Messages
    PROVE  /\ IsLast(m) => m = EmbedRow(m.doc)
           /\ ~IsLast(m) => Successor(m) = EmbedRow(m.doc) /\ \A d \in Docs : m # EmbedRow(d)
           /\ m.doc \in Docs
  <1>1. m.doc \in Docs /\ m.step \in 1 .. 2 /\ m = [doc |-> m.doc, step |-> m.step]
    BY TwoSteps DEF Messages, Steps
  <1>2. \A d \in Docs : EmbedRow(d) \in Messages /\ EmbedRow(d).step = 2
    BY TwoSteps DEF Messages, Steps, EmbedRow
  <1>3. IsLast(m) <=> m.step = 2
    BY TwoSteps DEF IsLast
  <1>4. CASE m.step = 2
    BY <1>1, <1>2, <1>3, <1>4 DEF EmbedRow
  <1>5. CASE m.step = 1
    BY <1>1, <1>2, <1>3, <1>5 DEF EmbedRow, Successor
  <1> QED  BY <1>1, <1>4, <1>5

\* A handler that leaves its body's phases has nothing uncommitted; the others'
\* bodies stand.
LEMMA PipelineBodies ==
    ASSUME StoreInductive, TypeOK', NEW w \in Workers, Pipeline(w)
    PROVE  /\ body' \in [Workers -> Bodies]
           /\ \A v \in Workers \ {w} : body'[v] = body[v]
           /\ body'[w] = IF phase'[w] \in Busy THEN body[w] ELSE Untouched
           /\ \A v \in Workers : body'[v].at # "start" => body'[v] = body[v] /\ job'[v] = job[v]
           /\ texts' = texts
           /\ BodiesAgree'
  <1> USE DEF StoreInductive
  <1>1. body \in [Workers -> Bodies] /\ phase \in [Workers -> Phases] /\ Around(w)
    BY PipelineAround DEF StoreTypeOK, TypeOK, EnvelopeTypeOK
  <1>2. /\ body' \in [Workers -> Bodies]
        /\ \A v \in Workers \ {w} : body'[v] = body[v]
        /\ body'[w] = IF phase'[w] \in Busy THEN body[w] ELSE Untouched
    BY <1>1, UntouchedIsBody DEF Pipeline, Busy, HandsOff
  <1>3. \A v \in Workers : body'[v].at # "start" => body'[v] = body[v] /\ job'[v] = job[v]
    BY <1>1, <1>2, UntouchedIsBody DEF Around, MovesOn
  <1>4. texts' = texts
    BY DEF Pipeline, CommitChunks, CommitEmbeddings, storeVars
  <1>5. \A v \in Workers \ {w} : phase'[v] = phase[v] /\ job'[v] = job[v]
    BY <1>1 DEF Around
  <1>6. BodiesAgree'
    <2>1. CASE phase'[w] \notin Busy
      BY <1>2, <1>4, <1>5, <2>1 DEF BodiesAgree, Wrote, Busy, Untouched, texts
    <2>2. CASE phase'[w] \in Busy
      <3>1. body'[w] = body[w] /\ MovesOn(w)
        BY <1>1, <1>2, <2>2 DEF Around
      <3>2. phase[w] \notin Busy => body[w] = Untouched
        BY DEF StoreTypeOK, Busy
      <3>3. phase[w] = "working" /\ phase'[w] \in {"inserting", "resetting", "completing"} =>
               BodyDone(w)
        BY DEF Pipeline
      <3>4. \/ phase'[w] = phase[w]
            \/ body[w] = Untouched /\ phase'[w] = "working"
            \/ phase'[w] \in {"inserting", "resetting"} /\ ~IsLast(job[w]) /\ Wrote(w)
            \/ phase'[w] = "completing" /\ IsLast(job[w]) /\ body[w].at = "read"
            \/ body[w] = Untouched /\ phase'[w] = "completing" /\ ~IsLast(job[w])
        BY <3>1, <3>2, <3>3 DEF MovesOn, Busy, BodyDone, Wrote
      <3>5. \A v \in Workers \ {w} :
               /\ Wrote(v)' = Wrote(v) /\ body'[v] = body[v] /\ phase'[v] = phase[v]
               /\ job'[v] = job[v]
        BY <1>2, <1>5 DEF Wrote
      <3>6. Wrote(w)' = Wrote(w) /\ job'[w] = job[w] /\ repeats' = repeats
        BY <1>4, <3>1 DEF Wrote, MovesOn, texts
      <3> QED  BY <3>1, <3>4, <3>5, <3>6 DEF BodiesAgree, Untouched, Wrote
    <2> QED  BY <2>1, <2>2
  <1> QED  BY <1>2, <1>3, <1>4, <1>6

\* A body that is still open after the step was so before it.
LEMMA OpenBodies ==
    ASSUME StoreInductive, TypeOK', NEW w \in Workers, Pipeline(w), NEW v \in Workers,
           body'[v].at # "start"
    PROVE  /\ Wrote(v)' = Wrote(v) /\ body'[v] = body[v] /\ job'[v] = job[v]
           /\ HandsOff(w) => v # w
  <1>1. body'[w] = IF phase'[w] \in Busy THEN body[w] ELSE Untouched
    BY PipelineBodies
  <1>2. HandsOff(w) => body'[w].at = "start"
    BY <1>1, UntouchedIsBody DEF HandsOff, Busy
  <1> QED  BY <1>2, PipelineBodies DEF Wrote

LEMMA QuietKeeps ==
    ASSUME StoreInductive, TypeOK', NEW w \in Workers, Pipeline(w),
           ~HandsOff(w), ~(Completes(w) /\ IsLast(job[w]))
    PROVE  StoreInductive'
  <1> USE DEF StoreInductive
  <1>1. UNCHANGED storeVars
    BY DEF Pipeline
  <1>2. StoreTypeOK'
    <2>1. \A v \in Workers : phase'[v] \notin Busy => body'[v] = Untouched
      <3>1. \A v \in Workers \ {w} : phase'[v] = phase[v]
        BY PipelineAround DEF Around
      <3> QED  BY <3>1, PipelineBodies DEF StoreTypeOK, Busy
    <2> QED  BY <1>1, <2>1, PipelineBodies DEF StoreTypeOK, storeVars, texts, Busy
  <1>3. OneWriter' /\ OneSet'
    <2>1. OneSet'
      BY <1>1 DEF OneSet, Apart, storeVars, texts
    <2> SUFFICES ASSUME NEW u \in Workers, Wrote(u)', Apart(job[u].doc)'
                 PROVE  /\ body'[u].deletes = chunks'[job'[u].doc]
                        /\ \A v \in Workers : Wrote(v)' /\ job'[v].doc = job'[u].doc => v = u
      BY <2>1 DEF OneWriter
    <2>2. \A v \in Workers : Wrote(v)' =>
             Wrote(v) /\ body'[v] = body[v] /\ job'[v] = job[v]
      BY OpenBodies DEF Wrote
    <2> QED  BY <1>1, <2>2 DEF OneWriter, Apart, storeVars, texts
  <1>4. SeesAll'
    BY <1>1, OpenBodies DEF SeesAll, storeVars, texts
  <1>5. CompletedMeansEmbedded'
    <2>1. \A d \in Docs : task'[EmbedRow(d)] = "completed" => task[EmbedRow(d)] = "completed"
      <3>1. CASE ~Completes(w)
        BY <3>1, PipelineAround, EmbedRowIsMessage DEF Around
      <3>2. CASE Completes(w)
        <4>1. job[w] \in Messages /\ task' = [task EXCEPT ![job[w]] = "completed"]
          BY <3>2, PipelineAround DEF Around, Completes, TypeOK, EnvelopeTypeOK
        <4> QED  BY <3>2, <4>1, EmbedRowIsLast DEF TypeOK, EnvelopeTypeOK
      <3> QED  BY <3>1, <3>2
    <2> QED
      BY <1>1, <2>1 DEF CompletedMeansEmbedded, Embedded, EmbedRow, storeVars, texts
  <1> QED  BY <1>2, <1>3, <1>4, <1>5, PipelineBodies

\* Chunking commits: the embed row goes back to pending, and an embed run that
\* had read the old chunks is overtaken.
LEMMA CommitChunksKeeps ==
    ASSUME StoreInductive, TypeOK', NEW w \in Workers, Pipeline(w), HandsOff(w)
    PROVE  StoreInductive'
  <1> USE DEF StoreInductive
  <1> DEFINE d == job[w].doc
             new == IF d \in empty THEN {} ELSE {made[d] + 1}
             kept == chunks[d] \ body[w].deletes
  <1>1. /\ job[w] \in Messages /\ d \in Docs /\ ~IsLast(job[w]) /\ Wrote(w)
        /\ CommitChunks(w)
        /\ task' = [task EXCEPT ![EmbedRow(d)] = "pending"]
    <2>1. phase[w] \in {"inserting", "resetting"} /\ phase'[w] = "publishing"
      BY DEF HandsOff
    <2>2. job[w] \in Messages /\ ~IsLast(job[w]) /\ Wrote(w)
      BY <2>1 DEF BodiesAgree, TypeOK, EnvelopeTypeOK
    <2>3. task' = [task EXCEPT ![Successor(job[w])] = "pending"]
      BY PipelineAround DEF Around
    <2>4. CommitChunks(w)
      <3>1. ~Completes(w)
        BY <2>1 DEF Completes
      <3> QED  BY <3>1 DEF Pipeline
    <2> QED  BY <2>2, <2>3, <2>4, EmbedRowIsLast
  <1>2. /\ chunks' = [chunks EXCEPT ![d] = kept \union new]
        /\ embedded' = [embedded EXCEPT ![d] = @ \intersect kept]
        /\ made' = [made EXCEPT ![d] = @ + 1]
        /\ UNCHANGED <<texts, raced>>
        /\ overtaken \subseteq overtaken' /\ overtaken' \subseteq overtaken \union {d}
        /\ Embedding(d) => d \in overtaken'
    BY <1>1 DEF CommitChunks
  <1>3. StoreTypeOK'
    <2>1. made[d] \in Nat /\ new \subseteq Nat /\ chunks[d] \in SUBSET Nat
      BY <1>1 DEF StoreTypeOK
    <2>2. /\ chunks' \in [Docs -> SUBSET Nat] /\ embedded' \in [Docs -> SUBSET Nat]
          /\ made' \in [Docs -> Nat]
      BY <1>1, <1>2, <2>1 DEF StoreTypeOK
    <2>3. \A e \in Docs : chunks'[e] \subseteq 1 .. made'[e] /\ embedded'[e] \subseteq chunks'[e]
      BY <1>1, <1>2, <2>1 DEF StoreTypeOK
    <2>4. \A v \in Workers : phase'[v] \notin Busy => body'[v] = Untouched
      <3>1. \A v \in Workers \ {w} : phase'[v] = phase[v]
        BY PipelineAround DEF Around
      <3> QED  BY <3>1, PipelineBodies DEF StoreTypeOK, Busy
    <2>5. summarised' \subseteq Docs
      BY <1>1 DEF CommitChunks, StoreTypeOK
    <2> QED
      BY <1>1, <1>2, <2>2, <2>3, <2>4, <2>5, PipelineBodies DEF StoreTypeOK, texts, Busy
  <1> HIDE DEF d
  <1>4. OneWriter'
    <2> SUFFICES ASSUME NEW u \in Workers, Wrote(u)', Apart(job[u].doc)'
                 PROVE  /\ body'[u].deletes = chunks'[job'[u].doc]
                        /\ \A v \in Workers : Wrote(v)' /\ job'[v].doc = job'[u].doc => v = u
      BY DEF OneWriter
    <2>1. \A v \in Workers : Wrote(v)' =>
             Wrote(v) /\ body'[v] = body[v] /\ job'[v] = job[v] /\ v # w
      BY OpenBodies DEF Wrote
    <2>2. Apart(job[u].doc) /\ Wrote(u) /\ u # w
      BY <1>2, <2>1 DEF Apart, texts
    <2>3. job[u].doc # job[w].doc
      BY <1>1, <2>2 DEF OneWriter
    <2>4. job[u].doc \in Docs /\ chunks'[job[u].doc] = chunks[job[u].doc]
      BY <1>1, <1>2, <2>2, <2>3, EmbedRowIsLast
      DEF d, StoreTypeOK, BodiesAgree, TypeOK, EnvelopeTypeOK
    <2> QED  BY <2>1, <2>2, <2>4 DEF OneWriter
  <1>5. OneSet'
    <2> SUFFICES ASSUME NEW e \in Docs, Apart(e)', NEW x \in chunks'[e], NEW y \in chunks'[e]
                 PROVE  x = y
      BY DEF OneSet
    <2>1. Apart(e)
      BY <1>2 DEF Apart, texts
    <2>2. CASE e = d
      <3>1. kept = {}
        BY <1>1, <2>1, <2>2 DEF OneWriter, d
      <3> QED  BY <1>1, <1>2, <2>2, <3>1 DEF StoreTypeOK
    <2>3. CASE e # d
      BY <1>1, <1>2, <2>1, <2>3 DEF OneSet, StoreTypeOK
    <2> QED  BY <2>2, <2>3
  <1>6. SeesAll'
    <2> SUFFICES ASSUME NEW u \in Workers, body'[u].at = "read", IsLast(job'[u]),
                        job'[u].doc \notin overtaken'
                 PROVE  body'[u].seen = chunks'[job'[u].doc] /\ body'[u].seen # {}
      BY DEF SeesAll
    <2>1. body'[u] = body[u] /\ job'[u] = job[u] /\ body[u].at = "read"
      BY OpenBodies
    <2>2. job[u] \in Messages
      <3>1. phase[u] # "idle" /\ u \in Workers
        BY <2>1 DEF StoreTypeOK, Untouched
      <3>2. job[u] \in Messages \union {NoMessage} /\ job[u] # NoMessage
        BY <3>1 DEF TypeOK, EnvelopeTypeOK
      <3> QED  BY <3>2
    <2>3. job[u].doc \in Docs /\ job[u] = [doc |-> job[u].doc, step |-> 2]
      BY <2>1, <2>2, EmbedRowIsLast DEF EmbedRow, IsLast
    <2>4. job[u].doc # d
      BY <1>2, <2>1, <2>3 DEF Embedding
    <2>5. chunks'[job[u].doc] = chunks[job[u].doc]
      BY <1>1, <1>2, <2>3, <2>4 DEF StoreTypeOK
    <2> QED  BY <1>2, <2>1, <2>5 DEF SeesAll, IsLast
  <1>7. CompletedMeansEmbedded'
    <2> SUFFICES ASSUME NEW e \in Docs, e \notin overtaken', task'[EmbedRow(e)] = "completed"
                 PROVE  chunks'[e] # {} /\ embedded'[e] = chunks'[e]
      BY DEF CompletedMeansEmbedded, Embedded, EmbedRow
    <2>1. e # d /\ task[EmbedRow(e)] = "completed"
      BY <1>1, EmbedRowIsLast DEF TypeOK, EnvelopeTypeOK
    <2> QED
      BY <1>1, <1>2, <2>1 DEF CompletedMeansEmbedded, Embedded, EmbedRow, StoreTypeOK
  <1> QED  BY <1>3, <1>4, <1>5, <1>6, <1>7, PipelineBodies

\* Embedding commits: unless it was overtaken, it has vectors for all the chunks
\* there are.
LEMMA CommitEmbeddingsKeeps ==
    ASSUME StoreInductive, TypeOK', NEW w \in Workers, Pipeline(w),
           Completes(w), IsLast(job[w])
    PROVE  StoreInductive'
  <1> USE DEF StoreInductive
  <1> DEFINE d == job[w].doc
  <1>1. /\ job[w] \in Messages /\ job[w] = EmbedRow(d) /\ d \in Docs
        /\ body[w].at = "read"
    BY EmbedRowIsLast DEF Completes, BodiesAgree, TypeOK, EnvelopeTypeOK
  <1>2. /\ embedded' = [embedded EXCEPT ![d] = @ \union (body[w].seen \intersect chunks[d])]
        /\ UNCHANGED <<texts, summarised, made, chunks, raced, overtaken>>
    BY DEF Pipeline, HandsOff, Completes, CommitEmbeddings
  <1>3. task' = [task EXCEPT ![EmbedRow(d)] = "completed"]
    BY <1>1, PipelineAround DEF Around
  <1> HIDE DEF d
  <1>4. StoreTypeOK'
    <2>1. /\ embedded' \in [Docs -> SUBSET Nat]
          /\ \A e \in Docs : embedded'[e] \subseteq chunks[e]
      BY <1>1, <1>2 DEF StoreTypeOK
    <2>2. \A v \in Workers : phase'[v] \notin Busy => body'[v] = Untouched
      <3>1. \A v \in Workers \ {w} : phase'[v] = phase[v]
        BY PipelineAround DEF Around
      <3> QED  BY <3>1, PipelineBodies DEF StoreTypeOK, Busy
    <2> QED  BY <1>2, <2>1, <2>2, PipelineBodies DEF StoreTypeOK, texts, Busy
  <1>5. OneWriter' /\ OneSet'
    <2>1. OneSet'
      BY <1>2 DEF OneSet, Apart, texts
    <2> SUFFICES ASSUME NEW u \in Workers, Wrote(u)', Apart(job[u].doc)'
                 PROVE  /\ body'[u].deletes = chunks'[job'[u].doc]
                        /\ \A v \in Workers : Wrote(v)' /\ job'[v].doc = job'[u].doc => v = u
      BY <2>1 DEF OneWriter
    <2>2. \A v \in Workers : Wrote(v)' =>
             Wrote(v) /\ body'[v] = body[v] /\ job'[v] = job[v]
      BY OpenBodies DEF Wrote
    <2> QED  BY <1>2, <2>2 DEF OneWriter, Apart, texts
  <1>6. SeesAll'
    BY <1>2, OpenBodies DEF SeesAll, texts
  <1>7. CompletedMeansEmbedded'
    <2> SUFFICES ASSUME NEW e \in Docs, e \notin overtaken, task'[EmbedRow(e)] = "completed"
                 PROVE  chunks[e] # {} /\ embedded'[e] = chunks[e]
      BY <1>2 DEF CompletedMeansEmbedded, Embedded, EmbedRow
    <2>1. CASE e = d
      <3>1. body[w].seen = chunks[d] /\ body[w].seen # {}
        BY <1>1, <2>1 DEF SeesAll, d
      <3> QED  BY <1>1, <1>2, <2>1, <3>1 DEF StoreTypeOK
    <2>2. CASE e # d
      <3>1. task[EmbedRow(e)] = "completed"
        BY <1>1, <1>3, <2>2, EmbedRowIsMessage DEF EmbedRow, TypeOK, EnvelopeTypeOK
      <3> QED
        BY <1>1, <1>2, <2>2, <3>1 DEF CompletedMeansEmbedded, Embedded, EmbedRow, StoreTypeOK
    <2> QED  BY <2>1, <2>2
  <1> QED  BY <1>4, <1>5, <1>6, <1>7, PipelineBodies

(***************************************************************************)
(* The theorems.                                                           *)
(***************************************************************************)
LEMMA StoreInductiveStep ==
    ASSUME StoreInductive, [StoreNext]_allVars PROVE StoreInductive'
  <1>1. TypeOK'
    BY PipelineTypes DEF StoreInductive
  <1>2. CASE UNCHANGED allVars
    BY <1>1, <1>2
    DEF allVars, vars, storeVars, texts, StoreInductive, StoreTypeOK, BodiesAgree, OneWriter,
        OneSet, SeesAll, CompletedMeansEmbedded, Embedded, Wrote, Apart
  <1> QED
    BY <1>1, <1>2, ReadDocumentKeeps, WriteChunksKeeps, ReadChunksKeeps, FindNoChunksKeeps,
       QuietKeeps, CommitChunksKeeps, CommitEmbeddingsKeeps
    DEF StoreNext

LEMMA StoreInductiveHoldsInitially == ASSUME StoreInit PROVE StoreInductive
  <1>1. TypeOK /\ \A w \in Workers : phase[w] = "idle"
    BY TypeHoldsInitially DEF StoreInit, Init
  <1>2. \A w \in Workers : body[w] = Untouched
    BY DEF StoreInit
  <1>3. StoreTypeOK
    BY UntouchedIsBody DEF StoreInit, StoreTypeOK
  <1>4. CompletedMeansEmbedded
    BY EmbedRowIsMessage
    DEF StoreInit, Init, CompletedMeansEmbedded, Embedded, EmbedRow
  <1> QED
    BY <1>1, <1>2, <1>3, <1>4
    DEF StoreInit, StoreInductive, BodiesAgree, OneWriter, OneSet, SeesAll, Wrote, Untouched

\* Of every chunk and embed run, wherever it is, and of the table it writes to.
THEOREM StoreInductiveHolds == StoreSpec => []StoreInductive
  BY StoreInductiveHoldsInitially, StoreInductiveStep, PTL DEF StoreSpec

\* The table holds only chunk sets that were committed, vectors only for chunks
\* there are, and a body has work open only while its handler is at it.
THEOREM StoreTypeCorrect == StoreSpec => []StoreTypeOK
  BY StoreInductiveHolds, PTL DEF StoreInductive

\* However chunk runs of a document interleave, crash and are redelivered, it has
\* one set of chunks, unless two of them met with no summary to change.
THEOREM OneSetEach == StoreSpec => []OneChunkSet
  <1>1. StoreInductive => OneChunkSet
    <2> SUFFICES ASSUME OneSet, NEW d \in Docs, Apart(d)
                 PROVE  ~(Cardinality(chunks[d]) > 1)
      BY DEF StoreInductive, OneChunkSet, Apart
    <2>1. CASE chunks[d] = {}
      BY <2>1, FS_EmptySet
    <2>2. ASSUME NEW x \in chunks[d]
          PROVE  Cardinality(chunks[d]) = 1
      <3>1. chunks[d] = {x}
        BY <2>2 DEF OneSet
      <3> QED  BY <3>1, FS_Singleton
    <2> QED  BY <2>1, <2>2
  <1> QED  BY <1>1, StoreInductiveHolds, PTL

\* A completed embed row means that every chunk of its document has a vector,
\* unless a chunk run replaced the chunks under an embed run.
THEOREM CompletedIsSearchable == StoreSpec => []CompletedMeansEmbedded
  BY StoreInductiveHolds, PTL DEF StoreInductive
=============================================================================
