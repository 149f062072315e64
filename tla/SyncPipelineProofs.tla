------------------------- MODULE SyncPipelineProofs -------------------------
(***************************************************************************)
(* Theorems about SyncPipeline, for every finite corpus, every length of   *)
(* chain and every bound on crashes, stops and failures.                   *)
(***************************************************************************)
EXTENDS SyncPipeline, FiniteSetTheorems, FunctionTheorems, SequenceTheorems, TLAPS

(***************************************************************************)
(* The chain.                                                              *)
(***************************************************************************)
\* Every row but the last of its document has a next row.
LEMMA SuccessorIsMessage ==
    ASSUME NEW m \in Messages, ~IsLast(m)
    PROVE  Successor(m) \in Messages
  BY NumStepsAssumption DEF Messages, Steps, IsLast, Successor

\* No row is the next row of two.
LEMMA SuccessorIsInjective ==
    ASSUME NEW m \in Messages, NEW n \in Messages,
           Successor(m) = Successor(n)
    PROVE  m = n
  <1>1. m.doc = n.doc /\ m.step + 1 = n.step + 1
    BY DEF Messages, Successor
  <1>2. m.step = n.step
    BY <1>1 DEF Messages, Steps
  <1> QED  BY <1>1, <1>2 DEF Messages

\* A row is not its own next row.
LEMMA SuccessorIsAnother ==
    ASSUME NEW m \in Messages
    PROVE  Successor(m) # m
  <1>1. Successor(m).step = m.step + 1 /\ m.step \in Nat
    BY NumStepsAssumption DEF Messages, Steps, Successor
  <1> QED  BY <1>1

\* The row before m, where there is one.
Predecessor(m) == [doc |-> m.doc, step |-> m.step - 1]

\* Every row but the first of its document is a next row.
LEMMA PredecessorIsMessage ==
    ASSUME NEW m \in Messages, m.step > 1
    PROVE  /\ Predecessor(m) \in Messages
           /\ ~IsLast(Predecessor(m))
           /\ Successor(Predecessor(m)) = m
  BY NumStepsAssumption
  DEF Messages, Steps, IsLast, Successor, Predecessor

(***************************************************************************)
(* One move of a handler.                                                  *)
(***************************************************************************)
\* The envelope's variables keep their types, and the handler its message.
LEMMA AdvanceKeepsTypes ==
    ASSUME EnvelopeTypeOK, NEW w \in Workers, Advance(w)
    PROVE  EnvelopeTypeOK' /\ job' = job /\ phase[w] # "idle"
  <1> USE NoMessageAssumption DEF EnvelopeTypeOK, Statuses, Phases, Goto
  <1>1. CASE ReadTask(w)
    BY <1>1 DEF ReadTask
  <1>2. CASE Claim(w)
    BY <1>2 DEF Claim
  <1>3. CASE BodyRejects(w)
    BY <1>3 DEF BodyRejects
  <1>4. CASE BodyReturns(w)
    BY <1>4 DEF BodyReturns, AfterBody
  <1>5. CASE HandOff(w)
    BY <1>5 DEF HandOff
  <1>6. CASE Complete(w)
    BY <1>6 DEF Complete
  <1>7. CASE FailTask(w)
    BY <1>7 DEF FailTask
  <1> QED  BY <1>1, <1>2, <1>3, <1>4, <1>5, <1>6, <1>7 DEF Advance

\* A hand-over is the one step that adds a row, and it is its successor's.
LEMMA HandOffEffect ==
    ASSUME EnvelopeTypeOK, NEW w \in Workers, HandOff(w)
    PROVE  /\ job[w] \in Messages
           /\ Successor(job[w]) \in Messages
           /\ ~IsLast(job[w])
  BY SuccessorIsMessage DEF HandOff, EnvelopeTypeOK

\* Neither a row nor an output is ever taken back.
LEMMA AdvanceKeepsRows ==
    ASSUME EnvelopeTypeOK, NEW w \in Workers, Advance(w)
    PROVE  /\ \A m \in Messages : task[m] # "none" => task'[m] # "none"
           /\ produced \subseteq produced'
  <1> USE DEF EnvelopeTypeOK
  <1>1. CASE Claim(w) \/ Complete(w) \/ FailTask(w)
    BY <1>1 DEF Claim, Complete, FailTask
  <1>2. CASE HandOff(w)
    BY <1>2 DEF HandOff
  <1>3. CASE ReadTask(w) \/ BodyRejects(w) \/ BodyReturns(w)
    BY <1>3 DEF ReadTask, BodyRejects, BodyReturns
  <1> QED  BY <1>1, <1>2, <1>3 DEF Advance

\* A handler that works on a row there is keeps outputs ahead of the rows that
\* stand on them.
LEMMA AdvanceKeepsCheckpointOrder ==
    ASSUME EnvelopeTypeOK, CheckpointOrder, HandlerProgress,
           NEW w \in Workers, Advance(w), task[job[w]] # "none"
    PROVE  CheckpointOrder'
  <1> USE DEF EnvelopeTypeOK
  <1>1. job[w] \in Messages
    BY DEF Advance, ReadTask, Claim, BodyRejects, BodyReturns, HandOff,
           Complete, FailTask
  <1>2. CASE UNCHANGED <<task, produced>>
    BY <1>2 DEF CheckpointOrder
  <1>3. CASE Claim(w) \/ FailTask(w)
    <2>1. /\ produced' = produced
          /\ \A m \in Messages :
                /\ task'[m] = "none" <=> task[m] = "none"
                /\ task'[m] = "completed" => task[m] = "completed"
      BY <1>1, <1>3 DEF Claim, FailTask
    <2> QED  BY <2>1, SuccessorIsMessage DEF CheckpointOrder
  <1>4. CASE /\ HandOff(w)
             /\ task' = [task EXCEPT ![Successor(job[w])] = "pending"]
             /\ produced' = produced \union {job[w]}
    <2>1. ASSUME NEW m \in Messages, ~IsLast(m),
                 task'[Successor(m)] # "none"
          PROVE  m \in produced'
      <3>1. CASE Successor(m) = Successor(job[w])
        BY <3>1, <1>4, HandOffEffect, SuccessorIsInjective
      <3>2. CASE Successor(m) # Successor(job[w])
        BY <2>1, <3>2, <1>4, SuccessorIsMessage DEF CheckpointOrder
      <3> QED  BY <3>1, <3>2
    <2>2. ASSUME NEW m \in Messages, task'[m] = "completed"
          PROVE  /\ m \in produced'
                 /\ ~IsLast(m) => task'[Successor(m)] # "none"
      <3>1. task[m] = "completed"
        BY <2>2, <1>4
      <3> QED  BY <3>1, <1>4, AdvanceKeepsRows, SuccessorIsMessage
               DEF CheckpointOrder
    <2> QED  BY <2>1, <2>2 DEF CheckpointOrder
  <1>5. CASE Complete(w)
    <2>1. ~IsLast(job[w]) => task[Successor(job[w])] # "none"
      BY <1>5 DEF Complete, HandlerProgress
    <2>2. /\ produced' = produced \union {job[w]}
          /\ \A m \in Messages :
                /\ task'[m] = "none" <=> task[m] = "none"
                /\ task'[m] = "completed" =>
                      task[m] = "completed" \/ m = job[w]
      BY <1>1, <1>5 DEF Complete
    <2> QED  BY <2>1, <2>2, SuccessorIsMessage DEF CheckpointOrder
  <1> QED  BY <1>2, <1>3, <1>4, <1>5
           DEF Advance, ReadTask, BodyRejects, BodyReturns, HandOff

\* What a move makes durable is the output of the handler's own step, and the
\* output it continues from is durable already.
LEMMA AdvanceCheckpoints ==
    ASSUME EnvelopeTypeOK, CheckpointOrder,
           NEW w \in Workers, Advance(w), task[job[w]] # "none"
    PROVE  \/ UNCHANGED produced
           \/ /\ job[w] \in Messages
              /\ produced' = produced \union {job[w]}
              /\ job[w].step > 1 => Predecessor(job[w]) \in produced
  <1>1. CASE produced' = produced
    BY <1>1
  <1>2. CASE produced' # produced
    <2>1. job[w] \in Messages /\ produced' = produced \union {job[w]}
      BY <1>2 DEF EnvelopeTypeOK, Advance, ReadTask, Claim, BodyRejects,
                  BodyReturns, HandOff, Complete, FailTask
    <2>2. job[w].step > 1 => Predecessor(job[w]) \in produced
      BY <2>1, PredecessorIsMessage DEF CheckpointOrder
    <2> QED  BY <2>1, <2>2
  <1> QED  BY <1>1, <1>2

(***************************************************************************)
(* Queues.                                                                 *)
(***************************************************************************)
Holds(q, m) == \E i \in 1 .. Len(q) : q[i] = m

Distinct(q) == \A i, j \in 1 .. Len(q) : q[i] = q[j] => i = j

\* Appending adds its element and nothing else.
LEMMA AppendHolds ==
    ASSUME NEW S, NEW q \in Seq(S), NEW e \in S
    PROVE  /\ Append(q, e) \in Seq(S)
           /\ \A m : Holds(Append(q, e), m) <=> Holds(q, m) \/ m = e
           /\ Distinct(q) /\ ~Holds(q, e) => Distinct(Append(q, e))
  <1>1. /\ Append(q, e) \in Seq(S)
        /\ Len(q) \in Nat
        /\ Len(Append(q, e)) = Len(q) + 1
        /\ \A i \in 1 .. Len(q) : Append(q, e)[i] = q[i]
        /\ Append(q, e)[Len(q) + 1] = e
    BY AppendProperties, LenProperties
  <1> QED  BY <1>1 DEF Holds, Distinct

\* Taking the head off a queue of distinct messages leaves the others.
LEMMA TailHolds ==
    ASSUME NEW S, NEW q \in Seq(S), q # <<>>
    PROVE  /\ Head(q) \in S
           /\ Holds(q, Head(q))
           /\ Tail(q) \in Seq(S)
           /\ \A m : Holds(Tail(q), m) => Holds(q, m)
           /\ \A m : Holds(q, m) => Holds(Tail(q), m) \/ m = Head(q)
           /\ Distinct(q) => Distinct(Tail(q)) /\ ~Holds(Tail(q), Head(q))
  <1>1. /\ Head(q) \in S
        /\ Tail(q) \in Seq(S)
        /\ Len(q) \in Nat \ {0}
        /\ Len(Tail(q)) = Len(q) - 1
        /\ \A i \in 1 .. Len(Tail(q)) : Tail(q)[i] = q[i + 1]
        /\ Head(q) = q[1]
    BY HeadTailProperties, LenProperties, EmptySeq
  <1>2. \A m : Holds(q, m) => Holds(Tail(q), m) \/ m = Head(q)
    <2> SUFFICES ASSUME NEW i \in 1 .. Len(q), i # 1
                 PROVE  Holds(Tail(q), q[i])
      BY <1>1 DEF Holds
    <2>1. i - 1 \in 1 .. Len(Tail(q)) /\ Tail(q)[i - 1] = q[(i - 1) + 1]
      BY <1>1
    <2> QED  BY <2>1 DEF Holds
  <1> QED  BY <1>1, <1>2 DEF Holds, Distinct

\* The rows a run queues are the pending ones, each once.
LEMMA InStepOrderHolds ==
    ASSUME NEW S, IsFiniteSet(S), NEW q \in InStepOrder(S)
    PROVE  /\ q \in Seq(S)
           /\ \A m : Holds(q, m) <=> m \in S
           /\ Distinct(q)
  <1> DEFINE n == Cardinality(S)
  <1>1. n \in Nat
    BY FS_CardinalityType
  <1>2. q \in [1 .. n -> S] /\ \A i, j \in 1 .. n : i < j => q[i] # q[j]
    BY DEF InStepOrder
  <1>3. q \in Seq(S) /\ Len(q) = n
    BY <1>1, <1>2
  <1>4. \A i, j \in 1 .. n : q[i] = q[j] => i = j
    <2> SUFFICES ASSUME NEW i \in 1 .. n, NEW j \in 1 .. n, q[i] = q[j]
                 PROVE  i = j
      OBVIOUS
    <2>1. ~(i < j) /\ ~(j < i)
      BY <1>2
    <2> QED  BY <1>1, <2>1
  <1>5. \A m \in S : \E i \in 1 .. n : q[i] = m
    <2>1. q \in Injection(1 .. n, S)
      BY <1>2, <1>4, Fun_IsInj
    <2>2. Cardinality(1 .. n) = n
      BY <1>1, FS_Interval
    <2>3. q \in Surjection(1 .. n, S)
      BY <2>1, <2>2, FS_Injection
    <2> QED  BY <2>3 DEF Surjection
  <1> QED  BY <1>2, <1>3, <1>4, <1>5 DEF Holds, Distinct

\* A run has finitely many rows to queue.
LEMMA LeftIsFinite == IsFiniteSet(Left) /\ Left \subseteq Messages
  <1>1. IsFiniteSet(Docs \X Steps)
    <2>1. IsFiniteSet(Steps)
      BY NumStepsAssumption, FS_Interval DEF Steps
    <2> QED  BY <2>1, CorpusAssumption, FS_Product
  <1> DEFINE row == [p \in Docs \X Steps |-> [doc |-> p[1], step |-> p[2]]]
  <1>2. row \in Surjection(Docs \X Steps, Messages)
    <2>1. row \in [Docs \X Steps -> Messages]
      <3>1. \A p \in Docs \X Steps : [doc |-> p[1], step |-> p[2]] \in Messages
        BY DEF Messages
      <3> QED  BY <3>1
    <2>2. \A m \in Messages : \E p \in Docs \X Steps : row[p] = m
      <3> SUFFICES ASSUME NEW m \in Messages
                   PROVE  row[<<m.doc, m.step>>] = m /\ <<m.doc, m.step>> \in Docs \X Steps
        BY Zenon
      <3> QED  BY DEF Messages
    <2> QED  BY <2>1, <2>2, Fun_IsSurj
  <1>3. IsFiniteSet(Messages)
    BY <1>1, <1>2, FS_Surjection
  <1>4. Left \in SUBSET Messages
    BY DEF Left
  <1> QED  BY <1>3, <1>4, FS_Subset

(***************************************************************************)
(* The inductive invariant.                                                *)
(***************************************************************************)
Queued(m) == Holds(pending, m)

\* Handlers run, documents wait to be published and messages are queued only
\* where main() has come to that.
StagesAgree ==
    /\ \A w \in Workers : phase[w] # "idle" => stage = "draining"
    /\ fresh # {} => stage = "crawling"
    /\ stage \in {"down", "resuming"} => pending = <<>>

\* Crawl has published every row it stored but the last one.
FreshIsUnqueued ==
    /\ \A d, e \in fresh : d = e
    /\ \A d \in fresh : task[Row(d, 1)] = "pending" /\ ~Queued(Row(d, 1))

\* A row that has not been worked on has no next row: no step runs ahead of the
\* one before it, on this backend.
Frontier ==
    \A m \in Messages :
        ~IsLast(m) /\ task[m] \in {"none", "pending"} => task[Successor(m)] = "none"

\* What a handler that is done leaves in its row, unless the database failed it.
Settled(m) ==
    \/ task[m] \in {"completed", "failed"}
    \/ task[m] = "pending" /\ faults["unread"] # 0
    \/ task[m] = "processing" /\ faults["unrecorded"] # 0

\* What the one handler's place in the envelope says of its row and the next.
HandlerHolds ==
    \A w \in Workers :
        LET next == Successor(job[w])
        IN  /\ phase[w] \in {"starting", "claiming"} => task[job[w]] = "pending"
            /\ phase[w] \in {"working", "inserting", "publishing", "completing",
                             "rejecting", "failing"} =>
                  task[job[w]] = "processing"
            /\ phase[w] \in {"working", "inserting"} /\ ~IsLast(job[w]) =>
                  task[next] = "none"
            /\ phase[w] = "publishing" => task[next] = "pending" /\ ~Queued(next)
            /\ phase[w] = "completing" /\ ~IsLast(job[w]) => task[next] # "none"
            /\ phase[w] \in {"returning", "raising"} =>
                  Settled(job[w])
            /\ phase[w] # "resetting"

\* A pending row that is queued, handled, or about to be queued.
Accounted(m) ==
    \/ Queued(m)
    \/ \E d \in fresh : m = Row(d, 1)
    \/ \E w \in Workers :
          \/ job[w] = m
          \/ phase[w] = "publishing" /\ Successor(job[w]) = m

\* A run that resumed has lost sight of no pending row it could read.
ResumedSeesAll ==
    stage \in {"crawling", "draining"} /\ resumed /\ faults["unread"] = 0 =>
        \A m \in Messages : task[m] = "pending" => Accounted(m)

\* What is queued is queued once, still to be done and not under way.
QueueIsDue ==
    /\ Distinct(pending)
    /\ \A w \in Workers : ~Queued(job[w])
    /\ \A m \in Messages : Queued(m) => task[m] = "pending"

\* The state but for its types and its checkpoints.
Progress ==
    /\ StagesAgree
    /\ FreshIsUnqueued
    /\ Frontier
    /\ HandlerHolds
    /\ QueueIsDue
    /\ ResumedSeesAll
    /\ ProcessingIsBeingHandled

Inductive == TypeOK /\ CheckpointOrder /\ Progress

(***************************************************************************)
(* Type correctness.                                                       *)
(***************************************************************************)
\* The first row of a document is a row, and the next row of none.
LEMMA FirstRow ==
    ASSUME NEW d \in Docs
    PROVE  /\ Row(d, 1) \in Messages
           /\ \A m \in Messages : Row(d, 1) # Successor(m)
           /\ \A e \in Docs : Row(d, 1) = Row(e, 1) => d = e
  <1>1. Row(d, 1) \in Messages /\ Row(d, 1).step = 1 /\ Row(d, 1).doc = d
    BY NumStepsAssumption DEF Messages, Steps, Row
  <1>2. \A m \in Messages : Successor(m).step = m.step + 1 /\ m.step > 0
    BY NumStepsAssumption DEF Messages, Steps, Successor
  <1>3. \A m \in Messages : Row(d, 1) # Successor(m)
    BY <1>1, <1>2 DEF Messages, Steps
  <1>4. \A e \in Docs : Row(e, 1).doc = e
    BY DEF Row
  <1> QED  BY <1>1, <1>3, <1>4

LEMMA TypeHoldsInitially == ASSUME Init PROVE TypeOK
  <1>1. EnvelopeTypeOK
    BY NoMessageAssumption
    DEF Init, EnvelopeTypeOK, Messages, Steps, Statuses, Phases
  <1>2. pending \in Seq(Messages)
    BY EmptySeq DEF Init
  <1> QED  BY <1>1, <1>2 DEF Init, TypeOK, Stages, FaultKinds

LEMMA TypeIsPreserved == ASSUME TypeOK, [Next]_vars PROVE TypeOK'
  <1> USE DEF TypeOK, Stages, FaultKinds
  <1>1. CASE UNCHANGED vars
    BY <1>1 DEF vars, EnvelopeTypeOK
  <1>2. ASSUME UNCHANGED envelopeVars
        PROVE  EnvelopeTypeOK'
    BY <1>2 DEF EnvelopeTypeOK, envelopeVars
  <1>3. ASSUME NEW resume \in BOOLEAN, Start(resume)
        PROVE  TypeOK'
    <2>1. pending' \in Seq(Messages)
      BY <1>3, EmptySeq DEF Start
    <2> QED  BY <1>2, <1>3, <2>1 DEF Start
  <1>4. CASE QueuePendingTasks
    <2>1. PICK q \in InStepOrder(Left) : pending' = pending \o q
      BY <1>4 DEF QueuePendingTasks
    <2>2. q \in Seq(Messages)
      BY LeftIsFinite, InStepOrderHolds, SeqMonotonic
    <2>3. pending' \in Seq(Messages)
      BY <2>1, <2>2, ConcatProperties
    <2> QED  BY <1>2, <1>4, <2>3 DEF QueuePendingTasks
  <1>5. ASSUME NEW d \in Docs, Skip(d)
        PROVE  TypeOK'
    BY <1>2, <1>5 DEF Skip
  <1>6. ASSUME NEW d \in Docs, Store(d)
        PROVE  TypeOK'
    <2>1. EnvelopeTypeOK'
      BY <1>6, FirstRow DEF Store, EnvelopeTypeOK, Statuses
    <2> QED  BY <1>6, <2>1 DEF Store
  <1>7. ASSUME NEW d \in Docs, PublishFresh(d)
        PROVE  TypeOK'
    <2>1. pending' \in Seq(Messages)
      BY <1>7, FirstRow, AppendProperties DEF PublishFresh
    <2> QED  BY <1>2, <1>7, <2>1 DEF PublishFresh
  <1>8. CASE Serve
    BY <1>2, <1>8 DEF Serve
  <1>9. ASSUME NEW w \in Workers, Dispatch(w)
        PROVE  TypeOK'
    <2>1. Head(pending) \in Messages /\ pending' \in Seq(Messages)
      BY <1>9, TailHolds DEF Dispatch, GoesOn
    <2>2. EnvelopeTypeOK'
      BY <1>9, <2>1, NoMessageAssumption
      DEF Dispatch, Receive, Goto, EnvelopeTypeOK, Phases
    <2> QED  BY <1>9, <2>1, <2>2 DEF Dispatch, mainVars
  <1>10. ASSUME NEW w \in Workers, Handle(w)
         PROVE  TypeOK'
    BY <1>10, AdvanceKeepsTypes DEF Handle, mainVars
  <1>11. ASSUME NEW w \in Workers, Fail(w)
         PROVE  TypeOK'
    <2>1. EnvelopeTypeOK'
      BY <1>11 DEF Fail, BodyFails, DatabaseFails, Goto, EnvelopeTypeOK, Phases
    <2> QED  BY <1>11, <2>1 DEF Fail, Fault, mainVars
  <1>12. ASSUME NEW w \in Workers, Publish(w)
         PROVE  TypeOK'
    <2>1. EnvelopeTypeOK'
      BY <1>12 DEF Publish, Published, Goto, EnvelopeTypeOK, Phases
    <2>2. Successor(job[w]) \in Messages
      BY <1>12, NoMessageAssumption, SuccessorIsMessage
      DEF Publish, Published, EnvelopeTypeOK
    <2>3. pending' \in Seq(Messages)
      BY <1>12, <2>2, AppendProperties DEF Publish
    <2> QED  BY <1>12, <2>1, <2>3 DEF Publish, mainVars
  <1>13. ASSUME NEW w \in Workers, Return(w)
         PROVE  TypeOK'
    <2>1. EnvelopeTypeOK'
      BY <1>13, NoMessageAssumption DEF Return, Release, EnvelopeTypeOK, Phases
    <2> QED  BY <1>13, <2>1 DEF Return, mainVars
  <1>14. CASE RequestStop
    BY <1>2, <1>14 DEF RequestStop, Fault
  <1>15. CASE Finish
    BY <1>2, <1>15 DEF Finish
  <1>16. ASSUME NEW w \in Workers, Crash(w)
         PROVE  TypeOK'
    <2>1. EnvelopeTypeOK'
      BY <1>16, NoMessageAssumption DEF Crash, Release, EnvelopeTypeOK, Phases
    <2> QED  BY <1>16, <2>1 DEF Crash, Fault
  <1> QED  BY <1>1, <1>3, <1>4, <1>5, <1>6, <1>7, <1>8, <1>9, <1>10, <1>11,
              <1>12, <1>13, <1>14, <1>15, <1>16 DEF Next, Run

\* Every variable keeps its type: the queue holds messages only, and the one
\* handler a message exactly when it is not idle.
THEOREM TypeCorrect == Spec => []TypeOK
  BY TypeHoldsInitially, TypeIsPreserved, PTL DEF Spec

(***************************************************************************)
(* The steps of main().                                                    *)
(***************************************************************************)
LEMMA ProgressInitially == ASSUME Init PROVE Progress
  <1>1. \A m : ~Queued(m)
    BY DEF Init, Queued, Holds
  <1>2. Distinct(pending)
    BY DEF Init, Distinct
  <1>3. Frontier
    BY SuccessorIsMessage DEF Init, Frontier
  <1> QED  BY <1>1, <1>2, <1>3
           DEF Init, Progress, StagesAgree, FreshIsUnqueued, HandlerHolds,
               QueueIsDue, ResumedSeesAll, ProcessingIsBeingHandled

LEMMA StartKeeps ==
    ASSUME Inductive, NEW resume \in BOOLEAN, Start(resume)
    PROVE  Progress'
  <1>1. \A m : ~Queued(m)'
    BY DEF Start, Queued, Holds
  <1>2. Distinct(pending')
    BY DEF Start, Distinct
  <1> USE DEF Inductive, Progress, Start, envelopeVars
  <1>3. StagesAgree' /\ FreshIsUnqueued' /\ Frontier'
    BY DEF StagesAgree, FreshIsUnqueued, Frontier
  <1>4. HandlerHolds'
    BY <1>1 DEF HandlerHolds, StagesAgree
  <1>5. QueueIsDue'
    BY <1>1, <1>2 DEF QueueIsDue
  <1>6. ResumedSeesAll'
    BY DEF ResumedSeesAll, StagesAgree
  <1>7. ProcessingIsBeingHandled'
    BY DEF ProcessingIsBeingHandled
  <1> QED  BY <1>3, <1>4, <1>5, <1>6, <1>7

LEMMA QueuePendingTasksKeeps ==
    ASSUME Inductive, QueuePendingTasks
    PROVE  Progress'
  <1> USE DEF Inductive, Progress, envelopeVars
  <1>1. /\ \A w \in Workers : phase[w] = "idle" /\ job[w] = NoMessage
        /\ fresh = {}
        /\ pending = <<>>
    BY DEF QueuePendingTasks, StagesAgree, TypeOK, EnvelopeTypeOK
  <1>2. /\ pending' \in InStepOrder(Left)
        /\ UNCHANGED <<task, produced, phase, job, resumed, fresh, faults>>
        /\ stage' = "crawling"
    <2>1. PICK q \in InStepOrder(Left) : pending' = <<>> \o q
      BY <1>1 DEF QueuePendingTasks
    <2>2. pending' = q
      BY <2>1, LeftIsFinite, InStepOrderHolds, ConcatEmptySeq
    <2> QED  BY <2>1, <2>2 DEF QueuePendingTasks
  <1>3. /\ \A m : Queued(m)' <=> m \in Left
        /\ Distinct(pending')
    BY <1>2, LeftIsFinite, InStepOrderHolds DEF Queued
  <1>4. \A m \in Messages : m \in Left <=> task[m] = "pending"
    BY DEF Left, ResumableSteps, Messages
  <1>5. NoMessage \notin Left
    BY LeftIsFinite, NoMessageAssumption
  <1>6. StagesAgree' /\ FreshIsUnqueued' /\ Frontier'
    BY <1>1, <1>2 DEF StagesAgree, FreshIsUnqueued, Frontier
  <1>7. HandlerHolds'
    BY <1>1, <1>2 DEF HandlerHolds
  <1>8. QueueIsDue'
    BY <1>1, <1>2, <1>3, <1>4, <1>5 DEF QueueIsDue
  <1>9. ResumedSeesAll'
    BY <1>2, <1>3, <1>4 DEF ResumedSeesAll, Accounted
  <1>10. ProcessingIsBeingHandled'
    BY <1>2 DEF ProcessingIsBeingHandled
  <1> QED  BY <1>6, <1>7, <1>8, <1>9, <1>10

LEMMA StoreKeeps ==
    ASSUME Inductive, NEW d \in Docs, Store(d)
    PROVE  Progress'
  <1> USE DEF Inductive, Progress
  <1>1. /\ stage = "crawling" /\ fresh = {} /\ fresh' = {d}
        /\ task[Row(d, 1)] = "none" /\ Row(d, 1) \in Messages
        /\ task' = [task EXCEPT ![Row(d, 1)] = "pending"]
        /\ task' \in [Messages -> Statuses \union {"none"}]
        /\ UNCHANGED <<produced, phase, job, stage, resumed, pending, faults>>
        /\ \A m : Queued(m)' <=> Queued(m)
    BY FirstRow, TypeIsPreserved
    DEF Store, Known, Queued, TypeOK, EnvelopeTypeOK, Next, Run
  <1>2. \A w \in Workers : phase[w] = "idle" /\ job[w] = NoMessage
    BY <1>1 DEF StagesAgree, TypeOK, EnvelopeTypeOK
  <1>3. ~Queued(Row(d, 1))
    BY <1>1 DEF QueueIsDue
  <1>4. StagesAgree'
    BY <1>1 DEF StagesAgree
  <1>5. FreshIsUnqueued'
    BY <1>1, <1>3 DEF FreshIsUnqueued, TypeOK, EnvelopeTypeOK
  <1>6. Frontier'
    <2> SUFFICES ASSUME NEW m \in Messages, ~IsLast(m), task'[m] \in {"none", "pending"}
                 PROVE  task'[Successor(m)] = "none"
      BY DEF Frontier
    <2>1. task[m] \in {"none", "pending"}
      BY <1>1 DEF TypeOK, EnvelopeTypeOK
    <2> QED  BY <1>1, <2>1, FirstRow, SuccessorIsMessage
             DEF Frontier, TypeOK, EnvelopeTypeOK
  <1>7. HandlerHolds'
    BY <1>1, <1>2 DEF HandlerHolds
  <1>8. QueueIsDue'
    BY <1>1, <1>3 DEF QueueIsDue, TypeOK, EnvelopeTypeOK
  <1>9. ResumedSeesAll'
    BY <1>1 DEF ResumedSeesAll, Accounted, TypeOK, EnvelopeTypeOK
  <1>10. ProcessingIsBeingHandled'
    BY <1>1 DEF ProcessingIsBeingHandled, TypeOK, EnvelopeTypeOK
  <1> QED  BY <1>4, <1>5, <1>6, <1>7, <1>8, <1>9, <1>10

LEMMA PublishFreshKeeps ==
    ASSUME Inductive, NEW d \in Docs, PublishFresh(d)
    PROVE  Progress'
  <1> USE DEF Inductive, Progress
  <1>1. /\ stage = "crawling" /\ d \in fresh /\ fresh' = {}
        /\ task[Row(d, 1)] = "pending" /\ Row(d, 1) \in Messages
        /\ ~Queued(Row(d, 1))
        /\ UNCHANGED <<task, produced, phase, job, stage, resumed, faults>>
    BY FirstRow DEF PublishFresh, envelopeVars, StagesAgree, FreshIsUnqueued
  <1>2. \A w \in Workers : phase[w] = "idle" /\ job[w] = NoMessage
    BY <1>1 DEF StagesAgree, TypeOK, EnvelopeTypeOK
  <1>3. /\ \A m : Queued(m)' <=> Queued(m) \/ m = Row(d, 1)
        /\ Distinct(pending')
    BY <1>1, AppendHolds DEF PublishFresh, Queued, QueueIsDue, TypeOK
  <1>4. StagesAgree' /\ FreshIsUnqueued' /\ Frontier'
    BY <1>1 DEF StagesAgree, FreshIsUnqueued, Frontier
  <1>5. HandlerHolds'
    BY <1>1, <1>2 DEF HandlerHolds
  <1>6. QueueIsDue'
    BY <1>1, <1>2, <1>3, NoMessageAssumption DEF QueueIsDue
  <1>7. ResumedSeesAll'
    BY <1>1, <1>3 DEF ResumedSeesAll, Accounted, FreshIsUnqueued
  <1>8. ProcessingIsBeingHandled'
    BY <1>1 DEF ProcessingIsBeingHandled
  <1> QED  BY <1>4, <1>5, <1>6, <1>7, <1>8

\* Steps that neither write a row nor touch the queue nor move a handler.
LEMMA QuietStepsKeep ==
    ASSUME Inductive,
           \/ \E d \in Docs : Skip(d)
           \/ Serve
           \/ RequestStop
           \/ UNCHANGED vars
    PROVE  Progress'
  <1> USE DEF Inductive, Progress
  <1>1. /\ UNCHANGED <<task, produced, phase, job, resumed, pending, fresh>>
        /\ stage' = stage \/ (stage = "crawling" /\ fresh = {} /\ stage' = "draining")
        /\ \A k \in {"crash", "unread", "unrecorded"} : faults'[k] = faults[k]
        /\ \A m : Queued(m)' <=> Queued(m)
    BY DEF Skip, Serve, RequestStop, Fault, FaultKinds, vars, envelopeVars, Queued,
           TypeOK
  <1>2. StagesAgree' /\ FreshIsUnqueued' /\ Frontier'
    BY <1>1 DEF StagesAgree, FreshIsUnqueued, Frontier
  <1>3. HandlerHolds' /\ QueueIsDue'
    BY <1>1 DEF HandlerHolds, Settled, QueueIsDue
  <1>4. ResumedSeesAll'
    BY <1>1 DEF ResumedSeesAll, Accounted
  <1>5. ProcessingIsBeingHandled'
    BY <1>1 DEF ProcessingIsBeingHandled
  <1> QED  BY <1>2, <1>3, <1>4, <1>5

\* A run that ends, by itself or not, leaves no handler and no queue behind.
LEMMA EndKeeps ==
    ASSUME Inductive, Finish \/ \E w \in Workers : Crash(w)
    PROVE  Progress'
  <1> USE DEF Inductive, Progress
  <1>1. /\ stage' = "down" /\ pending' = <<>> /\ fresh' = {}
        /\ \A w \in Workers : phase'[w] = "idle" /\ job'[w] = NoMessage
        /\ UNCHANGED <<task, produced>>
        /\ faults'["unrecorded"] = faults["unrecorded"]
        /\ faults'["crash"] = 0 =>
              faults["crash"] = 0 /\ UNCHANGED <<job, phase>>
    BY OneHandlerAssumption
    DEF Finish, Crash, Release, Fault, FaultKinds, envelopeVars, StagesAgree, TypeOK,
        EnvelopeTypeOK
  <1>2. \A m : ~Queued(m)'
    BY <1>1 DEF Queued, Holds
  <1>3. Distinct(pending')
    BY <1>1 DEF Distinct
  <1>4. StagesAgree' /\ FreshIsUnqueued' /\ Frontier'
    BY <1>1 DEF StagesAgree, FreshIsUnqueued, Frontier
  <1>5. HandlerHolds' /\ QueueIsDue' /\ ResumedSeesAll'
    BY <1>1, <1>2, <1>3 DEF HandlerHolds, QueueIsDue, ResumedSeesAll
  <1>6. ProcessingIsBeingHandled'
    BY <1>1 DEF ProcessingIsBeingHandled
  <1> QED  BY <1>4, <1>5, <1>6

(***************************************************************************)
(* The steps of the one handler.                                           *)
(***************************************************************************)
LEMMA DispatchKeeps ==
    ASSUME Inductive, NEW w \in Workers, Dispatch(w)
    PROVE  Progress'
  <1> USE DEF Inductive, Progress, TypeOK, EnvelopeTypeOK
  <1> DEFINE m == Head(pending)
  <1>0. \A v \in Workers : v = w
    BY OneHandlerAssumption
  <1>1. /\ stage = "draining" /\ fresh = {} /\ phase[w] = "idle" /\ job[w] = NoMessage
        /\ m \in Messages /\ Queued(m) /\ task[m] = "pending"
        /\ UNCHANGED <<task, produced, stage, resumed, fresh, faults>>
        /\ phase'[w] = "starting" /\ job'[w] = m
    BY TailHolds DEF Dispatch, GoesOn, Receive, Goto, mainVars, StagesAgree, QueueIsDue,
                     Queued
  <1>2. /\ \A n : Queued(n)' => Queued(n)
        /\ \A n : Queued(n) => Queued(n)' \/ n = m
        /\ Distinct(pending') /\ ~Holds(pending', m)
    <2>1. pending # <<>> /\ pending' = Tail(pending) /\ Distinct(pending)
      BY DEF Dispatch, GoesOn, QueueIsDue
    <2> QED  BY <2>1, TailHolds DEF Queued
  <1> HIDE DEF m
  <1>3. StagesAgree' /\ FreshIsUnqueued' /\ Frontier'
    BY <1>1 DEF StagesAgree, FreshIsUnqueued, Frontier
  <1>4. HandlerHolds'
    BY <1>0, <1>1 DEF HandlerHolds
  <1>5. QueueIsDue'
    BY <1>0, <1>1, <1>2 DEF QueueIsDue, Queued
  <1>6. ResumedSeesAll'
    BY <1>0, <1>1, <1>2, NoMessageAssumption DEF ResumedSeesAll, Accounted
  <1>7. ProcessingIsBeingHandled'
    BY <1>0, <1>1, NoMessageAssumption DEF ProcessingIsBeingHandled
  <1> QED  BY <1>3, <1>4, <1>5, <1>6, <1>7

\* Moves that write no row: reading it, the body's ends, and the return.
LEMMA ReadingKeeps ==
    ASSUME Inductive, NEW w \in Workers, Handle(w),
           ReadTask(w) \/ BodyRejects(w) \/ BodyReturns(w)
    PROVE  Progress'
  <1> USE DEF Inductive, Progress, TypeOK, EnvelopeTypeOK
  <1>0. \A v \in Workers : v = w
    BY OneHandlerAssumption
  <1>1. /\ UNCHANGED <<task, produced, job, stage, resumed, pending, fresh, faults>>
        /\ \A m : Queued(m)' <=> Queued(m)
        /\ phase[w] \in {"starting", "working"}
        /\ job[w] \in Messages /\ stage = "draining" /\ fresh = {}
    BY DEF Handle, mainVars, Queued, ReadTask, BodyRejects, BodyReturns, StagesAgree
  <1>2. /\ phase[w] = "starting" => phase'[w] = "claiming"
        /\ phase[w] = "working" =>
              phase'[w] \in {"rejecting", "inserting", "completing"}
        /\ phase'[w] = "completing" => IsLast(job[w])
    BY <1>1 DEF Handle, ReadTask, BodyRejects, BodyReturns, AfterBody, Goto, Skippable,
                HandlerHolds
  <1>3. StagesAgree' /\ FreshIsUnqueued' /\ Frontier'
    BY <1>0, <1>1 DEF StagesAgree, FreshIsUnqueued, Frontier
  <1>4. HandlerHolds'
    BY <1>0, <1>1, <1>2 DEF HandlerHolds
  <1>5. QueueIsDue'
    BY <1>1 DEF QueueIsDue
  <1>6. ResumedSeesAll'
    BY <1>0, <1>1 DEF ResumedSeesAll, Accounted
  <1>7. ProcessingIsBeingHandled'
    BY <1>1 DEF ProcessingIsBeingHandled
  <1> QED  BY <1>3, <1>4, <1>5, <1>6, <1>7

\* A failure writes no row; where it leaves one in pending or in processing for
\* good, the database failed the envelope.
LEMMA FailKeeps ==
    ASSUME Inductive, NEW w \in Workers, Fail(w)
    PROVE  Progress'
  <1> USE DEF Inductive, Progress, TypeOK, EnvelopeTypeOK
  <1>0. \A v \in Workers : v = w
    BY OneHandlerAssumption
  <1>1. /\ UNCHANGED <<task, produced, job, stage, resumed, pending, fresh>>
        /\ \A m : Queued(m)' <=> Queued(m)
        /\ phase[w] \notin {"idle", "publishing", "returning", "raising"}
        /\ job[w] \in Messages /\ stage = "draining" /\ fresh = {}
    BY DEF Fail, mainVars, Queued, BodyFails, DatabaseFails, StagesAgree
  <1>2. /\ faults'["crash"] = faults["crash"]
        /\ faults'["unread"] = 0 => faults["unread"] = 0
        /\ faults'["unrecorded"] = 0 => faults["unrecorded"] = 0
        /\ phase[w] \in {"starting", "claiming"} => faults'["unread"] # 0
        /\ phase[w] \in {"rejecting", "failing"} => faults'["unrecorded"] # 0
    BY DEF Fail, Fault, FaultKinds
  <1>3. \/ /\ phase[w] \in {"working", "inserting", "completing"}
           /\ phase'[w] = "failing" /\ task[job[w]] = "processing"
        \/ /\ phase[w] \in {"starting", "claiming"}
           /\ phase'[w] = "raising" /\ task[job[w]] = "pending"
        \/ /\ phase[w] \in {"rejecting", "failing"}
           /\ phase'[w] = "raising" /\ task[job[w]] = "processing"
    BY DEF Fail, BodyFails, DatabaseFails, Goto, HandlerHolds
  <1>4. StagesAgree' /\ FreshIsUnqueued' /\ Frontier'
    BY <1>0, <1>1 DEF StagesAgree, FreshIsUnqueued, Frontier
  <1>5. HandlerHolds'
    BY <1>0, <1>1, <1>2, <1>3 DEF HandlerHolds, Settled
  <1>6. QueueIsDue'
    BY <1>1 DEF QueueIsDue
  <1>7. ResumedSeesAll'
    BY <1>0, <1>1, <1>2 DEF ResumedSeesAll, Accounted
  <1>8. ProcessingIsBeingHandled'
    BY <1>1, <1>2 DEF ProcessingIsBeingHandled
  <1> QED  BY <1>4, <1>5, <1>6, <1>7, <1>8

\* Moves that write the handler's own row: it is not queued, and only the claim,
\* which finds no next row, takes it out of pending.
LEMMA OwnRowKeeps ==
    ASSUME Inductive, NEW w \in Workers, Handle(w),
           Claim(w) \/ Complete(w) \/ FailTask(w)
    PROVE  Progress'
  <1> USE DEF Inductive, Progress, TypeOK, EnvelopeTypeOK
  <1> DEFINE m == job[w]
  <1>0. \A v \in Workers : v = w
    BY OneHandlerAssumption
  <1>1. /\ UNCHANGED <<job, stage, resumed, pending, fresh, faults>>
        /\ \A n : Queued(n)' <=> Queued(n)
        /\ m \in Messages /\ stage = "draining" /\ fresh = {}
        /\ ~Queued(m) /\ task[m] \in {"pending", "processing"}
    BY DEF Handle, mainVars, Queued, Claim, Complete, FailTask, StagesAgree, QueueIsDue,
           HandlerHolds
  <1>2. /\ \A n \in Messages : n # m => task'[n] = task[n]
        /\ \/ task[m] = "pending" /\ task'[m] = "processing" /\ phase'[w] = "working"
           \/ /\ task'[m] \in {"completed", "failed"}
              /\ phase'[w] \in {"returning", "raising"}
    BY <1>1 DEF Claim, Complete, FailTask, Goto, HandlerHolds
  <1>3. Successor(m) # m
    BY <1>1, SuccessorIsAnother
  <1>4. StagesAgree' /\ FreshIsUnqueued'
    BY <1>0, <1>1 DEF StagesAgree, FreshIsUnqueued
  <1>5. Frontier'
    <2> SUFFICES ASSUME NEW n \in Messages, ~IsLast(n), task'[n] \in {"none", "pending"}
                 PROVE  task'[Successor(n)] = "none"
      BY DEF Frontier
    <2>1. n # m /\ task[n] \in {"none", "pending"}
      BY <1>1, <1>2
    <2>2. task[Successor(n)] = "none"
      BY <2>1 DEF Frontier
    <2>3. Successor(n) # m
      BY <1>1, <2>2
    <2> QED  BY <1>2, <2>2, <2>3, SuccessorIsMessage
  <1>6. HandlerHolds'
    <2>1. CASE task'[m] = "processing"
      <3>1. ~IsLast(m) => task'[Successor(m)] = "none"
        BY <1>1, <1>2, <1>3, <2>1, SuccessorIsMessage DEF Frontier
      <3> QED  BY <1>0, <1>1, <1>2, <2>1, <3>1 DEF HandlerHolds
    <2>2. CASE task'[m] # "processing"
      BY <1>0, <1>1, <1>2, <2>2 DEF HandlerHolds, Settled
    <2> QED  BY <2>1, <2>2
  <1>7. QueueIsDue'
    BY <1>0, <1>1, <1>2 DEF QueueIsDue
  <1>8. ResumedSeesAll'
    <2> SUFFICES ASSUME resumed, faults["unread"] = 0,
                        NEW n \in Messages, task'[n] = "pending"
                 PROVE  Accounted(n)'
      BY <1>1 DEF ResumedSeesAll
    <2>1. n # m /\ Accounted(n)
      BY <1>1, <1>2 DEF ResumedSeesAll
    <2>2. phase[w] # "publishing"
      BY DEF Claim, Complete, FailTask
    <2> QED  BY <1>0, <1>1, <2>1, <2>2 DEF Accounted
  <1>9. ProcessingIsBeingHandled'
    BY <1>0, <1>1, <1>2 DEF ProcessingIsBeingHandled
  <1> QED  BY <1>4, <1>5, <1>6, <1>7, <1>8, <1>9

\* The hand-over finds no next row, and makes one.
LEMMA HandOffKeeps ==
    ASSUME Inductive, NEW w \in Workers, Handle(w), HandOff(w)
    PROVE  Progress'
  <1> USE DEF Inductive, Progress, TypeOK, EnvelopeTypeOK
  <1> DEFINE next == Successor(job[w])
  <1>0. \A v \in Workers : v = w
    BY OneHandlerAssumption
  <1>1. /\ UNCHANGED <<job, stage, resumed, pending, fresh, faults>>
        /\ \A n : Queued(n)' <=> Queued(n)
        /\ job[w] \in Messages /\ stage = "draining" /\ fresh = {}
        /\ next \in Messages /\ ~IsLast(job[w]) /\ next # job[w]
    BY HandOffEffect, SuccessorIsAnother DEF Handle, mainVars, Queued, HandOff, StagesAgree
  <1>2. task[next] = "none" /\ ~Queued(next) /\ phase[w] = "inserting"
        /\ task[job[w]] = "processing"
    BY <1>1 DEF HandOff, HandlerHolds, QueueIsDue
  <1>3. task' = [task EXCEPT ![next] = "pending"] /\ phase'[w] = "publishing"
    BY <1>2 DEF HandOff, Goto
  <1> HIDE DEF next
  <1>4. StagesAgree' /\ FreshIsUnqueued'
    BY <1>0, <1>1 DEF StagesAgree, FreshIsUnqueued
  <1>5. Frontier'
    <2> SUFFICES ASSUME NEW n \in Messages, ~IsLast(n), task'[n] \in {"none", "pending"}
                 PROVE  task'[Successor(n)] = "none"
      BY DEF Frontier
    <2>1. task[n] \in {"none", "pending"} /\ n # job[w]
      BY <1>1, <1>2, <1>3
    <2>2. task[Successor(n)] = "none"
      BY <2>1 DEF Frontier
    <2>3. Successor(n) # next
      BY <1>1, <2>1, SuccessorIsInjective DEF next
    <2> QED  BY <1>3, <2>2, <2>3, SuccessorIsMessage
  <1>6. HandlerHolds'
    BY <1>0, <1>1, <1>2, <1>3 DEF HandlerHolds, next
  <1>7. QueueIsDue'
    BY <1>0, <1>1, <1>2, <1>3 DEF QueueIsDue
  <1>8. ResumedSeesAll'
    <2> SUFFICES ASSUME resumed, faults["unread"] = 0,
                        NEW n \in Messages, task'[n] = "pending"
                 PROVE  Accounted(n)'
      BY <1>1 DEF ResumedSeesAll
    <2>1. CASE n = next
      BY <1>1, <1>3, <2>1 DEF Accounted, next
    <2>2. CASE n # next
      <3>1. Accounted(n)
        BY <1>1, <1>3, <2>2 DEF ResumedSeesAll
      <3> QED  BY <1>0, <1>1, <1>2, <3>1 DEF Accounted
    <2> QED  BY <2>1, <2>2
  <1>9. ProcessingIsBeingHandled'
    BY <1>1, <1>3 DEF ProcessingIsBeingHandled
  <1> QED  BY <1>4, <1>5, <1>6, <1>7, <1>8, <1>9

LEMMA PublishKeeps ==
    ASSUME Inductive, NEW w \in Workers, Publish(w)
    PROVE  Progress'
  <1> USE DEF Inductive, Progress, TypeOK, EnvelopeTypeOK
  <1> DEFINE next == Successor(job[w])
  <1>0. \A v \in Workers : v = w
    BY OneHandlerAssumption
  <1>1. /\ UNCHANGED <<task, produced, job, stage, resumed, fresh, faults>>
        /\ phase[w] = "publishing" /\ phase'[w] = "completing"
        /\ job[w] \in Messages /\ stage = "draining" /\ fresh = {}
        /\ pending' = Append(pending, next)
    BY DEF Publish, Published, Goto, mainVars, StagesAgree
  <1>2. next \in Messages /\ next # job[w]
    BY <1>1, SuccessorIsMessage, SuccessorIsAnother
  <1>3. task[next] = "pending" /\ ~Queued(next) /\ task[job[w]] = "processing"
    BY <1>1 DEF HandlerHolds
  <1>4. /\ \A n : Queued(n)' <=> Queued(n) \/ n = next
        /\ Distinct(pending')
    BY <1>1, <1>2, <1>3, AppendHolds DEF Queued, QueueIsDue
  <1>5. StagesAgree' /\ FreshIsUnqueued' /\ Frontier'
    BY <1>0, <1>1 DEF StagesAgree, FreshIsUnqueued, Frontier
  <1>6. HandlerHolds'
    BY <1>0, <1>1, <1>3 DEF HandlerHolds
  <1>7. QueueIsDue'
    BY <1>0, <1>1, <1>2, <1>3, <1>4 DEF QueueIsDue
  <1>8. ResumedSeesAll'
    BY <1>0, <1>1, <1>4 DEF ResumedSeesAll, Accounted
  <1>9. ProcessingIsBeingHandled'
    BY <1>1 DEF ProcessingIsBeingHandled
  <1> QED  BY <1>5, <1>6, <1>7, <1>8, <1>9

LEMMA ReturnKeeps ==
    ASSUME Inductive, NEW w \in Workers, Return(w)
    PROVE  Progress'
  <1> USE DEF Inductive, Progress, TypeOK, EnvelopeTypeOK
  <1>0. \A v \in Workers : v = w
    BY OneHandlerAssumption
  <1>1. /\ UNCHANGED <<task, produced, stage, resumed, pending, fresh, faults>>
        /\ \A m : Queued(m)' <=> Queued(m)
        /\ phase[w] \in {"returning", "raising"} /\ phase'[w] = "idle"
        /\ job[w] \in Messages /\ job'[w] = NoMessage
        /\ stage = "draining" /\ fresh = {}
    BY DEF Return, Release, mainVars, Queued, StagesAgree
  <1>2. /\ task[job[w]] = "pending" => faults["unread"] # 0
        /\ task[job[w]] = "processing" => faults["unrecorded"] # 0
    BY <1>1 DEF HandlerHolds, Settled
  <1>3. ~Queued(NoMessage)
    BY NoMessageAssumption, ElementOfSeq DEF Queued, Holds
  <1>4. StagesAgree' /\ FreshIsUnqueued' /\ Frontier'
    BY <1>0, <1>1 DEF StagesAgree, FreshIsUnqueued, Frontier
  <1>5. HandlerHolds'
    BY <1>0, <1>1 DEF HandlerHolds
  <1>6. QueueIsDue'
    BY <1>0, <1>1, <1>3 DEF QueueIsDue
  <1>7. ResumedSeesAll'
    BY <1>0, <1>1, <1>2 DEF ResumedSeesAll, Accounted
  <1>8. ProcessingIsBeingHandled'
    BY <1>0, <1>1, <1>2 DEF ProcessingIsBeingHandled
  <1> QED  BY <1>4, <1>5, <1>6, <1>7, <1>8

(***************************************************************************)
(* The invariant, and what follows from it.                                *)
(***************************************************************************)
LEMMA ProgressIsPreserved ==
    ASSUME Inductive, [Next]_vars
    PROVE  Progress'
  <1>1. ASSUME NEW w \in Workers, Handle(w)
        PROVE  Progress'
    BY <1>1, ReadingKeeps, OwnRowKeeps, HandOffKeeps DEF Handle, Advance
  <1>2. CASE Run
    BY <1>1, <1>2, QueuePendingTasksKeeps, QuietStepsKeep, StoreKeeps,
       PublishFreshKeeps, DispatchKeeps, PublishKeeps, ReturnKeeps, EndKeeps DEF Run
  <1>3. ASSUME NEW w \in Workers, Fail(w)
        PROVE  Progress'
    BY <1>3, FailKeeps
  <1>4. CASE RequestStop \/ UNCHANGED vars
    BY <1>4, QuietStepsKeep
  <1> QED  BY <1>2, <1>3, <1>4, StartKeeps, EndKeeps DEF Next

\* The rows crawl stores stand on no output.
LEMMA StoreKeepsCheckpointOrder ==
    ASSUME Inductive, NEW d \in Docs, Store(d)
    PROVE  CheckpointOrder'
  <1> USE DEF Inductive, TypeOK, EnvelopeTypeOK
  <1>1. /\ Row(d, 1) \in Messages
        /\ \A m \in Messages : Row(d, 1) # Successor(m)
        /\ task' = [task EXCEPT ![Row(d, 1)] = "pending"]
        /\ produced' = produced
    BY FirstRow DEF Store
  <1>2. \A m \in Messages : ~IsLast(m) => task'[Successor(m)] = task[Successor(m)]
    BY <1>1, SuccessorIsMessage
  <1>3. \A m \in Messages : task'[m] = "completed" => task[m] = "completed"
    BY <1>1
  <1> QED  BY <1>1, <1>2, <1>3 DEF CheckpointOrder

\* A handler works on a row there is.
LEMMA HandlerHasRow ==
    ASSUME Inductive, NEW w \in Workers, phase[w] # "idle"
    PROVE  task[job[w]] # "none" /\ HandlerProgress
  <1> USE DEF Inductive, Progress, TypeOK, EnvelopeTypeOK
  <1>1. task[job[w]] # "none"
    BY DEF HandlerHolds, Settled, Phases
  <1>2. HandlerProgress
    BY DEF HandlerHolds, HandlerProgress
  <1> QED  BY <1>1, <1>2

LEMMA CheckpointOrderIsPreserved ==
    ASSUME Inductive, [Next]_vars
    PROVE  CheckpointOrder'
  <1>1. ASSUME NEW w \in Workers, Handle(w)
        PROVE  CheckpointOrder'
    <2>1. EnvelopeTypeOK /\ Advance(w) /\ phase[w] # "idle"
      BY <1>1, AdvanceKeepsTypes DEF Inductive, TypeOK, Handle
    <2> QED  BY <2>1, HandlerHasRow, AdvanceKeepsCheckpointOrder DEF Inductive
  <1>2. ASSUME UNCHANGED <<task, produced>>
        PROVE  CheckpointOrder'
    BY <1>2 DEF Inductive, CheckpointOrder
  <1>3. \/ UNCHANGED <<task, produced>>
        \/ \E w \in Workers : Handle(w)
        \/ \E d \in Docs : Store(d)
    BY DEF Next, Run, Start, QueuePendingTasks, Skip, PublishFresh, Serve, Dispatch,
           Receive, Publish, Published, Return, Release, Finish, RequestStop, Fail,
           BodyFails, DatabaseFails, Crash, vars, envelopeVars
  <1> QED  BY <1>1, <1>2, <1>3, StoreKeepsCheckpointOrder

\* One handler at a time, in chain order, over rows that are queued once.
THEOREM InductiveHolds == Spec => []Inductive
  <1>1. Init => Inductive
    <2>1. ASSUME Init PROVE CheckpointOrder
      BY <2>1, SuccessorIsMessage DEF Init, CheckpointOrder
    <2> QED  BY <2>1, TypeHoldsInitially, ProgressInitially DEF Inductive
  <1>2. Inductive /\ [Next]_vars => Inductive'
    BY TypeIsPreserved, CheckpointOrderIsPreserved, ProgressIsPreserved DEF Inductive
  <1> QED  BY <1>1, <1>2, PTL DEF Spec

\* Resuming before the crawl queues no row twice, and no row is queued while it
\* is handled.
THEOREM RowsAreQueuedOnce == Spec => []OneMessagePerRow
  <1>1. Inductive => OneMessagePerRow
    BY DEF Inductive, Progress, QueueIsDue, OneMessagePerRow, Queued, Holds, Distinct
  <1> QED  BY <1>1, InductiveHolds, PTL

\* No step runs twice on one row, and a run that resumed drains every pending row
\* a handler could read.
THEOREM QueueIsTheTable == Spec => []QueueIsPendingRows
  <1>1. ASSUME Inductive PROVE QueueIsPendingRows
    <2> USE <1>1 DEF Inductive, Progress
    <2>1. \A i \in 1 .. Len(pending) : task[pending[i]] = "pending"
      <3> SUFFICES ASSUME NEW i \in 1 .. Len(pending)
                   PROVE  task[pending[i]] = "pending"
        OBVIOUS
      <3>1. pending[i] \in Messages
        BY ElementOfSeq DEF TypeOK
      <3> QED  BY <3>1 DEF QueueIsDue, Queued, Holds
    <2>2. ASSUME stage = "draining", resumed, faults["unread"] = 0,
                 NEW m \in Messages, task[m] = "pending"
          PROVE  \/ \E i \in 1 .. Len(pending) : pending[i] = m
                 \/ \E w \in Workers :
                       \/ job[w] = m
                       \/ phase[w] = "publishing" /\ Successor(job[w]) = m
      BY <2>2 DEF ResumedSeesAll, Accounted, StagesAgree, Queued, Holds
    <2> QED  BY <2>1, <2>2 DEF QueueIsPendingRows
  <1> QED  BY <1>1, InductiveHolds, PTL

\* A stop leaves no row in processing: only a run that died does, or a failure
\* that could not be written down.
THEOREM StopsAbandonNothing == Spec => []ProcessingIsBeingHandled
  <1>1. Inductive => ProcessingIsBeingHandled
    BY DEF Inductive, Progress
  <1> QED  BY <1>1, InductiveHolds, PTL

\* The outputs the in-process backend makes durable, run after run, are the
\* abstract pipeline's checkpoints.
THEOREM CheckpointsAreImplemented == Spec => ImplementsCheckpoints
  <1>1. Init => Abstract!Init
    BY DEF Init, Abstract!Init
  <1>2. ASSUME Inductive, [Next]_vars
        PROVE  [Abstract!Next]_produced
    <2>1. ASSUME NEW w \in Workers, Handle(w), produced' # produced
          PROVE  Abstract!Next
      <3>1. EnvelopeTypeOK /\ Advance(w) /\ phase[w] # "idle"
        BY <1>2, <2>1, AdvanceKeepsTypes DEF Inductive, TypeOK, Handle
      <3>2. /\ job[w] \in Messages
            /\ produced' = produced \union {job[w]}
            /\ job[w].step > 1 => Predecessor(job[w]) \in produced
        BY <1>2, <2>1, <3>1, HandlerHasRow, AdvanceCheckpoints DEF Inductive
      <3>3. /\ job[w].doc \in Docs
            /\ job[w].step \in 1 .. NumSteps
            /\ job[w] = [doc |-> job[w].doc, step |-> job[w].step]
        BY <3>2 DEF Messages, Steps
      <3>4. Abstract!Reach(job[w].doc, job[w].step)
        BY <3>2, <3>3 DEF Abstract!Reach, Predecessor
      <3> QED  BY <3>3, <3>4 DEF Abstract!Next
    <2>2. UNCHANGED produced \/ \E w \in Workers : Handle(w)
      BY <1>2
      DEF Next, Run, Start, QueuePendingTasks, Skip, Store, PublishFresh, Serve, Dispatch,
          Receive, Publish, Published, Return, Release, Finish, RequestStop, Fail,
          BodyFails, DatabaseFails, Crash, vars, envelopeVars
    <2> QED  BY <2>1, <2>2
  <1> QED  BY <1>1, <1>2, InductiveHolds, PTL
           DEF Spec, ImplementsCheckpoints, Abstract!Spec
=============================================================================
