----------------------------- MODULE Checkpoints ----------------------------
(***************************************************************************)
(* What the ingestion pipeline promises of a corpus, whatever carries its  *)
(* messages: every document passes its steps in chain order, each step's   *)
(* output becomes durable in one go, and a durable output is never lost.   *)
(* Running a step again is invisible here.                                 *)
(***************************************************************************)
EXTENDS Naturals

CONSTANTS Docs, NumSteps

VARIABLE reached   \* the (document, step) pairs whose output is durable

Init == reached = {}

\* A step's output may become durable once its predecessor's has.
Reach(d, k) ==
    /\ k > 1 => [doc |-> d, step |-> k - 1] \in reached
    /\ reached' = reached \union {[doc |-> d, step |-> k]}

Next == \E d \in Docs, k \in 1 .. NumSteps : Reach(d, k)

Spec == Init /\ [][Next]_reached
=============================================================================
