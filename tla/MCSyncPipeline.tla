-------------------------- MODULE MCSyncPipeline --------------------------
(***************************************************************************)
(* A small instance of SyncPipeline.                                       *)
(***************************************************************************)
EXTENDS SyncPipeline

\* Chunk and embed, the last two of the chain, ask for their errors back.
LastTwoSteps == {NumSteps - 1, NumSteps}
=============================================================================
