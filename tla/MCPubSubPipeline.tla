-------------------------- MODULE MCPubSubPipeline --------------------------
(***************************************************************************)
(* A small instance of PubSubPipeline.                                     *)
(***************************************************************************)
EXTENDS PubSubPipeline

\* Chunk and embed, the last two of the chain, ask for their errors back.
LastTwoSteps == {NumSteps - 1, NumSteps}
=============================================================================
