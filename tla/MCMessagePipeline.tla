-------------------------- MODULE MCMessagePipeline --------------------------
(* MessagePipeline with short queues and enough statuses to fill the path. *)
EXTENDS MessagePipeline
=============================================================================
