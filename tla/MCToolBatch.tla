---------------------------- MODULE MCToolBatch ----------------------------
(* Model-checking instance of ToolBatch. *)
EXTENDS ToolBatchProps
=============================================================================
