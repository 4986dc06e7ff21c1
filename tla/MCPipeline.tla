----------------------------- MODULE MCPipeline -----------------------------
(***************************************************************************)
(* Module Pipeline with three stages (one with both neighbours), pipes of  *)
(* one item and just enough descriptors beside those of a script.          *)
(***************************************************************************)
EXTENDS Pipeline
=============================================================================
