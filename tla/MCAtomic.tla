------------------------------- MODULE MCAtomic -----------------------------
(***************************************************************************)
(* The pipeline without kills, with the history variables of                *)
(* PipelineAtomic, on the project of MCPipeline.                            *)
(***************************************************************************)
EXTENDS MCPipeline, PipelineAtomic
=============================================================================
