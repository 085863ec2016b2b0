-------------------------- MODULE MCImportPipeline --------------------------
(* ImportPipeline for TLC: sizes of the input files.                       *)
EXTENDS ImportPipeline

MCBatches == <<2, 0, 1>>
=============================================================================
