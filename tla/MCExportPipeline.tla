-------------------------- MODULE MCExportPipeline --------------------------
(***************************************************************************)
(* Small instances of ExportPipeline: four batches of one, two and four   *)
(* spans, a threshold of two failures and a buffer of three spans.         *)
(***************************************************************************)
EXTENDS ExportPipeline

CONSTANTS b1, b2, b3, b4

MCBatch == {b1, b2, b3, b4}
MCSpanCount == (b1 :> 1) @@ (b2 :> 1) @@ (b3 :> 2) @@ (b4 :> 4)

AllKeySources == {"key_file", "configured_anon", "configured_dev"}
=============================================================================
