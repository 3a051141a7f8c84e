---------------------------- MODULE PipelineStages ----------------------------
(***************************************************************************)
(* src/pipeline_model.py: which modules of TinyGPT a pipeline stage owns.  *)
(*                                                                         *)
(* The modules are numbered in the order a token passes them: 0 is the     *)
(* token and position embeddings, 1 .. n the transformer blocks (the       *)
(* code's layers 0 .. n - 1), n + 1 the final norm and the head.           *)
(***************************************************************************)
EXTENDS Integers

Modules(n) == 0 .. n + 1

\* stage_layer_ranges: layers LayerStart .. LayerEnd - 1 go to stage s
Base(n, stages) == n \div stages

LayerStart(n, stages, s) == s * Base(n, stages)

LayerEnd(n, stages, s) ==
  IF s < stages - 1 THEN LayerStart(n, stages, s) + Base(n, stages) ELSE n

\* build_pp_stage_module: the first stage has the embeddings, the last one the
\* norm and the head; a single stage has both (PPSingleStage).
FirstModule(n, stages, s) == IF s = 0 THEN 0 ELSE LayerStart(n, stages, s) + 1

LastModule(n, stages, s) == IF s = stages - 1 THEN n + 1 ELSE LayerEnd(n, stages, s)

StageModules(n, stages, s) == FirstModule(n, stages, s) .. LastModule(n, stages, s)
=============================================================================
