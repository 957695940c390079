---- MODULE MCEvalPipeline ----
(***************************************************************************)
(* EvalPipeline with requests for TLC: three questions about one memory.    *)
(***************************************************************************)
EXTENDS EvalPipeline

CONSTANTS a1, a2, a3, s1, e1, e2

MCShared == {<<a1, a2, a3>>}
====
