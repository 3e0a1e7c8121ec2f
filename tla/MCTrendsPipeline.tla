-------------------------- MODULE MCTrendsPipeline --------------------------
(* TrendsPipeline and the assumptions of its proofs on a small instance.     *)
EXTENDS TrendsPipelineProofs

CONSTANTS devto, a1, a2, a3, a4, a5

MCSources == {devto}
MCIds     == {a1, a2, a3, a4, a5}
=============================================================================
