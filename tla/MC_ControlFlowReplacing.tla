----------------------- MODULE MC_ControlFlowReplacing -----------------------
(* Model-checking instance: three top-level statements over two stencils, *)
(* splits into one or two stencils, room for three nested replacements.    *)
EXTENDS ControlFlowReplacing

MC_InitialStencils == {1, 2}
=============================================================================
