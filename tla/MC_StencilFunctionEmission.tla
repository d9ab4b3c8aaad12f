----------------------- MODULE MC_StencilFunctionEmission -----------------------
(* Two instantiations in the context, two stencil-function names. *)
EXTENDS StencilFunctionEmission

MC_Instantiations == <<"copy", "lap">>
MC_FunNames == {"f", "g"}
=============================================================================
