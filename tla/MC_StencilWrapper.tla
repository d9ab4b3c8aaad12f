------------------------- MODULE MC_StencilWrapper -------------------------
(* Three fields in AccessID order for the wrapper of up to three stencils. *)
EXTENDS StencilWrapper

MC_FieldOrder == <<"in", "tmp", "out">>
=============================================================================
