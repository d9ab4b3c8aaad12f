--------------------------- MODULE MC_IjkfyOffset ---------------------------
(* What a read past the end of the std::string array may yield. *)
EXTENDS IjkfyOffset

MC_Garbage == {"", "l+"}

(* Offsets of a component, within the halo of the stencils. *)
MC_Offsets == {-1, 0, 1}
=============================================================================
