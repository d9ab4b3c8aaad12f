------------------------- MODULE MC_HoriDiffKernel -------------------------
(* A 3 x 1 tile with 2 levels per block; nx = 4 gives a full and a        *)
(* partial block in i, kplus = 1 a block in k with no level of nz.        *)
EXTENDS HoriDiffKernel
=============================================================================
