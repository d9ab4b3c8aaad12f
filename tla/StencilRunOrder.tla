--------------------------- MODULE StencilRunOrder ---------------------------
(***************************************************************************)
(* Abstract specification of what splitting a stencil does to the runs   *)
(* of the generated program.                                               *)
(*                                                                         *)
(* The control-flow descriptor of a StencilInstantiation runs a sequence  *)
(* of stencils.  A stencil `old` is split into n new stencils, which get   *)
(* fresh UIDs in order; every run of `old` becomes the runs of the new     *)
(* stencils in that order, and every other run stays where it was.        *)
(***************************************************************************)
EXTENDS Naturals, Sequences, SequencesExt

CONSTANTS
  StencilIDs,   \* every stencil identifier a run may use
  MaxSplit      \* the most stencils one stencil is split into

VARIABLES
  runOrder,     \* the stencils run by the generated run(), in order
  nextUID       \* the next fresh stencil identifier

\* Every run of `old` in s replaced by the runs of `new`, in order.
Substitute(s, old, new) ==
  FlattenSeq([i \in DOMAIN s |-> IF s[i] = old THEN new ELSE <<s[i]>>])

Init == runOrder \in Seq(StencilIDs) /\ nextUID \in Nat

Split(old, n) ==
  /\ runOrder' = Substitute(runOrder, old, [k \in 1..n |-> nextUID + k - 1])
  /\ nextUID' = nextUID + n

Next == \E old \in StencilIDs, n \in 1..MaxSplit : Split(old, n)

Spec == Init /\ [][Next]_<<runOrder, nextUID>>
=============================================================================
