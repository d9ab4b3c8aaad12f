---------------------------- MODULE NaiveCodeGen ----------------------------
(***************************************************************************)
(* The driver of the naive C++ code generator for unstructured meshes      *)
(* (CXXNaiveIcoCodeGen::generateStencilClasses, src/dawn/CodeGen/          *)
(* CXXNaive-ico/CXXNaiveCodeGen.cpp): for each non-empty stencil it emits  *)
(* a run() method that, for each MultiStage, walks the partition of the   *)
(* MultiStage's intervals (reversed for a Backward loop order) and, for   *)
(* each piece and each Stage, opens one horizontal loop over the mesh's    *)
(* triangles holding the statements of the DoMethods whose interval        *)
(* overlaps the piece; run() ends with a call of sync_storages().          *)
(*                                                                         *)
(* The emitted run() is a sequence of items.  A "loop" item is one         *)
(* addBlockStatement: it records the MultiStage, the Stage and the         *)
(* statements it holds, and the partition piece of the loop that emitted  *)
(* it.  The block itself has no vertical range: the k loop is not emitted  *)
(* (makeKLoop is commented out, lines 49-57), so a block runs its          *)
(* statements once over the triangles whatever its piece.  A statement is  *)
(* named by its position <<stage, doMethod>> in the MultiStage.            *)
(***************************************************************************)
EXTENDS Integers, FiniteSets, Sequences, SequencesExt, Interval

CONSTANTS
  Intervals,    \* the intervals a DoMethod may declare
  DomainSizes,  \* vertical domain sizes the code may be generated for
  MaxStages     \* the most Stages of a MultiStage

VARIABLES
  stencils,     \* the IIR: stencil -> MultiStages -> Stages -> DoMethods
  ksize,        \* the vertical domain size of the generation; 0 before it
  run           \* non-empty stencil index -> its emitted run() method

vars == <<stencils, ksize, run>>

LoopOrders == {"Forward", "Backward", "Parallel"}

Item(kind, m, piece, st, stmts) ==
  [kind |-> kind, ms |-> m, piece |-> piece, stage |-> st, stmts |-> stmts]

SyncItem == Item("sync", 0, <<0, 0>>, 0, <<>>)

(***************************************************************************)
(* MultiStage::getIntervals: the set of intervals of its DoMethods.        *)
(***************************************************************************)
MsIntervals(ms) ==
  UNION {{dm.interval : dm \in Range(stage)} : stage \in Range(ms.stages)}

(***************************************************************************)
(* The partition of the MultiStage's intervals, reversed when the loop    *)
(* order is Backward.                                                      *)
(***************************************************************************)
\* Variant: the piece order is reversed for a Forward instead of a Backward loop.
PartitionIntervalsSwapped(ms, K) ==
  LET p == Partition(Ranges(MsIntervals(ms), K))
  IN IF ms.order = "Forward" THEN Reverse(p) ELSE p

PartitionIntervals(ms, K) ==
  LET p == Partition(Ranges(MsIntervals(ms), K))
  IN IF ms.order = "Backward" THEN Reverse(p) ELSE p

(***************************************************************************)
(* One loop block of Stage st for a piece: the statements of every         *)
(* DoMethod of the Stage whose interval overlaps the piece, in order; a    *)
(* DoMethod that does not overlap is skipped, the block is opened anyway.  *)
(***************************************************************************)
StageLoop(m, piece, st, stage, K) ==
  Item("loop", m, piece, st,
       FlattenSeq([d \in DOMAIN stage |->
                     IF Overlaps(stage[d].interval, MakeInterval(Bound("Start", piece[1]),
                                                                 Bound("Start", piece[2])), K)
                       THEN stage[d].stmts ELSE <<>>]))

EmitMultiStage(m, ms, K) ==
  LET P == PartitionIntervals(ms, K)
  IN FlattenSeq([p \in DOMAIN P |->
                   [st \in DOMAIN ms.stages |-> StageLoop(m, P[p], st, ms.stages[st], K)]])

\* The run() method of a stencil: every MultiStage in order, then sync_storages().
EmitRunMethod(stencil, K) ==
  FlattenSeq([m \in DOMAIN stencil |-> EmitMultiStage(m, stencil[m], K)]) \o <<SyncItem>>

(***************************************************************************)
(* generateStencilClasses: one stencil class, with its run() method, per   *)
(* stencil that is not empty.                                              *)
(***************************************************************************)
\* Variant: an empty stencil is not skipped and gets a class of its own.
GenerateStencilClassesNoSkip(K) ==
  /\ ksize = 0
  /\ ksize' = K
  /\ run' = [i \in DOMAIN stencils |-> EmitRunMethod(stencils[i], K)]
  /\ UNCHANGED stencils

GenerateStencilClasses(K) ==
  /\ ksize = 0
  /\ ksize' = K
  /\ run' = [i \in {j \in DOMAIN stencils : stencils[j] # <<>>} |-> EmitRunMethod(stencils[i], K)]
  /\ UNCHANGED stencils

-----------------------------------------------------------------------------
(***************************************************************************)
(* The IIRs the optimizer hands to the generator: a stencil with one       *)
(* MultiStage of up to MaxStages Stages, alone or after an empty stencil.  *)
(* The DoMethods of a Stage have intervals that never overlap, whatever    *)
(* the domain size.                                                        *)
(***************************************************************************)
Disjoint(a, b) == \A K \in DomainSizes : Upper(a, K) < Lower(b, K)

StageShapes ==
  {<<iv>> : iv \in Intervals} \cup {<<a, b>> \in Intervals \X Intervals : Disjoint(a, b)}

MultiStages ==
  {[order |-> o,
    stages |-> [st \in DOMAIN shape |->
                  [d \in DOMAIN shape[st] |-> [interval |-> shape[st][d], stmts |-> << <<st, d>> >>]]]] :
     o \in LoopOrders, shape \in UNION {[1..n -> StageShapes] : n \in 0..MaxStages}}

Init ==
  /\ \E ms \in MultiStages : stencils \in {<< <<ms>> >>, << <<>>, <<ms>> >>}
  /\ ksize = 0
  /\ run = <<>>

Next == \E K \in DomainSizes : GenerateStencilClasses(K)

Spec == Init /\ [][Next]_vars

-----------------------------------------------------------------------------
(* The loop blocks of MultiStage m in the run() of stencil i, in emission order. *)
Loops(i, m) == SelectSeq(run[i], LAMBDA it : it.kind = "loop" /\ it.ms = m)

Generated == ksize # 0

TypeOK ==
  /\ ksize \in {0} \cup DomainSizes
  /\ DOMAIN run = IF Generated THEN {i \in DOMAIN stencils : stencils[i] # <<>>} ELSE {}
  /\ \A i \in DOMAIN run : \A x \in DOMAIN run[i] : run[i][x].kind \in {"loop", "sync"}

(***************************************************************************)
(* A Forward MultiStage visits the levels from the bottom up, a Backward   *)
(* one from the top down: every loop block of a later piece comes after    *)
(* every block of an earlier piece in the vertical order, so the          *)
(* sequential k-dependency is kept (the std::reverse at line 340).         *)
(***************************************************************************)
LevelOrderRespected ==
  Generated =>
    \A i \in DOMAIN run : \A m \in DOMAIN stencils[i] :
      LET L == Loops(i, m)
          order == stencils[i][m].order
      IN \A x, y \in DOMAIN L : x < y =>
           /\ order = "Forward"  => L[x].piece[1] <= L[y].piece[1]
           /\ order = "Backward" => L[x].piece[1] >= L[y].piece[1]

(***************************************************************************)
(* Each statement runs once per run() of its stencil at each level of its  *)
(* DoMethod's interval (spec.md, sections 4.4 and 8).  With no k loop in   *)
(* the emitted code a block runs once, so each statement must sit in       *)
(* exactly one block; the loop over partition pieces (lines 343-360) puts  *)
(* a DoMethod that overlaps two pieces into two blocks.                    *)
(***************************************************************************)
StatementsRunOnce ==
  \A i \in DOMAIN run : \A m \in DOMAIN stencils[i] :
    \A st \in DOMAIN stencils[i][m].stages : \A d \in DOMAIN stencils[i][m].stages[st] :
      LET L == Loops(i, m)
      IN Cardinality({x \in DOMAIN L : <<st, d>> \in Range(L[x].stmts)}) = 1

(***************************************************************************)
(* Spec.md, section 4.4: a horizontal loop nest is opened only for a Stage *)
(* whose interval overlaps the piece, so no emitted loop is empty.         *)
(***************************************************************************)
NoEmptyLoopNests ==
  \A i \in DOMAIN run : \A x \in DOMAIN run[i] :
    run[i][x].kind = "loop" => run[i][x].stmts # <<>>

(***************************************************************************)
(* Spec.md, section 4.4: a sync barrier is emitted before and after each   *)
(* stencil's full run.                                                     *)
(***************************************************************************)
SyncAroundRun ==
  \A i \in DOMAIN run :
    Len(run[i]) > 0 /\ run[i][1].kind = "sync" /\ run[i][Len(run[i])].kind = "sync"
=============================================================================
