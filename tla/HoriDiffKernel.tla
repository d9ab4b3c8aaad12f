--------------------------- MODULE HoriDiffKernel ---------------------------
(***************************************************************************)
(* The CUDA code the dawn CUDA backend generates for the horizontal        *)
(* diffusion example (src/examples/python/data/hori_diff_ref.cpp): the    *)
(* launch of stencil_41::run() and one thread block of the kernel          *)
(* hori_diff_stencil41_ms54_kernel.                                        *)
(*                                                                         *)
(* A block of BI x (BJ+4) threads computes a BI x BJ tile of the output    *)
(* over up to KB levels.  At every level each thread first stores the      *)
(* Laplacian of its cell in the shared cache lap_ijcache, which holds the  *)
(* tile with a halo of one cell (threads of rows BJ+2 and BJ+3 stand for   *)
(* the left and right halo columns); after a __syncthreads the threads of  *)
(* the tile read the Laplacians of their four neighbours from the cache    *)
(* and write out; a second __syncthreads ends the level.                   *)
(*                                                                         *)
(* The generated code has BI = 32, BJ = 4, KB = 4, and a cache row of     *)
(* BI + 2 = 34 cells.  A value is abstracted to the cell whose Laplacian   *)
(* it is; a linear index idx111 to the cell it addresses.                  *)
(***************************************************************************)
EXTENDS Integers, Sequences, FiniteSets, Bags

CONSTANTS
  BI, BJ,       \* the block's tile: 32 x 4
  KB,           \* levels per block in k: 4
  NX, NY,       \* nx, ny: the compute domain in i and j
  KSize,        \* m_dom.ksize()
  KMinus, KPlus \* m_dom.kminus(), m_dom.kplus()

ASSUME BI >= BJ + 2 /\ BJ >= 1 /\ KB >= 1 /\ NX >= 1 /\ NY >= 1
ASSUME KSize >= KMinus + KPlus + 1

VARIABLES
  blk,    \* <<blockIdx.x, blockIdx.y, blockIdx.z>> of the block
  pc,     \* thread -> "loop", "sync1", "read", "sync2" or "done"
  k,      \* thread -> its loop counter k
  cache,  \* lap_ijcache: cache index -> Laplacian held, or Undef
  out     \* the writes to out: a bag of [cell, read]

vars == <<blk, pc, k, cache, out>>

Undef == <<"undef">>   \* uninitialised shared memory

(***************************************************************************)
(* stencil_41::run(): the kernel's sizes and the launch grid.  nbz is      *)
(* computed from m_dom.ksize() while the kernel is given nz.               *)
(***************************************************************************)
NZ == KSize - KMinus - KPlus
\* Variant: the block count rounds down.
NBXFloor == NX \div BI
NBX == (NX + BI - 1) \div BI
NBY == (NY + BJ - 1) \div BJ
NBZ == (KSize + KB - 1) \div KB
Blocks == (0..(NBX - 1)) \X (0..(NBY - 1)) \X (0..(NBZ - 1))

Threads == (0..(BI - 1)) \X (0..(BJ + 3))   \* dim3 threads(32, 4+4, 1)
W == BI + 2                                 \* row length of lap_ijcache
CacheIdx == 0..(W * (BJ + 2) - 1)           \* lap_ijcache[34*6]

(* The size of block b's tile, clamped at the end of the domain. *)
\* Variant: the tile is never clamped.
BlockSizeINoClamp(b) == BI
BlockSizeI(b) == IF (b[1] + 1) * BI < NX THEN BI ELSE NX - b[1] * BI
BlockSizeJ(b) == IF (b[2] + 1) * BJ < NY THEN BJ ELSE NY - b[2] * BJ

(* The levels block b iterates over: kleg_lower_bound..kleg_upper_bound. *)
KLower(b) == IF b[3] * KB > 0 THEN b[3] * KB ELSE 0
KUpper(b) == IF NZ - 1 < (b[3] + 1) * KB - 1 THEN NZ - 1 ELSE (b[3] + 1) * KB - 1

(***************************************************************************)
(* The thread map: <<iblock, jblock>> of thread <<x, y>>.  Rows below      *)
(* BJ+2 cover the tile and the halo rows above and below it; row BJ+2 the  *)
(* left halo column, row BJ+3 the right one (x % 1 = 0, x / 1 = x).        *)
(***************************************************************************)
ThreadMap(t) ==
  IF t[2] < BJ + 2 THEN <<t[1], t[2] - 1>>
  ELSE IF t[2] < BJ + 3 THEN <<-1, t[1] - 1>>
  ELSE <<BI, t[1] - 1>>

(* The global cell of thread t at level kk: idx111. *)
Cell(t, kk) == <<blk[1] * BI + ThreadMap(t)[1], blk[2] * BJ + ThreadMap(t)[2], kk>>

\* Variant: the halo shift of iblock is lost.
CacheIndexNoShift(t) == ThreadMap(t)[1] + (ThreadMap(t)[2] + 1) * W
CacheIndex(t) == ThreadMap(t)[1] + 1 + (ThreadMap(t)[2] + 1) * W

(* The guards of the two phases: the tile with its halo, the tile. *)
\* Variant: the first phase is guarded by the tile without its halo.
WritesCacheNoHalo(t) ==
  /\ ThreadMap(t)[1] \in 0..(BlockSizeI(blk) - 1)
  /\ ThreadMap(t)[2] \in 0..(BlockSizeJ(blk) - 1)
WritesCache(t) ==
  /\ ThreadMap(t)[1] \in -1..BlockSizeI(blk)
  /\ ThreadMap(t)[2] \in -1..BlockSizeJ(blk)
ComputesOut(t) ==
  /\ ThreadMap(t)[1] \in 0..(BlockSizeI(blk) - 1)
  /\ ThreadMap(t)[2] \in 0..(BlockSizeJ(blk) - 1)

(* The cells of in read for the Laplacian of cell c (line 61). *)
LapReads(c) ==
  {c, <<c[1] + 1, c[2], c[3]>>, <<c[1] - 1, c[2], c[3]>>,
      <<c[1], c[2] + 1, c[3]>>, <<c[1], c[2] - 1, c[3]>>}

Init ==
  /\ blk \in Blocks
  /\ pc = [t \in Threads |-> "loop"]
  /\ k = [t \in Threads |-> KLower(blk)]
  /\ cache = [c \in CacheIdx |-> Undef]
  /\ out = EmptyBag

(***************************************************************************)
(* Loop head and first phase (lines 59-62): a thread inside the tile and   *)
(* its halo stores the Laplacian of its cell, then waits at __syncthreads. *)
(***************************************************************************)
\* Variant: threads outside the guard do not reach the barrier.
Phase1SyncInGuard(t) ==
  /\ pc[t] = "loop"
  /\ k[t] <= KUpper(blk)
  /\ IF WritesCache(t)
       THEN cache' = (CacheIndex(t) :> Cell(t, k[t])) @@ cache /\ pc' = [pc EXCEPT ![t] = "sync1"]
       ELSE UNCHANGED cache /\ pc' = [pc EXCEPT ![t] = "read"]
  /\ UNCHANGED <<blk, k, out>>

Phase1(t) ==
  /\ pc[t] = "loop"
  /\ k[t] <= KUpper(blk)
  /\ cache' = IF WritesCache(t) THEN (CacheIndex(t) :> Cell(t, k[t])) @@ cache ELSE cache
  /\ pc' = [pc EXCEPT ![t] = "sync1"]
  /\ UNCHANGED <<blk, k, out>>

(* The loop ends after kleg_upper_bound. *)
Exit(t) ==
  /\ pc[t] = "loop"
  /\ k[t] > KUpper(blk)
  /\ pc' = [pc EXCEPT ![t] = "done"]
  /\ UNCHANGED <<blk, k, cache, out>>

(* __syncthreads(): all threads of the block are released together. *)
Sync1 ==
  /\ \A t \in Threads : pc[t] = "sync1"
  /\ pc' = [t \in Threads |-> "read"]
  /\ UNCHANGED <<blk, k, cache, out>>

(***************************************************************************)
(* Second phase (lines 63-65): a thread of the tile reads its own and its  *)
(* four neighbours' Laplacians from the cache and writes out.              *)
(***************************************************************************)
Reads(t) ==
  LET ix == CacheIndex(t)
  IN <<cache[ix], cache[ix + 1], cache[ix - 1], cache[ix + W], cache[ix - W]>>

Compute(t) ==
  IF ComputesOut(t) THEN out (+) SetToBag({[cell |-> Cell(t, k[t]), read |-> Reads(t)]}) ELSE out

\* Variant: the second __syncthreads is missing; the thread goes on to k+1.
Phase2NoSync(t) ==
  /\ pc[t] = "read"
  /\ out' = Compute(t)
  /\ pc' = [pc EXCEPT ![t] = "loop"]
  /\ k' = [k EXCEPT ![t] = @ + 1]
  /\ UNCHANGED <<blk, cache>>

Phase2(t) ==
  /\ pc[t] = "read"
  /\ out' = Compute(t)
  /\ pc' = [pc EXCEPT ![t] = "sync2"]
  /\ UNCHANGED <<blk, k, cache>>

(* The second __syncthreads(), then ++k and idx111 += stride_111_2. *)
Sync2 ==
  /\ \A t \in Threads : pc[t] = "sync2"
  /\ pc' = [t \in Threads |-> "loop"]
  /\ k' = [t \in Threads |-> k[t] + 1]
  /\ UNCHANGED <<blk, cache, out>>

Next ==
  \/ \E t \in Threads : Phase1(t) \/ Exit(t) \/ Phase2(t)
  \/ Sync1
  \/ Sync2

Spec == Init /\ [][Next]_vars

-----------------------------------------------------------------------------
(* Reference: the compute domain, and the cells in must provide for it:   *)
(* hori_diff reads in at distance 2 in i and j (lap of a neighbour).       *)
Domain == (0..(NX - 1)) \X (0..(NY - 1)) \X (0..(NZ - 1))
Extent == (-2..(NX + 1)) \X (-2..(NY + 1)) \X (0..(NZ - 1))

(* The output cells block b is responsible for: its clamped tile. *)
Tile(b) ==
  {<<b[1] * BI + i, b[2] * BJ + j, kk>> :
     i \in 0..(BlockSizeI(b) - 1), j \in 0..(BlockSizeJ(b) - 1), kk \in KLower(b)..KUpper(b)}

(* The Laplacians out at cell c is computed from, in the order of line 64. *)
Needed(c) ==
  <<c, <<c[1] + 1, c[2], c[3]>>, <<c[1] - 1, c[2], c[3]>>,
       <<c[1], c[2] + 1, c[3]>>, <<c[1], c[2] - 1, c[3]>>>>

AllDone == \A t \in Threads : pc[t] = "done"

TypeOK ==
  /\ blk \in Blocks
  /\ pc \in [Threads -> {"loop", "sync1", "read", "sync2", "done"}]
  /\ k \in [Threads -> KLower(blk)..(KUpper(blk) + 1)]
  /\ DOMAIN cache = CacheIdx

(***************************************************************************)
(* Every out value is computed from the Laplacians of its own cell and its *)
(* four neighbours at its own level, never from a cache cell not yet       *)
(* written at this level or already overwritten for the next one; each    *)
(* cell of the block's tile is written exactly once, and no other cell.   *)
(* The two __syncthreads, the thread map of the halo rows and the cache    *)
(* index all have to be right for this.                                    *)
(***************************************************************************)
OutputExact ==
  /\ \A w \in BagToSet(out) : w.read = Needed(w.cell) /\ CopiesIn(w, out) = 1
  /\ AllDone => {w.cell : w \in BagToSet(out)} = Tile(blk)

(***************************************************************************)
(* The launch of stencil_41::run() and the kernel's clamps cover the       *)
(* compute domain exactly: the running block's tile lies in the domain    *)
(* and overlaps no other block's tile, and the tiles of the grid cover the *)
(* domain, although nbz counts the levels of m_dom.ksize() and the kernel  *)
(* only those of nz.                                                       *)
(***************************************************************************)
LaunchCoversDomain ==
  /\ Tile(blk) \subseteq Domain
  /\ \A b \in Blocks \ {blk} : Tile(b) \cap Tile(blk) = {}
  /\ Domain \subseteq UNION {Tile(b) : b \in Blocks}

(***************************************************************************)
(* Every Laplacian stored in lap_ijcache is computed from cells of in      *)
(* within the stencil's extent: the halo threads of the last, partial      *)
(* block in i or j stop at its clamped end.                                *)
(***************************************************************************)
ReadsWithinExtent ==
  \A c \in CacheIdx : cache[c] # Undef => LapReads(cache[c]) \subseteq Extent

(***************************************************************************)
(* __syncthreads must be reached by every thread of the block (lines 62    *)
(* and 65 sit outside the guards, and the k bounds depend on blockIdx      *)
(* only).  While a thread waits at a barrier, every other thread waits at  *)
(* the same barrier of the same level or is still on its way to it; none   *)
(* has gone past it, left the loop, or waits at the other barrier.         *)
(***************************************************************************)
BarriersAligned ==
  \A t, u \in Threads :
    /\ pc[t] = "sync1" => pc[u] \in {"loop", "sync1"} /\ k[u] = k[t]
    /\ pc[t] = "sync2" => pc[u] \in {"read", "sync2"} /\ k[u] = k[t]
=============================================================================
