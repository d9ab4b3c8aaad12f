# TLA+ models of the Dawn stencil compiler

This directory holds TLA+ models of the parts of Dawn in `src/`. The models
cover the optimizer's rewrite passes over the IIR, the naive C++ (ico)
code generator, and the CUDA kernel generated for horizontal diffusion. TLC checks each model's safety properties, and one model is
also checked against an abstract specification. Every definition that models
code is listed in `PROJECT.json` under `map`, with the source lines it
translates.

## The system

Dawn lowers a stencil program to loop code. The parts present in `src/` are:

| Part | Source | State it changes |
|---|---|---|
| Rewrite passes | `src/dawn/Optimizer/Replacing.cpp` | statement ASTs; the metadata maps expression → AccessID and stencil call → stencil ID |
| StencilInstantiation | `src/dawn/IIR/StencilInstantiation.{h,cpp}` | the IIR, the metadata, the stencil-function instantiations, the UID counter |
| Statement mapper | `src/dawn/Optimizer/StatementMapper.h` (declaration only) | a stack of scopes during lowering |
| Naive ico code generator | `src/dawn/CodeGen/CXXNaive-ico/CXXNaiveCodeGen.cpp` | the emitted text: stencil classes, their `run()`, the wrapper |
| AST printers | `src/dawn/CodeGen/CXXNaive/ASTStencil{Body,Desc}.h`, `GridTools/ASTStencilBody.h` | an output stream (declarations only, apart from `ijkfyOffset`) |
| Test fixtures | `src/test/integration-test/GenerateInMemoryStencils.cpp` | the copy and Laplacian IIRs built in memory |
| Generated CUDA sample | `src/examples/python/data/hori_diff_ref.cpp` | the CUDA backend's output for horizontal diffusion: a kernel whose thread blocks share a Laplacian cache, and its launch |

Two more parts matter to the code generator but are not in `src/`:

- the Interval type and its partition;
- the IIR node classes (Stencil, MultiStage, Stage, DoMethod);
- the statement mapper's visitor bodies (the class declaration is in `src/`).

They are modelled from `spec.md` and marked `spec_modelled`.

How the parts interact:

1. The front end produces a StencilInstantiation. It holds:
   - the IIR tree, Stencil → MultiStage → Stage → DoMethod → statements;
   - the control-flow descriptor, the sequence of stencil calls;
   - the metadata.
2. While lowering, the statement mapper turns each vertical region into
   (statement, accesses) pairs and gives every access an AccessID. It
   instantiates each stencil function a region calls.
3. Optimizer passes split stencils. `replaceStencilCalls` then rewrites the
   control flow, with the new stencil IDs taken from `nextUID()`.
4. The passes move values between fields and local variables with
   `replaceFieldWithVarAccessInStmts` and `replaceVarWithFieldAccessInStmts`.
5. The code generator walks the final tree and emits one class per non-empty
   stencil. Each class has a `run()` that loops over the interval partition of
   every MultiStage. The wrapper's `run()` calls the stencils in control-flow
   order.

The compiler is single-threaded (spec.md §5). Its hard behaviours are
therefore long sequences of legal rewrites, not interleavings:

- a visitor's collected nodes are used after the tree they came from has
  changed;
- a split is applied to stencils that are themselves products of a split;
- intervals touch at a boundary level;
- the loop order reverses the partition.

The code it generates for the CUDA backend is concurrent. In
`hori_diff_ref.cpp` the threads of a block share `lap_ijcache`, and two
`__syncthreads` per vertical level order their stores and loads.

## Modules

| Module | Models | State ↔ code |
|---|---|---|
| `StencilRunOrder` | abstract spec: what a split does to the run order | `runOrder` is the sequence of stencils the wrapper runs; `nextUID` is the UID counter |
| `ControlFlowReplacing` | `replaceStencilCalls`, `GetStencilCalls` | `cf` is the descriptor's top-level statements; `node` is an arena of statement nodes (call, block, boundary condition); `stencilCallToID` is the metadata; `nextNode` stands for `make_shared`; `nextUID` is `UIDGenerator` |
| `AccessRewriting` | `replaceFieldWithVarAccessInStmts`, `replaceVarWithFieldAccessInStmts`, `GetFieldAndVarAccesses` | `stmts` holds each statement's access expressions in visiting order; `expr` maps a node to its kind, name and offset; `exprToAccessID` is the metadata |
| `Interval` | Interval resolution, `overlaps`, `computePartition` (spec-modelled) | operators only |
| `StencilFunctionEmission` | `generateCode`, `generateStencilInstantiation`, `generateStencilFunctions` | `funs` holds each instantiation's StencilFunctionInstantiations (name, has fields, has return); `cur`, `pc` and `idx` are the positions of the generateCode loop, the generation phase and the function loop; `generated` is `generatedStencilFun`; `emitted` and `diags` are the methods added and the errors reported; `tu` is generateCode's result |
| `StatementMapper` | the statement mapper's traversal (spec-modelled from spec.md 4.2; `Scope` follows `StatementMapper.h`) | `ast` is the vertical region's statements; `work` is the visitor's recursion as a stack of frames; `scopes` is `scope_`; each scope holds its field map, variable map and `ArgumentIndex`; `cands` is `CandiateScopes`; `calls` records each StencilFunctionInstantiation's function, caller and arguments; `pairs` are the StatementAccessesPairs per DoMethod; `accesses` are the AccessIDs given; `nextID` is the UID generator (fields hold IDs 1..n) |
| `NaiveCodeGen` | `generateStencilClasses` | `stencils` is the IIR; `ksize` is the vertical domain size; `run` is the emitted `run()` of each stencil, as a sequence of loop blocks and sync calls; a block is labelled with the partition piece it was emitted for, but runs over the triangles only, since no k loop is emitted (`makeKLoop` is commented out, lines 49-57) |
| `StencilWrapper` | the stencil class constructors of `generateStencilClasses`, `generateStencilWrapperMembers`, `generateStencilWrapperCtr`, `generateStencilWrapperRun`, `isIDAccessedMultipleStencils` | `stencils` is the IIR's stencils, each the sequence of its fields; `apiFields` and `globals` are the metadata; `pc` follows the four calls of `generateStencilInstantiation` (lines 83-91); `classes` holds each emitted class's constructor parameters, `members` the wrapper's declared members, `ctorParams` and `inits` the wrapper constructor, `runCalls` the members `run()` calls |
| `IjkfyOffset` | `ASTStencilBody::ijkfyOffset` | `offsets` and `accessName` are the argument, `context` the visitor's stencil context, `res` each rendered index as its parts (axis prefix, offset, parameter-offset term) |
| `HoriDiffKernel` | `hori_diff_stencil41_ms54_kernel` and the launch in `stencil_41::run()` | `blk` is `blockIdx`; `pc` and `k` are each thread's place in the k loop (before phase 1, at the first barrier, before phase 2, at the second barrier, done) and its level; `cache` is `lap_ijcache`, each entry the cell whose Laplacian it holds or `Undef`; `out` is the bag of writes to `out`, each with the five cache values it read |
| `MC_ControlFlowReplacing`, `MC_NaiveCodeGen`, `MC_StencilFunctionEmission`, `MC_StatementMapper`, `MC_StencilWrapper`, `MC_IjkfyOffset`, `MC_HoriDiffKernel` | model values for TLC | — |

Each C++ function is modelled by one action that does the whole call,
including every loop, replacement and metadata update in it. The loops over
statements and collected nodes are `FoldLeft`s over a record of the state.

The initial states are states the program can actually be in:

- **ControlFlowReplacing:** every descriptor of `NumTopLevel` top-level calls
  and boundary conditions, as the front end registers them.
- **AccessRewriting:** the two stencils that `GenerateInMemoryStencils.cpp`
  builds, with their offsets and AccessIDs.
- **StencilFunctionEmission:** two instantiations in the context. Each has
  up to two StencilFunctionInstantiations over two names. A name fixes
  whether the function has fields and a return value.
- **NaiveCodeGen:** every MultiStage of up to two Stages over five typical
  intervals, in all three loop orders. Each Stage has one DoMethod or two
  DoMethods with disjoint intervals. The stencil comes alone or after an empty
  stencil.
- **StatementMapper:** every body of two statements from a pool of ten. The
  pool's statements include calls of one- and two-parameter functions, a
  call inside a block, and a function that calls another. They also include
  variables declared at top level and in functions, and inputs for each
  fatal error: an unknown field, variable or argument, a wrong argument
  count, and a function without fields.
- **StencilWrapper:** one to three stencils over the fields `in`, `tmp`,
  `out`, each using any non-empty set of them or emptied by the optimizer;
  any set of API fields. A field used by two stencils is an inter-stencil
  temporary (`isIDAccessedMultipleStencils`), one used by a single stencil
  and not an API field is a stencil-local temporary. The code-generation
  properties name every stencil (spec.md section 6 (a)).

## Runs

| Run | Checks | Result |
|---|---|---|
| `control_flow_replacing` | `CallBindingsExact`, `ControlFlowIsTree`, `RefinesRunOrder` | passes, 5,617 states |
| `access_rewriting` | `AccessBindingsExact`, `IdentitiesPreserved` | passes, 527,994 states |
| `access_round_trip` | `FieldOffsetsPreserved` | violated (finding) |
| `naive_codegen` | `TypeOK`, `LevelOrderRespected` | passes, 1,314 states |
| `naive_codegen_statements_once` | `StatementsRunOnce` | violated (finding) |
| `naive_codegen_empty_loops` | `NoEmptyLoopNests` | violated (finding) |
| `naive_codegen_sync` | `SyncAroundRun` | violated (finding) |
| `stencil_functions` | `EmittedExactlyTheValidPrefix`, `EveryStencilFunctionEmitted` | passes, 20,335 states |
| `stencil_functions_as_is` | `EveryStencilFunctionEmitted` | violated (finding) |
| `statement_mapper` | `TypeOK`, `FieldsResolveThroughCallChain`, `StatementsInTheirDoMethods`, `VariablesLocalToInstantiation` | passes, 1,340 states |
| `stencil_wrapper` | `TypeOK`, `StencilCtorCallsMatch`, `WrapperNamesDeclared`, `TemporariesShared` | passes, 23,360 states |
| `hori_diff_kernel` | `TypeOK`, `OutputExact`, `LaunchCoversDomain`, `ReadsWithinExtent`, `BarriersAligned` | passes, 393,216 states, about 1 min 10 s |

A module's `TypeOK` is checked only where a plausible bug of the code can
break it. The type invariants of the node arenas (`ControlFlowReplacing`,
`AccessRewriting`) and of the generation loop (`StencilFunctionEmission`)
state only the model's own bookkeeping, so they are not checked.

What the passing runs show:

- **Call metadata after splits.** Any sequence of splits keeps the metadata
  binding exactly the live call statements.
- **Run order after splits.** The control flow stays a tree. The stencils the
  wrapper runs change exactly as the abstract spec says: each run of the old
  stencil becomes the runs of the new ones, in order. `RefinesRunOrder`
  instantiates `StencilRunOrder` with `runOrder <- RunOrder`. `RunOrder` is the
  depth-first walk of `generateStencilWrapperRun`.
- **Access rewrites.** Any sequence of rewrites over any range of statements
  leaves every position of every statement bound to the AccessID the front
  end gave it. Nothing else stays bound.
- **Emitted `run()`.** A class is emitted for each non-empty stencil
  only. Its loop blocks come piece by piece, ascending for a Forward
  MultiStage and descending for a Backward one (the reverse at line 340).
  This is the order in which the generator walks the pieces. The blocks
  have no k range, so nothing is checked about the levels a statement runs
  at; `naive_codegen_statements_once` shows what the missing k loop does.
- **Stencil-function emission.** This is checked with the call at line 81
  in effect. At every step, the methods `generateStencilFunctions` has
  emitted for an instantiation are a prefix of a declarative reference:
  the distinct names in first-occurrence order, cut before the first
  function without fields. Once the instantiation is finished they equal
  it, and an error was reported exactly when such a function exists.
  Every function of an instantiation without an error is emitted.
- **Statement mapping.** Each argument of a stencil-function call is bound
  to the parameter at its position. Every field access in a function body
  then resolves to the top-level field that the chain of callers passes.
  The reference for this is the recursive `TopLevelOf`. Each
  DoMethod receives its own leaf statements, depth first. A function never
  sees its caller's variables.
- **Wrapper class.** Without globals, every initialiser the wrapper
  constructor writes calls a stencil class constructor with exactly the
  parameters that class declares. Every name the constructor and `run()`
  use is a declared member or constructor parameter. A temporary used by
  two or more stencils is handed to each of them as the one wrapper storage
  `m_<name>`. Emptied stencils are among the inputs, so the two skips
  (lines 147 and 237) are exercised.
- **The hori_diff CUDA kernel.** One thread block, for every block of the
  launch grid, with all interleavings of its threads between the barriers:
  - `OutputExact`: every `out` value is computed from the Laplacians of
    its own cell and its four neighbours at its own level, and each cell of
    the block's tile is written exactly once;
  - `ReadsWithinExtent`: every cached Laplacian reads `in` within ±2 of the
    domain in i and j;
  - `LaunchCoversDomain`: the grid of `run()` tiles the domain exactly,
    although `nbz` is computed from `m_dom.ksize()` and the kernel bounds k
    by `nz`;
  - `BarriersAligned`: while a thread waits at a `__syncthreads`, every
    other thread of the block waits at the same barrier of the same level or
    is still on its way to it. This is CUDA's rule that a barrier is reached
    by the whole block. A block that breaks it waits forever or releases
    early. It is stated as an invariant so that TLC reports a broken barrier
    after a short prefix of the interleavings;
  - `TypeOK`: among others, every cache index stays inside `lap_ijcache`.

A mutant in `PROJECT.json` checks each property. A mutant replaces one
definition by a plausible bug, and TLC then reports the property violated.
The mutants are:

- a visitor not reset between statements;
- metadata insert and erase swapped;
- nested calls not replaced;
- one block shared by every replacement;
- the placeholder calls in reverse order;
- the reverse applied to Forward instead of Backward;
- an empty stencil not skipped;
- the field check placed after `addMemberFunction`;
- the name set kept across instantiations;
- in the statement mapper:
  - the argument counter not reset after a call;
  - arguments bound zero-based;
  - a pair appended to the stage's DoMethod instead of the function's;
  - a variable lookup that falls back to enclosing scopes;
- in the wrapper:
  - no `m_meta_data` member for the temporaries;
  - stencil classes taking temporaries as parameters;
  - the `m_` prefix dropped for an inter-stencil temporary;
  - `isIDAccessedMultipleStencils` not setting its flag;
- in the CUDA kernel:
  - the cache index without its `+1` halo shift;
  - the second `__syncthreads` dropped, so a fast thread's store for level
    k+1 overwrites what a slow thread still reads for level k;
  - the first-phase guard without the halo, so a neighbour is read from
    uninitialised shared memory;
  - `nbx` rounded down;
  - `block_size_i` not clamped in the partial last block;
  - a barrier inside the first guard; the threads outside the guard skip it and
    run ahead while the others wait.

## Findings

- **Round trip loses offsets.** `replaceVarWithFieldAccessInStmts` creates
  `FieldAccessExpr(fieldname)` at offset zero (`Replacing.cpp:101`), and the
  forward rewrite drops offsets as well (line 78). Demoting the field `in`
  in the Laplacian's first statement and promoting it back turns its four
  reads at ±2 into four reads of `in[0,0]`. spec.md §8 says the round trip gives the same accesses at
  the same offsets. TLC needs two rewrites to show it.
- **Empty loops.** A triangle loop is opened for every Stage of every piece
  (`CXXNaiveCodeGen.cpp:349`), even when no DoMethod of the Stage overlaps
  the piece. In TLC's example, with three levels, Stage 1 on
  `[Start,Start]` and Stage 2 on `[Start,End-1]` give the pieces `[0,0]`
  and `[1,1]`, and Stage 1 gets an empty loop over all triangles for
  `[1,1]`. spec.md §4.4 opens loops only for overlapping Stages.
- **Sync only after the run.** The `sync_storages()` call before the
  MultiStages is commented out (line 317), and the method's body is empty.
  spec.md §4.4 asks for a barrier before and after.
- **Statements run once per piece.** The per-piece loop of
  `generateStencilClasses` (lines 343-360) was written for a k loop around
  each block, but `makeKLoop` is commented out (lines 49-57). A DoMethod
  whose interval overlaps two pieces is emitted into two triangle loops,
  and its statements run twice per `run()`. In TLC's example, Stage 2 on
  `[Start,End-1]` after Stage 1 on `[Start,Start]` is emitted for the pieces
  `[0,0]` and `[1,1]`. spec.md §§4.4 and 8 have each statement run once at
  each level of its interval.
- **No stencil functions.** As the code is, line 81 is commented out. The ico
  backend emits no stencil function and never reports the error.

### Further configurations

These configurations reproduce results that the run list in
`PROJECT.json` does not carry:

- `MC_StencilWrapperGlobals.cfg` (`StencilCtorCallsMatch`, violated): with
  a non-empty global-variable map, `generateStencilWrapperCtr` initialises
  each stencil as `m_<stencil>(mesh,m_globals,...)` (lines 157-160). The
  stencil class constructor takes the mesh and the fields only; its globals
  argument is commented out (lines 263-265, 284-286). The generated wrapper
  does not compile.
- `MC_StencilWrapperEmpty.cfg` (`StencilMembersComplete`, violated): a member
  is declared for every stencil of the code-generation properties (line
  200), but an emptied stencil gets no class (line 237) and no initialiser
  (line 147). `computeCodeGenProperties` is not in the sources; the result
  holds if it names every stencil, as spec.md section 6 says.
- `IjkfyOffset.tla` renders offset strings; no listed run checks it, and
  the `ijkfyOffset` it models has no caller in the sources.
- `MC_IjkfyOffset.cfg` (`TypeOK`, `RenderedAsSpecified`, passes, 312
  states): offsets of one to three components render as `i+`, `j+`, `k+`
  and the offset, plus `+<name>_offsets[n]` inside a stencil function.
- `MC_IjkfyOffsetFour.cfg` (`RenderedAsSpecified`, violated): `ijkfyOffset`
  guards `indices[n]` with `n < 4`, but `indices` has three entries. For a
  four-component offset it reads past the array. That read is undefined
  behaviour, modelled as a choice of outcomes.

## Bounds and why they are enough

- **ControlFlowReplacing:**
  - 3 top-level statements and 2 initial stencils, so two calls of one
    stencil occur, as do a boundary condition and another stencil's call;
  - splits into 1 or 2 stencils;
  - `MaxUID = 7`, which allows two or three successive splits, including a
    split of a stencil that a split produced; that split replaces a nested
    call in a block;
  - `MaxNodes = 13`.
- **AccessRewriting:**
  - `MaxNodes = 20`: the Laplacian has 10 nodes, and a full demotion and
    promotion of `tmp` (1 + 4 accesses) allocates 10 more. The copy stencil
    fits ten rewrites. Each rewrite allocates fresh nodes in the order of the
    steps, so every order of rewrites is a distinct state; 24 nodes is past
    TLC's reach;
  - statement ranges cover one statement and both.
- **StencilFunctionEmission:** two instantiations, two names, and at most two
  functions per instantiation. This covers:
  - a duplicate name in one instantiation;
  - an error after a function was emitted;
  - an error before a valid function;
  - a name shared by both instantiations, which catches a name set kept too
    long.
- **StatementMapper:** two statements per body are enough for two calls
  of the same scope, the case the argument counter must be reset for. They
  are also enough for a variable declared in one statement and used in the
  next. A nesting depth of two (`outer` calls `avg`) exercises the chain
  of callers. The mapping is deterministic, so the state space is the sum
  of the 100 traversals.
- **NaiveCodeGen:**
  - domain sizes 3 and 4;
  - five intervals: whole column, bottom level, top level, without bottom,
    without top. These make every case of touching, nested and equal
    intervals, in every loop order.

- **HoriDiffKernel:** the generated code fixes a tile of 32 x 4 with
  32 x 8 threads and 4 levels per block. The model takes the same code
  with a tile of 3 x 1 (5 x 3 threads: the tile rows with the halo rows
  above and below them, and the two halo columns) and 2 levels per block.
  The thread map needs `BI >= BJ + 2` so that the halo columns reach every
  row. A domain of nx = 4, ny = 1 gives a full and a partial block in i.
  Two levels in k show the cache reused across levels. `kplus = 1` makes
  the grid, counted from `ksize`, one block longer than `nz` needs. The 15
  threads interleave freely between the barriers.
- **StencilWrapper:** three stencils over three fields. This gives a
  temporary shared by two stencils and one by three, next to stencil-local
  temporaries, API fields and emptied stencils in every position.

## Fairness

All models state safety only, so no fairness is assumed. The kernel's
barrier discipline is checked as the invariant `BarriersAligned`. A
liveness form, "every thread leaves the k loop" under weak fairness, would
also hold, but TLC reports its violations only after exploring the whole
state space.
Their operations are single terminating calls, and their `Next` relations
stop at the bounds. The runs say `CHECK_DEADLOCK FALSE` because a compilation performs finitely many
passes and generates code once.

## Not modelled yet, and the plan

1. **StencilInstantiation bookkeeping** (`StencilInstantiation.cpp`).
   `makeStencilFunctionInstantiation` is part of `StatementMapper`'s call
   mapping, and `nextUID` of `ControlFlowReplacing`. Five functions have no
   caller in the sources: `insertBoundaryConditions`,
   `isIDAccessedMultipleMSs`, `getGlobalVariableValue`,
   `getOriginalNameFromAccessID` and `clone`. An
   action for any of them would change state that no modelled operation
   reads, so nothing could be checked about it. They can be modelled when
   the passes that call them are in the sources.
2. **Statement mapper, further:** arguments that are themselves
   stencil-function calls, `if` statements, and the vertical interval a
   scope carries.
3. **The wrapper with globals:** `generateGlobalsAPI` is not in the
   sources.

Also out of scope:

- `jsonDump`, `dump`, `reportAccesses`: output only;
- the AST printers: string formatting (`ijkfyOffset` is modelled, see above);
- the host side of `hori_diff_ref.cpp` (timers, `sync_storages`, the
  class layout and the unused temporary storage `m_lap`). The kernel and
  its launch are modelled in `HoriDiffKernel`.
- `ijkfyOffset`'s read past the index array has no caller in the sources.
  The ico backend includes `CXXNaive-ico/ASTStencilBody.h`, which is not
  in `src/`, and every offset in the repository is an `Array3i`.
