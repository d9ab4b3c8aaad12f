------------------------- MODULE ControlFlowReplacing -------------------------
(***************************************************************************)
(* The control-flow descriptor of a StencilInstantiation and the pass      *)
(* replaceStencilCalls (src/dawn/Optimizer/Replacing.cpp) that rewrites    *)
(* it when a stencil is split into several stencils.                       *)
(*                                                                         *)
(* The descriptor is an ordered list of top-level statements; a statement  *)
(* is a stencil call, a boundary-condition declaration or a block of       *)
(* statements.  Statements are nodes of an arena addressed by number, as   *)
(* the shared_ptr nodes of the AST are addressed by pointer.  The metadata *)
(* binds every stencil-call statement to the stencil it runs               *)
(* (StencilMetaInformation::addStencilCallStmt).                           *)
(***************************************************************************)
EXTENDS Naturals, Sequences, SequencesExt

CONSTANTS
  InitialStencils, \* stencil IDs the front end's calls run
  NumTopLevel,     \* number of top-level statements of the descriptor
  MaxNodes,        \* bound on allocated statement nodes
  MaxUID,          \* bound on UIDs handed out by UIDGenerator
  MaxSplit         \* the most stencils one stencil is split into

ASSUME InitialStencils \subseteq Nat /\ NumTopLevel \in Nat \ {0}
ASSUME MaxSplit \in Nat \ {0} /\ MaxUID \in Nat /\ MaxNodes \in Nat

VARIABLES
  cf,              \* ControlFlowDescriptor::getStatements(): top-level node ids
  node,            \* node id -> [kind, children]
  stencilCallToID, \* metadata: stencil-call node -> stencil ID
  nextNode,        \* next fresh node id (make_shared of a new statement)
  nextUID          \* UIDGenerator: next fresh stencil ID

vars == <<cf, node, stencilCallToID, nextNode, nextUID>>

Kinds == {"call", "block", "bc"}
NodeIds == 1..MaxNodes
StencilIDs == InitialStencils \cup ((Max(InitialStencils) + 1)..MaxUID)

(***************************************************************************)
(* The state the pass works on, as one record, so that the loops of the   *)
(* pass can be written as folds over it.                                   *)
(***************************************************************************)
State == [cf |-> cf, node |-> node, meta |-> stencilCallToID, next |-> nextNode]

(***************************************************************************)
(* GetStencilCalls: the forwarding visitor collects, depth first and in    *)
(* source order, every stencil call of a statement bound to `id`.          *)
(***************************************************************************)
RECURSIVE CallsIn(_, _, _)
CallsIn(s, n, id) ==
  CASE s.node[n].kind = "call"  -> IF s.meta[n] = id THEN <<n>> ELSE <<>>
    [] s.node[n].kind = "block" ->
         FlattenSeq([k \in DOMAIN s.node[n].children |-> CallsIn(s, s.node[n].children[k], id)])
    [] OTHER -> <<>>

(***************************************************************************)
(* One placeholder call statement per new stencil ID, bundled in a new     *)
(* block statement: the block is node `blk`, its calls blk+1 .. blk+n.     *)
(***************************************************************************)
\* Variant: the placeholder calls are bundled in reverse order.
NewCallBlockReversed(blk, newIDs) ==
  [m \in blk..(blk + Len(newIDs)) |->
     IF m = blk
       THEN [kind |-> "block", children |-> [k \in 1..Len(newIDs) |-> blk + Len(newIDs) + 1 - k]]
       ELSE [kind |-> "call", children |-> <<>>]]

NewCallBlock(blk, newIDs) ==
  [m \in blk..(blk + Len(newIDs)) |->
     IF m = blk
       THEN [kind |-> "block", children |-> [k \in 1..Len(newIDs) |-> blk + k]]
       ELSE [kind |-> "call", children |-> <<>>]]

(* `stmt = newBlockStmt`: the top-level slot itself is the call. *)
ReplaceTopLevel(s, i, blk) == [s.cf EXCEPT ![i] = blk]

(* replaceOldStmtWithNewStmtInStmt: the call is replaced in its parent. *)
ReplaceNested(nodes, old, blk) ==
  [m \in DOMAIN nodes |->
     [nodes[m] EXCEPT !.children = ReplaceAll(@, old, blk)]]

(* eraseStencilCallStmt(old), then addStencilCallStmt(new_i, newIDs[i]). *)
RebindCalls(meta, old, blk, newIDs) ==
  [m \in (DOMAIN meta \ {old}) \cup {blk + k : k \in 1..Len(newIDs)} |->
     IF m \in DOMAIN meta /\ m # old THEN meta[m] ELSE newIDs[m - blk]]

\* Variant: a nested call is not replaced in its parent (the else branch lost).
ReplaceCallTopLevelOnly(s, i, c, newIDs) ==
  LET blk == s.next
  IN [cf   |-> IF c = s.cf[i] THEN ReplaceTopLevel(s, i, blk) ELSE s.cf,
      node |-> s.node @@ NewCallBlock(blk, newIDs),
      meta |-> RebindCalls(s.meta, c, blk, newIDs),
      next |-> blk + Len(newIDs) + 1]

\* Variant: the new block is made once per pass, before the loops.
ReplaceCallOneBlock(s, i, c, newIDs) ==
  LET blk == nextNode
      nodes == s.node @@ NewCallBlock(blk, newIDs)
  IN [cf   |-> IF c = s.cf[i] THEN ReplaceTopLevel(s, i, blk) ELSE s.cf,
      node |-> IF c = s.cf[i] THEN nodes ELSE ReplaceNested(nodes, c, blk),
      meta |-> RebindCalls(s.meta, c, blk, newIDs),
      next |-> nextNode + Len(newIDs) + 1]

(* One iteration of the inner loop: replace the collected call `c` of slot i. *)
ReplaceCall(s, i, c, newIDs) ==
  LET blk   == s.next
      nodes == s.node @@ NewCallBlock(blk, newIDs)
  IN [cf   |-> IF c = s.cf[i] THEN ReplaceTopLevel(s, i, blk) ELSE s.cf,
      node |-> IF c = s.cf[i] THEN nodes ELSE ReplaceNested(nodes, c, blk),
      meta |-> RebindCalls(s.meta, c, blk, newIDs),
      next |-> blk + Len(newIDs) + 1]

(* One iteration of the outer loop: visitor.reset(), collect, replace each. *)
ReplaceInSlot(s, i, oldID, newIDs) ==
  FoldLeft(LAMBDA t, c : ReplaceCall(t, i, c, newIDs), s, CallsIn(s, s.cf[i], oldID))

\* n successive calls of StencilInstantiation::nextUID(): the next n UIDs.
NextUIDs(n) == [k \in 1..n |-> nextUID + k - 1]

(***************************************************************************)
(* replaceStencilCalls(instantiation, oldStencilID, newStencilIDs).  The   *)
(* new IDs are fresh UIDs: the caller creates the new stencils with        *)
(* nextUID() before it replaces the calls.                                 *)
(***************************************************************************)
ReplaceStencilCalls(oldID, n) ==
  LET newIDs == NextUIDs(n)
      t == FoldLeft(LAMBDA s, i : ReplaceInSlot(s, i, oldID, newIDs), State,
                    [k \in 1..Len(cf) |-> k])
  IN /\ nextUID + n - 1 <= MaxUID
     /\ t.next - 1 <= MaxNodes
     /\ cf' = t.cf
     /\ node' = t.node
     /\ stencilCallToID' = t.meta
     /\ nextNode' = t.next
     /\ nextUID' = nextUID + n

(***************************************************************************)
(* The descriptor the front end produces: top-level stencil calls and      *)
(* boundary-condition declarations, each call registered in the metadata. *)
(***************************************************************************)
Init ==
  \E stmt \in [1..NumTopLevel -> InitialStencils \cup {0}] :  \* 0: a boundary condition
    /\ cf = [i \in 1..NumTopLevel |-> i]
    /\ node = [i \in 1..NumTopLevel |->
                 [kind |-> IF stmt[i] = 0 THEN "bc" ELSE "call", children |-> <<>>]]
    /\ stencilCallToID = [i \in {j \in 1..NumTopLevel : stmt[j] # 0} |-> stmt[i]]
    /\ nextNode = NumTopLevel + 1
    /\ nextUID = Max(InitialStencils) + 1

Next == \E oldID \in StencilIDs, n \in 1..MaxSplit : ReplaceStencilCalls(oldID, n)

Spec == Init /\ [][Next]_vars

-----------------------------------------------------------------------------
(***************************************************************************)
(* The stencils the generated run() method executes, in order: the        *)
(* control-flow visitor walks every top-level statement depth first and    *)
(* emits a run of the stencil each call statement is bound to.             *)
(***************************************************************************)
Unbound == 0

RECURSIVE RunsOf(_)
RunsOf(n) ==
  CASE node[n].kind = "call"  ->
         <<IF n \in DOMAIN stencilCallToID THEN stencilCallToID[n] ELSE Unbound>>
    [] node[n].kind = "block" -> FlattenSeq([k \in DOMAIN node[n].children |-> RunsOf(node[n].children[k])])
    [] OTHER -> <<>>

RunOrder == FlattenSeq([i \in DOMAIN cf |-> RunsOf(cf[i])])

(* Every node reachable from the descriptor, with repetitions, depth first. *)
RECURSIVE NodesOf(_)
NodesOf(n) ==
  <<n>> \o FlattenSeq([k \in DOMAIN node[n].children |-> NodesOf(node[n].children[k])])

Reachable == FlattenSeq([i \in DOMAIN cf |-> NodesOf(cf[i])])

LiveCalls == {n \in Range(Reachable) : node[n].kind = "call"}

-----------------------------------------------------------------------------
(***************************************************************************)
(* The metadata binds exactly the call statements the descriptor still     *)
(* holds: after any sequence of replacements no live call is unbound and   *)
(* no binding names a call that was replaced (Replacing.cpp 161-174).      *)
(***************************************************************************)
CallBindingsExact == DOMAIN stencilCallToID = LiveCalls

(***************************************************************************)
(* The descriptor stays a tree: no statement node is reachable twice, so   *)
(* replacing one occurrence of a call never changes another place of the  *)
(* control flow.                                                           *)
(***************************************************************************)
ControlFlowIsTree == IsInjective(Reachable)

(***************************************************************************)
(* Refinement: the pass implements the abstract specification in which   *)
(* each run of the old stencil becomes the runs of the new stencils, in   *)
(* the given order, and every other run is left where it was.              *)
(***************************************************************************)
Abstract == INSTANCE StencilRunOrder WITH runOrder <- RunOrder, nextUID <- nextUID

RefinesRunOrder == Abstract!Spec
=============================================================================
