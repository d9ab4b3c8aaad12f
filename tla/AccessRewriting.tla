--------------------------- MODULE AccessRewriting ---------------------------
(***************************************************************************)
(* The statements of a stencil, the metadata that binds every access       *)
(* expression to its AccessID, and the two rewrites of                     *)
(* src/dawn/Optimizer/Replacing.cpp that turn the accesses of one AccessID *)
(* from field accesses into variable accesses and back.                    *)
(*                                                                         *)
(* A statement is the sequence of its access expressions in the order the  *)
(* AST visitor meets them (an assignment's left side first, then the      *)
(* operands from left to right); operators and literals carry no          *)
(* identifier and are left out.  Expressions are nodes of an arena, as     *)
(* the shared_ptr expressions of the AST; the metadata maps a node to its  *)
(* AccessID (StencilMetaInformation::insertExprToAccessID).                *)
(***************************************************************************)
EXTENDS Integers, Sequences, SequencesExt

CONSTANTS
  MaxNodes      \* bound on allocated expression nodes

VARIABLES
  stmts,           \* the StatementAccessesPairs' statements, in order
  expr,            \* node -> [kind |-> "field" | "var", name, offset |-> <<i, j, k>>]
  exprToAccessID,  \* metadata: expression node -> AccessID
  nextNode         \* next fresh node (make_shared of a new expression)

vars == <<stmts, expr, exprToAccessID, nextNode>>

Zero == <<0, 0, 0>>
Field(name, off) == [kind |-> "field", name |-> name, offset |-> off]
Var(name) == [kind |-> "var", name |-> name, offset |-> Zero]

(***************************************************************************)
(* The stencils the integration test builds in memory                      *)
(* (GenerateInMemoryStencils.cpp): the copy stencil                        *)
(* out_field = in_field, and the two-stage Laplacian                       *)
(* tmp = in[0,-2] + in[0,2] + in[-2,0] + in[2,0];                          *)
(* out = tmp[0,-1] + tmp[0,1] + tmp[-1,0] + tmp[1,0].                      *)
(* Each is [stmts, expr, ids]; the AccessIDs are named after the fields.   *)
(***************************************************************************)
CopyStencil ==
  [stmts |-> << <<1, 2>> >>,
   expr  |-> (1 :> Field("out_field", Zero)) @@ (2 :> Field("in_field", Zero)),
   ids   |-> (1 :> "out_field") @@ (2 :> "in_field")]

LapStencil ==
  LET offs == <<Zero, <<0, -2, 0>>, <<0, 2, 0>>, <<-2, 0, 0>>, <<2, 0, 0>>,
                Zero, <<0, -1, 0>>, <<0, 1, 0>>, <<-1, 0, 0>>, <<1, 0, 0>> >>
      ids  == [n \in 1..10 |-> CASE n = 1 -> "tmp" [] n <= 5 -> "in"
                                  [] n = 6 -> "out" [] OTHER -> "tmp"]
  IN [stmts |-> << <<1, 2, 3, 4, 5>>, <<6, 7, 8, 9, 10>> >>,
      expr  |-> [n \in 1..10 |-> Field(ids[n], offs[n])],
      ids   |-> ids]

Fixtures == {CopyStencil, LapStencil}

AccessIDs == UNION {Range(f.ids) : f \in Fixtures}

Init ==
  \E f \in Fixtures :
    /\ stmts = f.stmts
    /\ expr = f.expr
    /\ exprToAccessID = f.ids
    /\ nextNode = Len(f.expr) + 1

-----------------------------------------------------------------------------
(***************************************************************************)
(* GetFieldAndVarAccesses: the accesses of statement j of the given       *)
(* kind whose AccessID is `id`, in visiting order.                         *)
(***************************************************************************)
AccessesToReplace(s, j, kind, id) ==
  SelectSeq(s.stmts[j], LAMBDA n : s.expr[n].kind = kind /\ s.ids[n] = id)

(***************************************************************************)
(* The whole inner loop for one statement: every collected expression      *)
(* gets a fresh node of the new kind (nodes nextNode, nextNode+1, ... in  *)
(* collection order) that replaces it in the statement                     *)
(* (replaceOldExprWithNewExprInStmt), is bound to `id`                     *)
(* (insertExprToAccessID) and the old one is unbound (eraseExprToAccessID).*)
(* `old` is the sequence the visitor collected, `newExpr` the new node.    *)
(***************************************************************************)
\* Variant: insert and erase swapped, so the old node is bound, the new one not.
ReplaceExprsSwapped(s, j, old, id, newExpr) ==
  LET fresh(k) == s.next + k - 1
      pos(n)   == CHOOSE k \in DOMAIN old : old[k] = n
      newNodes == {fresh(k) : k \in DOMAIN old}
  IN [stmts |-> [s.stmts EXCEPT ![j] = [p \in DOMAIN s.stmts[j] |->
                   IF s.stmts[j][p] \in Range(old) THEN fresh(pos(s.stmts[j][p]))
                   ELSE s.stmts[j][p]]],
      expr  |-> s.expr @@ [n \in newNodes |-> newExpr],
      ids   |-> s.ids,
      next  |-> s.next + Len(old)]

ReplaceExprsInStmt(s, j, old, id, newExpr) ==
  LET fresh(k) == s.next + k - 1
      pos(n)   == CHOOSE k \in DOMAIN old : old[k] = n
      renamed  == [p \in DOMAIN s.stmts[j] |->
                     IF s.stmts[j][p] \in Range(old) THEN fresh(pos(s.stmts[j][p]))
                     ELSE s.stmts[j][p]]
      newNodes == {fresh(k) : k \in DOMAIN old}
  IN [stmts |-> [s.stmts EXCEPT ![j] = renamed],
      expr  |-> s.expr @@ [n \in newNodes |-> newExpr],
      ids   |-> [n \in (DOMAIN s.ids \ Range(old)) \cup newNodes |->
                   IF n \in newNodes THEN id ELSE s.ids[n]],
      next  |-> s.next + Len(old)]

State == [stmts |-> stmts, expr |-> expr, ids |-> exprToAccessID, next |-> nextNode]

(* Make the state the new value of the variables, within the node bound. *)
Commit(t) ==
  /\ t.next - 1 <= MaxNodes
  /\ stmts' = t.stmts
  /\ expr' = t.expr
  /\ exprToAccessID' = t.ids
  /\ nextNode' = t.next

(***************************************************************************)
(* replaceFieldWithVarAccessInStmts(metadata, stencil, AccessID, varname,  *)
(* statementAccessesPairs) over the statements lo..hi: every field access  *)
(* of AccessID becomes a VarAccessExpr(varname), which has no offset.      *)
(***************************************************************************)
\* Variant: the visitor is not reset between statements, so the expressions
\* collected from earlier statements are replaced again.
ReplaceFieldWithVarNoReset(id, varname, lo, hi) ==
  LET step(acc, j) ==
        LET old == acc.seen \o AccessesToReplace(acc.s, j, "field", id)
        IN [s |-> ReplaceExprsInStmt(acc.s, j, old, id, Var(varname)), seen |-> old]
  IN Commit(FoldLeft(step, [s |-> State, seen |-> <<>>],
                     [k \in 1..(hi - lo + 1) |-> lo + k - 1]).s)

ReplaceFieldWithVarAccessInStmts(id, varname, lo, hi) ==
  Commit(FoldLeft(LAMBDA s, j :
                    ReplaceExprsInStmt(s, j, AccessesToReplace(s, j, "field", id), id, Var(varname)),
                  State, [k \in 1..(hi - lo + 1) |-> lo + k - 1]))

(***************************************************************************)
(* replaceVarWithFieldAccessInStmts(..., fieldname, ...): every variable   *)
(* access of AccessID becomes a FieldAccessExpr(fieldname), at offset 0.   *)
(***************************************************************************)
ReplaceVarWithFieldAccessInStmts(id, fieldname, lo, hi) ==
  Commit(FoldLeft(LAMBDA s, j :
                    ReplaceExprsInStmt(s, j, AccessesToReplace(s, j, "var", id), id,
                                       Field(fieldname, Zero)),
                  State, [k \in 1..(hi - lo + 1) |-> lo + k - 1]))

StmtRanges == {<<lo, hi>> \in (DOMAIN stmts) \X (DOMAIN stmts) : lo <= hi}

(* The pass names the local variable of a field after it; the field is    *)
(* given back its registered name.                                         *)
VarName(id) == "local_" \o id

Next ==
  \E id \in AccessIDs, r \in StmtRanges :
    \/ ReplaceFieldWithVarAccessInStmts(id, VarName(id), r[1], r[2])
    \/ ReplaceVarWithFieldAccessInStmts(id, id, r[1], r[2])

Spec == Init /\ [][Next]_vars

-----------------------------------------------------------------------------
LiveExprs == UNION {Range(stmts[j]) : j \in DOMAIN stmts}

(* The fixture the run started from: the one with the same statement count. *)
Original == CHOOSE f \in Fixtures : Len(f.stmts) = Len(stmts)

(***************************************************************************)
(* The metadata binds exactly the expressions the statements still hold:   *)
(* no access is left without an AccessID and no binding outlives the       *)
(* expression it was made for, after any sequence of rewrites.             *)
(***************************************************************************)
AccessBindingsExact == DOMAIN exprToAccessID = LiveExprs

(***************************************************************************)
(* A rewrite changes how a value is accessed, never which value: every    *)
(* position of every statement still refers to the AccessID the front end  *)
(* gave it.                                                                *)
(***************************************************************************)
IdentitiesPreserved ==
  \A j \in DOMAIN stmts :
    /\ Len(stmts[j]) = Len(Original.stmts[j])
    /\ \A p \in DOMAIN stmts[j] :
         /\ stmts[j][p] \in DOMAIN exprToAccessID
         /\ exprToAccessID[stmts[j][p]] = Original.ids[Original.stmts[j][p]]

(***************************************************************************)
(* Round trip: turning the field accesses of an AccessID into variable     *)
(* accesses and back gives the same field accesses, at the same offsets,  *)
(* as before (spec.md, section 8).  Every field access is at the offset    *)
(* the front end gave that position.                                       *)
(***************************************************************************)
FieldOffsetsPreserved ==
  \A j \in DOMAIN stmts : \A p \in DOMAIN stmts[j] :
    expr[stmts[j][p]].kind = "field" =>
      expr[stmts[j][p]].offset = Original.expr[Original.stmts[j][p]].offset
=============================================================================
