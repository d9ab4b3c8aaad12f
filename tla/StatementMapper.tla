--------------------------- MODULE StatementMapper ---------------------------
(***************************************************************************)
(* The StatementMapper (src/dawn/Optimizer/StatementMapper.h) lowers the   *)
(* statements of a vertical region into StatementAccessesPairs and gives   *)
(* every field and variable access its AccessID.  It keeps a stack of      *)
(* Scopes, one per stencil-function call being mapped; a call first gets a *)
(* candidate scope, its arguments are bound to the callee's parameters by  *)
(* position with the caller's argument counter, and then the callee's body *)
(* is mapped in the new scope.  Only the declaration of the class is part  *)
(* of the sources; the traversal follows spec.md, section 4.2.             *)
(*                                                                         *)
(* A statement is a block of statements or a leaf: the sequence of the     *)
(* accesses the visitor meets in it -- a field or variable access, a       *)
(* variable declaration, or a call of a stencil function with field        *)
(* arguments.  The visitor's recursion is an explicit stack of frames.     *)
(***************************************************************************)
EXTENDS Naturals, Sequences, SequencesExt

CONSTANTS
  GlobalFields,  \* the stencil's fields in order; a field's AccessID is its position
  Funs,          \* names of the stencil functions
  Params,        \* function -> its field parameter names, in order
  Body,          \* function -> its statements
  Programs       \* the vertical-region bodies the mapper may be given

VARIABLES
  ast,       \* the vertical region's statements given to the mapper
  work,      \* the visitor's stack of frames, top last
  scopes,    \* scope_: the stack of Scopes, top last
  cands,     \* CandiateScopes: scopes of calls whose arguments are being bound
  calls,     \* instantiation -> [fun, caller, args]: the calls made so far
  pairs,     \* the StatementAccessesPairs appended: [inst, stmt]
  accesses,  \* the accesses mapped: [inst, kind, name, id]
  nextID,    \* next fresh AccessID of a declared variable
  nextInst,  \* next StencilFunctionInstantiation
  pc         \* "map", "done" or the fatal error

vars == <<ast, work, scopes, cands, calls, pairs, accesses, nextID, nextInst, pc>>

NoID == 0
Top == 0   \* the instantiation of the vertical region itself

Frame(f, seq, call) == [f |-> f, seq |-> seq, call |-> call]
NoCall == [k |-> "none", n |-> "none", args |-> <<>>]

(***************************************************************************)
(* Scope(doMethod, interval, stencilFun): its field map, empty variable    *)
(* map, and argument counter 0 (StatementMapper.h, Scope).                 *)
(***************************************************************************)
NewScope(inst, fields) ==
  [inst |-> inst, fields |-> fields, vars |-> [n \in {} |-> 0], argIdx |-> 0]

Cur == Last(scopes)

\* The AccessID the UIDGenerator gave a field of the stencil.
GlobalID(n) == IF n \in Range(GlobalFields) THEN CHOOSE k \in DOMAIN GlobalFields : GlobalFields[k] = n ELSE NoID

\* A field name in the active scope, falling back to the stencil's fields at top level.
FieldID(sc, n) ==
  IF n \in DOMAIN sc.fields THEN sc.fields[n]
  ELSE IF sc.inst = Top THEN GlobalID(n) ELSE NoID

VarID(sc, n) == IF n \in DOMAIN sc.vars THEN sc.vars[n] ELSE NoID

Init ==
  /\ ast \in Programs
  /\ work = << Frame("stmts", ast, NoCall) >>
  /\ scopes = << NewScope(Top, [n \in Range(GlobalFields) |-> GlobalID(n)]) >>
  /\ cands = <<>>
  /\ calls = [i \in {} |-> 0]
  /\ pairs = <<>>
  /\ accesses = <<>>
  /\ nextID = Len(GlobalFields) + 1
  /\ nextInst = 1
  /\ pc = "map"

(* Replace the top frame by the given frames (the last one on top). *)
Continue(frames) == work' = Front(work) \o frames

Top1 == Last(work)
Item == Head(Top1.seq)
Rest == Frame(Top1.f, Tail(Top1.seq), Top1.call)

Fail(e) == pc' = e /\ UNCHANGED <<ast, work, scopes, cands, calls, pairs, accesses, nextID, nextInst>>

(***************************************************************************)
(* Blocks descend depth first; a leaf statement becomes one pair appended  *)
(* to the DoMethod of the active scope, then its accesses are visited.     *)
(***************************************************************************)
\* Variant: the pair goes to the DoMethod of the stage, whatever the active scope.
MapStatementToStage ==
  /\ pc = "map" /\ work # <<>> /\ Top1.f = "stmts" /\ Top1.seq # <<>>
  /\ IF Item.kind = "block"
       THEN Continue(<<Rest, Frame("stmts", Item.body, NoCall)>>) /\ UNCHANGED <<ast, pairs>>
       ELSE /\ Continue(<<Rest, Frame("items", Item.items, NoCall)>>)
            /\ pairs' = Append(pairs, [inst |-> scopes[1].inst, stmt |-> Item.label])
  /\ UNCHANGED <<ast, scopes, cands, calls, accesses, nextID, nextInst, pc>>

MapStatement ==
  /\ pc = "map" /\ work # <<>> /\ Top1.f = "stmts" /\ Top1.seq # <<>>
  /\ IF Item.kind = "block"
       THEN Continue(<<Rest, Frame("stmts", Item.body, NoCall)>>) /\ UNCHANGED <<ast, pairs>>
       ELSE /\ Continue(<<Rest, Frame("items", Item.items, NoCall)>>)
            /\ pairs' = Append(pairs, [inst |-> Cur.inst, stmt |-> Item.label])
  /\ UNCHANGED <<ast, scopes, cands, calls, accesses, nextID, nextInst, pc>>

\* A statement list or a leaf is done.
FinishFrame ==
  /\ pc = "map" /\ work # <<>> /\ Top1.f \in {"stmts", "items"} /\ Top1.seq = <<>>
  /\ work' = Front(work)
  /\ UNCHANGED <<ast, scopes, cands, calls, pairs, accesses, nextID, nextInst, pc>>

(* A field access: resolved in the active scope, else UnknownIdentifier. *)
MapFieldAccess ==
  /\ pc = "map" /\ work # <<>> /\ Top1.f = "items" /\ Top1.seq # <<>> /\ Item.k = "field"
  /\ IF FieldID(Cur, Item.n) = NoID
       THEN Fail("UnknownIdentifier")
       ELSE /\ Continue(<<Rest>>)
            /\ accesses' = Append(accesses, [inst |-> Cur.inst, kind |-> "field",
                                             name |-> Item.n, id |-> FieldID(Cur, Item.n)])
            /\ UNCHANGED <<ast, scopes, cands, calls, pairs, nextID, nextInst, pc>>

(* A variable declaration: a fresh AccessID, registered in the active scope. *)
MapVarDecl ==
  /\ pc = "map" /\ work # <<>> /\ Top1.f = "items" /\ Top1.seq # <<>> /\ Item.k = "decl"
  /\ Continue(<<Rest>>)
  /\ scopes' = [scopes EXCEPT ![Len(scopes)].vars = @ @@ (Item.n :> nextID)]
  /\ accesses' = Append(accesses, [inst |-> Cur.inst, kind |-> "decl", name |-> Item.n, id |-> nextID])
  /\ nextID' = nextID + 1
  /\ UNCHANGED <<ast, cands, calls, pairs, nextInst, pc>>

\* Variant: a variable unknown in the active scope is looked up in the enclosing ones.
MapVarAccessDynamic ==
  /\ pc = "map" /\ work # <<>> /\ Top1.f = "items" /\ Top1.seq # <<>> /\ Item.k = "var"
  /\ LET found == SelectSeq(scopes, LAMBDA sc : VarID(sc, Item.n) # NoID)
     IN IF found = <<>>
          THEN Fail("UnknownIdentifier")
          ELSE /\ Continue(<<Rest>>)
               /\ accesses' = Append(accesses, [inst |-> Cur.inst, kind |-> "var",
                                                name |-> Item.n, id |-> VarID(Last(found), Item.n)])
               /\ UNCHANGED <<ast, scopes, cands, calls, pairs, nextID, nextInst, pc>>

(* A variable access: resolved in the active scope, else UnknownIdentifier. *)
MapVarAccess ==
  /\ pc = "map" /\ work # <<>> /\ Top1.f = "items" /\ Top1.seq # <<>> /\ Item.k = "var"
  /\ IF VarID(Cur, Item.n) = NoID
       THEN Fail("UnknownIdentifier")
       ELSE /\ Continue(<<Rest>>)
            /\ accesses' = Append(accesses, [inst |-> Cur.inst, kind |-> "var",
                                             name |-> Item.n, id |-> VarID(Cur, Item.n)])
            /\ UNCHANGED <<ast, scopes, cands, calls, pairs, nextID, nextInst, pc>>

(***************************************************************************)
(* makeStencilFunctionInstantiation: a new StencilFunctionInstantiation of *)
(* fun, registered in the metadata as a candidate together with the        *)
(* instantiation it is called from (the caller; Top for a call of the      *)
(* vertical region, where curStencilFunctionInstantiation is null).        *)
(***************************************************************************)
MakeStencilFunctionInstantiation(fun, caller, args) ==
  nextInst :> [fun |-> fun, caller |-> caller, args |-> args]

(***************************************************************************)
(* A stencil-function call: the argument count must match the callee's     *)
(* parameters (else ArgumentCountMismatch); a new instantiation and its    *)
(* candidate scope are created, and the arguments are visited next.        *)
(***************************************************************************)
MapCall ==
  /\ pc = "map" /\ work # <<>> /\ Top1.f = "items" /\ Top1.seq # <<>> /\ Item.k = "call"
  /\ IF Len(Item.args) # Len(Params[Item.n])
       THEN Fail("ArgumentCountMismatch")
       ELSE /\ Continue(<<Rest, Frame("args", Item.args, Item)>>)
            /\ cands' = Append(cands, [inst |-> nextInst, binding |-> [k \in {} |-> 0]])
            /\ calls' = calls @@ MakeStencilFunctionInstantiation(Item.n, Cur.inst, Item.args)
            /\ nextInst' = nextInst + 1
            /\ UNCHANGED <<ast, scopes, pairs, accesses, nextID, pc>>

(***************************************************************************)
(* One argument: the field is resolved in the caller's scope and bound to  *)
(* the candidate at the caller's argument counter, which then advances.    *)
(***************************************************************************)
\* Variant: the argument is bound at the counter's value before it advances.
MapArgumentZeroBased ==
  /\ pc = "map" /\ work # <<>> /\ Top1.f = "args" /\ Top1.seq # <<>>
  /\ IF FieldID(Cur, Head(Top1.seq)) = NoID
       THEN Fail("UnknownIdentifier")
       ELSE /\ Continue(<<Rest>>)
            /\ cands' = [cands EXCEPT ![Len(cands)].binding =
                           @ @@ (Cur.argIdx :> FieldID(Cur, Head(Top1.seq)))]
            /\ scopes' = [scopes EXCEPT ![Len(scopes)].argIdx = @ + 1]
            /\ UNCHANGED <<ast, calls, pairs, accesses, nextID, nextInst, pc>>

MapArgument ==
  /\ pc = "map" /\ work # <<>> /\ Top1.f = "args" /\ Top1.seq # <<>>
  /\ IF FieldID(Cur, Head(Top1.seq)) = NoID
       THEN Fail("UnknownIdentifier")
       ELSE /\ Continue(<<Rest>>)
            /\ cands' = [cands EXCEPT ![Len(cands)].binding =
                           @ @@ ((Cur.argIdx + 1) :> FieldID(Cur, Head(Top1.seq)))]
            /\ scopes' = [scopes EXCEPT ![Len(scopes)].argIdx = @ + 1]
            /\ UNCHANGED <<ast, calls, pairs, accesses, nextID, nextInst, pc>>

\* The callee's field map: each parameter to the AccessID bound at its position.
CalleeFields(fun, binding) ==
  [p \in {Params[fun][k] : k \in DOMAIN binding \cap DOMAIN Params[fun]} |->
     binding[CHOOSE k \in DOMAIN Params[fun] : Params[fun][k] = p]]

(***************************************************************************)
(* After the last argument the caller's counter is reset, the candidate   *)
(* scope becomes the active scope and the callee's body is mapped.         *)
(***************************************************************************)
\* Variant: the caller's argument counter is not reset after the arguments.
EnterFunctionNoReset ==
  /\ pc = "map" /\ work # <<>> /\ Top1.f = "args" /\ Top1.seq = <<>>
  /\ LET c == Last(cands)
         fun == Top1.call.n
     IN /\ Continue(<<Frame("return", <<>>, Top1.call), Frame("stmts", Body[fun], NoCall)>>)
        /\ scopes' = Append(scopes, NewScope(c.inst, CalleeFields(fun, c.binding)))
        /\ cands' = Front(cands)
  /\ UNCHANGED <<ast, calls, pairs, accesses, nextID, nextInst, pc>>

EnterFunction ==
  /\ pc = "map" /\ work # <<>> /\ Top1.f = "args" /\ Top1.seq = <<>>
  /\ LET c == Last(cands)
         fun == Top1.call.n
         caller == [Cur EXCEPT !.argIdx = 0]
     IN /\ Continue(<<Frame("return", <<>>, Top1.call), Frame("stmts", Body[fun], NoCall)>>)
        /\ scopes' = Append(Front(scopes) \o <<caller>>, NewScope(c.inst, CalleeFields(fun, c.binding)))
        /\ cands' = Front(cands)
  /\ UNCHANGED <<ast, calls, pairs, accesses, nextID, nextInst, pc>>

(***************************************************************************)
(* The callee's body is done: a function that referenced no field cannot   *)
(* be lowered (EmptyCalleeFieldSet); otherwise its scope is popped.        *)
(***************************************************************************)
ReturnFromFunction ==
  /\ pc = "map" /\ work # <<>> /\ Top1.f = "return"
  /\ IF \A a \in Range(accesses) : ~(a.inst = Cur.inst /\ a.kind = "field")
       THEN Fail("EmptyCalleeFieldSet")
       ELSE /\ work' = Front(work)
            /\ scopes' = Front(scopes)
            /\ UNCHANGED <<ast, cands, calls, pairs, accesses, nextID, nextInst, pc>>

MappingDone ==
  /\ pc = "map" /\ work = <<>>
  /\ pc' = "done"
  /\ UNCHANGED <<ast, work, scopes, cands, calls, pairs, accesses, nextID, nextInst>>

Next ==
  \/ MapStatement \/ FinishFrame
  \/ MapFieldAccess \/ MapVarDecl \/ MapVarAccess
  \/ MapCall \/ MapArgument \/ EnterFunction \/ ReturnFromFunction
  \/ MappingDone

Spec == Init /\ [][Next]_vars
-----------------------------------------------------------------------------
Errors == {"UnknownIdentifier", "ArgumentCountMismatch", "EmptyCalleeFieldSet"}
FrameKinds == {"stmts", "items", "args", "return"}
MaxArgs == Max({Len(Params[f]) : f \in Funs})

TypeOK ==
  /\ pc \in {"map", "done"} \cup Errors
  /\ \A x \in DOMAIN work : work[x].f \in FrameKinds
  /\ Len(scopes) >= 1 /\ scopes[1].inst = Top
  /\ \A x \in DOMAIN scopes : scopes[x].argIdx \in 0..MaxArgs
  /\ DOMAIN calls = 1..(nextInst - 1)
  /\ \A x \in DOMAIN accesses : accesses[x].kind \in {"field", "decl", "var"}

(* The top-level fields a field name stands for in an instantiation: the   *)
(* actual argument at the parameter's position, followed up the callers.   *)
RECURSIVE TopLevelOf(_, _)
TopLevelOf(i, n) ==
  IF i = Top THEN GlobalID(n)
  ELSE LET c == calls[i]
           ks == {k \in DOMAIN Params[c.fun] : Params[c.fun][k] = n}
       IN IF ks = {} THEN NoID ELSE TopLevelOf(c.caller, c.args[CHOOSE k \in ks : TRUE])

(***************************************************************************)
(* Every scope of a stencil-function instantiation binds exactly the       *)
(* callee's parameters, each to the field its actual argument denotes      *)
(* through the chain of callers, and every field access mapped resolves    *)
(* the same way: the positional binding of StencilFunArgExprs with the     *)
(* caller's ArgumentIndex never shifts, drops or crosses an argument.      *)
(***************************************************************************)
FieldsResolveThroughCallChain ==
  /\ \A x \in DOMAIN scopes :
       scopes[x].inst # Top =>
         /\ DOMAIN scopes[x].fields = Range(Params[calls[scopes[x].inst].fun])
         /\ \A p \in DOMAIN scopes[x].fields : scopes[x].fields[p] = TopLevelOf(scopes[x].inst, p)
  /\ \A a \in Range(accesses) : a.kind = "field" => a.id = TopLevelOf(a.inst, a.name)

(* The leaf statements of a statement list, depth first in source order. *)
RECURSIVE Leaves(_)
Leaves(stmts) ==
  FlattenSeq([j \in DOMAIN stmts |->
                IF stmts[j].kind = "block" THEN Leaves(stmts[j].body) ELSE <<stmts[j].label>>])

PairsOf(i) == LET ps == SelectSeq(pairs, LAMBDA pr : pr.inst = i) IN [x \in DOMAIN ps |-> ps[x].stmt]

(***************************************************************************)
(* Each DoMethod receives one pair per leaf statement of its body, depth   *)
(* first in source order: the stage's DoMethod those of the vertical       *)
(* region, each StencilFunctionInstantiation those of its function's body, *)
(* and nothing of a callee lands in the enclosing DoMethod.                *)
(***************************************************************************)
StatementsInTheirDoMethods ==
  /\ IsPrefix(PairsOf(Top), Leaves(ast))
  /\ \A i \in DOMAIN calls : IsPrefix(PairsOf(i), Leaves(Body[calls[i].fun]))
  /\ pc = "done" => PairsOf(Top) = Leaves(ast)

(***************************************************************************)
(* A variable access resolves to a declaration of the same name in the     *)
(* same instantiation: a stencil function never sees the variables of its  *)
(* caller (LocalVarNameToAccessIDMap is per Scope).                        *)
(***************************************************************************)
VariablesLocalToInstantiation ==
  \A a \in Range(accesses) :
    a.kind = "var" =>
      \E d \in Range(accesses) : d.kind = "decl" /\ d.inst = a.inst /\ d.name = a.name /\ d.id = a.id
=============================================================================
