------------------------ MODULE StencilFunctionEmission ------------------------
(***************************************************************************)
(* Code generation of the naive ico backend as generateCode drives it      *)
(* (src/dawn/CodeGen/CXXNaive-ico/CXXNaiveCodeGen.cpp): every              *)
(* StencilInstantiation of the context, in the map's order, goes through   *)
(* generateStencilInstantiation, which may first emit the stencil          *)
(* functions (generateStencilFunctions) and then the stencil classes and   *)
(* the wrapper; generateCode returns no translation unit when the code of  *)
(* an instantiation is empty.                                              *)
(*                                                                         *)
(* generateStencilFunctions walks the StencilFunctionInstantiations, emits *)
(* one static method per distinct code-generation name, and reports an     *)
(* error and returns on the first one without callee fields.  Its call in  *)
(* generateStencilInstantiation (line 81) is commented out:                *)
(* EmitStencilFunctions is FALSE for the code as it is, TRUE for the code  *)
(* with that call in effect.                                               *)
(***************************************************************************)
EXTENDS Naturals, Sequences, SequencesExt

CONSTANTS
  Instantiations,       \* the context's instantiation names, in map order
  FunNames,             \* code-generation names of stencil functions
  MaxFuns,              \* the most stencil-function instantiations of one
  EmitStencilFunctions  \* whether generateStencilInstantiation calls it

VARIABLES
  funs,       \* instantiation -> its StencilFunctionInstantiations
  cur,        \* index of the instantiation being generated
  pc,         \* "start", "functions", "classes" or "done"
  idx,        \* position in the stencil-function loop
  generated,  \* generatedStencilFun: names already emitted
  emitted,    \* the static methods emitted: [inst, name]
  diags,      \* the errors reported: [inst, loc]
  code,       \* instantiation -> emitted code is non-empty
  tu          \* "none" while running, then "produced" or "null"

vars == <<funs, cur, pc, idx, generated, emitted, diags, code, tu>>

(***************************************************************************)
(* A StencilFunctionInstantiation: its code-generation name, whether it    *)
(* has callee fields and whether it returns a value.  Instantiations with  *)
(* the same code-generation name are instantiations of the same function   *)
(* on the same interval and have the same fields.                          *)
(***************************************************************************)
FunSeqs ==
  UNION {{[k \in 1..n |-> [name |-> names[k]] @@ props[names[k]]] :
            names \in [1..n -> FunNames],
            props \in [FunNames -> [hasFields : BOOLEAN, hasReturn : BOOLEAN]]} :
         n \in 0..MaxFuns}

Inst == Instantiations[cur]

Init ==
  /\ funs \in [Range(Instantiations) -> FunSeqs]
  /\ cur = 1
  /\ pc = "start"
  /\ idx = 1
  /\ generated = {}
  /\ emitted = <<>>
  /\ diags = <<>>
  /\ code = [i \in {} |-> TRUE]
  /\ tu = "none"

StartInstantiation ==
  /\ pc = "start"
  /\ pc' = IF EmitStencilFunctions THEN "functions" ELSE "classes"
  /\ idx' = 1
  /\ generated' = {}
  /\ UNCHANGED <<funs, cur, emitted, diags, code, tu>>

(***************************************************************************)
(* One iteration of the loop of generateStencilFunctions.  A name already  *)
(* emitted is skipped; a function without callee fields reports an error   *)
(* at the stencil's location and returns from generateStencilFunctions;    *)
(* otherwise its static method is added.                                   *)
(***************************************************************************)
(* A name already emitted is skipped: emplace(name).second is false. *)
SkipGenerated == idx' = idx + 1 /\ UNCHANGED <<generated, emitted, diags, pc>>

(* A new name: the error without callee fields, else its static method. *)
\* Variant: only the check after addMemberFunction (fields empty and no return).
EmitNewFunctionLateCheck(f) ==
  /\ emitted' = Append(emitted, [inst |-> Inst, name |-> f.name])
  /\ IF ~f.hasFields /\ ~f.hasReturn
       THEN diags' = Append(diags, [inst |-> Inst, loc |-> "function"]) /\ pc' = "classes" /\ UNCHANGED idx
       ELSE idx' = idx + 1 /\ UNCHANGED <<diags, pc>>

EmitNewFunction(f) ==
  IF ~f.hasFields
    THEN diags' = Append(diags, [inst |-> Inst, loc |-> "stencil"]) /\ pc' = "classes" /\ UNCHANGED <<emitted, idx>>
    ELSE emitted' = Append(emitted, [inst |-> Inst, name |-> f.name]) /\ idx' = idx + 1 /\ UNCHANGED <<diags, pc>>

EmitStencilFunction ==
  LET f == funs[Inst][idx]
  IN /\ pc = "functions"
     /\ idx <= Len(funs[Inst])
     /\ IF f.name \in generated
          THEN SkipGenerated
          ELSE generated' = generated \cup {f.name} /\ EmitNewFunction(f)
     /\ UNCHANGED <<funs, cur, code, tu>>

\* The loop ends after the last StencilFunctionInstantiation.
StencilFunctionsDone ==
  /\ pc = "functions"
  /\ idx > Len(funs[Inst])
  /\ pc' = "classes"
  /\ UNCHANGED <<funs, cur, idx, generated, emitted, diags, code, tu>>

(***************************************************************************)
(* The rest of generateStencilInstantiation: stencil classes, wrapper      *)
(* members, constructor, globals API and run method are emitted inside the *)
(* namespaces, so the code returned is never empty.  generateCode stores   *)
(* it and moves on to the next instantiation; after the last one it        *)
(* returns the translation unit.                                           *)
(***************************************************************************)
FinishInstantiation ==
  /\ pc = "classes"
  /\ code' = code @@ (Inst :> TRUE)
  /\ IF cur = Len(Instantiations)
       THEN /\ pc' = "done"
            /\ tu' = IF \A i \in DOMAIN code' : code'[i] THEN "produced" ELSE "null"
            /\ UNCHANGED cur
       ELSE /\ pc' = "start"
            /\ cur' = cur + 1
            /\ UNCHANGED tu
  /\ UNCHANGED <<funs, idx, generated, emitted, diags>>

Next ==
  \/ StartInstantiation
  \/ EmitStencilFunction
  \/ StencilFunctionsDone
  \/ FinishInstantiation

Spec == Init /\ [][Next]_vars

-----------------------------------------------------------------------------
(***************************************************************************)
(* Reference: the names generateStencilFunctions should emit for           *)
(* instantiation i: each distinct name once, at its first occurrence, up   *)
(* to the first function without callee fields, which is reported.        *)
(***************************************************************************)
FirstOccurrence(fs, k) == \A j \in 1..(k - 1) : fs[j].name # fs[k].name

Fieldless(i) == {k \in DOMAIN funs[i] : ~funs[i][k].hasFields}

StopAt(i) == IF Fieldless(i) = {} THEN Len(funs[i]) + 1 ELSE Min(Fieldless(i))

ExpectedNames(i) ==
  LET ks == SelectSeq([k \in 1..(StopAt(i) - 1) |-> k],
                      LAMBDA k : FirstOccurrence(funs[i], k))
  IN [x \in DOMAIN ks |-> funs[i][ks[x]].name]

EmittedNames(i) ==
  LET es == SelectSeq(emitted, LAMBDA e : e.inst = i)
  IN [x \in DOMAIN es |-> es[x].name]

(***************************************************************************)
(* The static methods generateStencilFunctions emits (lines 370-463) are   *)
(* at every moment a prefix of the distinct names in first-occurrence      *)
(* order, cut before the first function without fields; once the          *)
(* instantiation is finished they are exactly that list, and an error was  *)
(* reported for it exactly when such a function exists.  This catches a    *)
(* lost dedup, a check placed after addMemberFunction, a set of generated  *)
(* names carried over from the previous instantiation, and an early exit.  *)
(***************************************************************************)
EmittedExactlyTheValidPrefix ==
  \A i \in Range(Instantiations) :
    /\ IsPrefix(EmittedNames(i), ExpectedNames(i))
    /\ i \in DOMAIN code =>
         /\ EmittedNames(i) = ExpectedNames(i)
         /\ (\E d \in Range(diags) : d.inst = i) <=> Fieldless(i) # {}

(***************************************************************************)
(* Every stencil function an instantiation uses gets a callable, unless    *)
(* an error was reported for that instantiation (spec.md, section 4.4).    *)
(***************************************************************************)
EveryStencilFunctionEmitted ==
  tu # "none" =>
    \A i \in Range(Instantiations) :
      (\A d \in Range(diags) : d.inst # i) =>
        \A k \in DOMAIN funs[i] : [inst |-> i, name |-> funs[i][k].name] \in Range(emitted)
=============================================================================
