---------------------------- MODULE StencilWrapper ----------------------------
(***************************************************************************)
(* The wrapper class the naive ico backend emits for a StencilInstantiation *)
(* (generateStencilInstantiation, src/dawn/CodeGen/CXXNaive-ico/            *)
(* CXXNaiveCodeGen.cpp): one stencil class per non-empty stencil with its   *)
(* constructor, the wrapper's members, the wrapper's constructor, which     *)
(* takes the API fields and initialises every stencil member, and the       *)
(* wrapper's run().  The code is modelled by the names it declares and the *)
(* argument lists it writes; bodies of run() are NaiveCodeGen's concern.    *)
(*                                                                         *)
(* A stencil is a sequence of MultiStages, each the set of fields it        *)
(* accesses; a stencil without MultiStages is empty.  A field that is not   *)
(* an API field is a temporary: an inter-stencil temporary when more than  *)
(* one stencil accesses it, else a stencil temporary.                       *)
(***************************************************************************)
EXTENDS Naturals, FiniteSets, Sequences, SequencesExt

CONSTANTS
  FieldOrder,      \* the fields, in AccessID order (support::orderMap)
  MaxStencils,     \* the most stencils of an instantiation
  GlobalsChoices,  \* whether the global-variable map may be empty, non-empty
  AllowEmpty       \* whether a stencil may have been emptied by the optimizer

VARIABLES
  stencils,    \* the IIR: stencil (its position = its StencilID) -> MultiStages
  apiFields,   \* the metadata's FAT_APIField accesses
  globals,     \* the global-variable map is non-empty
  pc,          \* the generator function generateStencilInstantiation is in
  classes,     \* stencil ID -> the parameters of its class's constructor
  members,     \* the wrapper's members
  ctorParams,  \* the wrapper constructor's parameters
  inits,       \* the wrapper constructor's initialisers: [target, args]
  runCalls     \* the stencil members the wrapper's run() calls

vars == <<stencils, apiFields, globals, pc, classes, members, ctorParams, inits, runCalls>>

Fields == Range(FieldOrder)

Mem(kind, id, f) == [kind |-> kind, id |-> id, f |-> f]
Arg(kind, f) == [kind |-> kind, f |-> f]
Mesh == Arg("mesh", "none")

StencilFields(s) == UNION Range(s)
IsEmpty(s) == s = <<>>

(***************************************************************************)
(* isIDAccessedMultipleStencils: the loop over the stencils that returns    *)
(* true at the second stencil accessing the field.                          *)
(***************************************************************************)
\* Variant: the flag recording the first access is never set.
IsIDAccessedMultipleStencilsNoFlag(id) ==
  LET step(st, s) ==
        IF st.res \/ id \notin StencilFields(s) THEN st
        ELSE [was |-> st.was, res |-> st.was]
  IN FoldLeft(step, [was |-> FALSE, res |-> FALSE], stencils).res

IsIDAccessedMultipleStencils(id) ==
  LET step(st, s) ==
        IF st.res \/ id \notin StencilFields(s) THEN st
        ELSE [was |-> TRUE, res |-> st.was]
  IN FoldLeft(step, [was |-> FALSE, res |-> FALSE], stencils).res

IsInterStencilTemporary(f) == f \notin apiFields /\ IsIDAccessedMultipleStencils(f)
IsTemporary(f) == f \notin apiFields /\ ~IsIDAccessedMultipleStencils(f)

\* The stencil's fields that are not temporary, in AccessID order.
NonTempFields(s) == SelectSeq(FieldOrder, LAMBDA f : f \in StencilFields(s) /\ ~IsTemporary(f))

NonEmptyIDs == {i \in DOMAIN stencils : ~IsEmpty(stencils[i])}
InterStencilTemporaries == {f \in Fields : IsInterStencilTemporary(f)}

(***************************************************************************)
(* The IIRs the optimizer hands over: up to MaxStencils stencils of one     *)
(* MultiStage accessing at least one field, or empty ones where allowed.    *)
(***************************************************************************)
StencilShapes ==
  {<<fs>> : fs \in SUBSET Fields \ {{}}} \cup (IF AllowEmpty THEN {<<>>} ELSE {})

Init ==
  /\ stencils \in UNION {[1..n -> StencilShapes] : n \in 1..MaxStencils}
  /\ apiFields \in SUBSET Fields
  /\ globals \in GlobalsChoices
  /\ pc = "classes"
  /\ classes = [i \in {} |-> <<>>]
  /\ members = {}
  /\ ctorParams = <<>>
  /\ inits = <<>>
  /\ runCalls = <<>>

(***************************************************************************)
(* generateStencilClasses: an empty stencil is skipped; every other gets a  *)
(* class whose constructor takes the mesh and its non-temporary fields.     *)
(***************************************************************************)
\* Variant: the class constructor also takes the stencil's temporaries.
GenerateStencilClassesWithTemps ==
  /\ pc = "classes"
  /\ classes' = [i \in NonEmptyIDs |->
                   <<Mesh>> \o [k \in DOMAIN SelectSeq(FieldOrder, LAMBDA f : f \in StencilFields(stencils[i])) |->
                                  Arg("field", SelectSeq(FieldOrder, LAMBDA f : f \in StencilFields(stencils[i]))[k])]]
  /\ pc' = "members"
  /\ UNCHANGED <<stencils, apiFields, globals, members, ctorParams, inits, runCalls>>

GenerateStencilClasses ==
  /\ pc = "classes"
  /\ classes' = [i \in NonEmptyIDs |->
                   <<Mesh>> \o [k \in DOMAIN NonTempFields(stencils[i]) |->
                                  Arg("field", NonTempFields(stencils[i])[k])]]
  /\ pc' = "members"
  /\ UNCHANGED <<stencils, apiFields, globals, members, ctorParams, inits, runCalls>>

(***************************************************************************)
(* computeCodeGenProperties (CodeGen.cpp, not part of the sources) names    *)
(* one stencil per stencil of the IIR (spec.md, section 6 (a)).             *)
(***************************************************************************)
StencilPropertyIDs == DOMAIN stencils

(***************************************************************************)
(* generateStencilWrapperMembers: s_name, m_globals when there are globals, *)
(* one member per stencil of the code-generation properties, and the meta   *)
(* data and one storage per inter-stencil temporary.                        *)
(***************************************************************************)
\* Variant: the storages of inter-stencil temporaries are not declared.
GenerateStencilWrapperMembersNoTmp ==
  /\ pc = "members"
  /\ members' = {Mem("s_name", 0, "none")}
                \cup (IF globals THEN {Mem("globals", 0, "none")} ELSE {})
                \cup {Mem("stencil", i, "none") : i \in StencilPropertyIDs}
  /\ pc' = "ctr"
  /\ UNCHANGED <<stencils, apiFields, globals, classes, ctorParams, inits, runCalls>>

GenerateStencilWrapperMembers ==
  /\ pc = "members"
  /\ members' = {Mem("s_name", 0, "none")}
                \cup (IF globals THEN {Mem("globals", 0, "none")} ELSE {})
                \cup {Mem("stencil", i, "none") : i \in StencilPropertyIDs}
                \cup (IF InterStencilTemporaries # {}
                        THEN {Mem("meta_data", 0, "none")}
                             \cup {Mem("field", 0, f) : f \in InterStencilTemporaries}
                        ELSE {})
  /\ pc' = "ctr"
  /\ UNCHANGED <<stencils, apiFields, globals, classes, ctorParams, inits, runCalls>>

(***************************************************************************)
(* generateStencilWrapperCtr: the mesh and every API field are parameters;  *)
(* each non-empty stencil's member is initialised with the mesh, m_globals *)
(* when there are globals, and its non-temporary fields, an inter-stencil   *)
(* temporary as the wrapper's storage m_<name>, any other by its parameter. *)
(* The storages of the inter-stencil temporaries are initialised last.      *)
(***************************************************************************)
\* Variant: an inter-stencil temporary is passed by its name instead of as m_<name>.
StencilInitNoMemberPrefix(i) ==
  [target |-> Mem("stencil", i, "none"),
   args |-> <<Mesh>> \o (IF globals THEN <<Arg("globals", "none")>> ELSE <<>>)
            \o [k \in DOMAIN NonTempFields(stencils[i]) |-> Arg("param", NonTempFields(stencils[i])[k])]]

StencilInit(i) ==
  [target |-> Mem("stencil", i, "none"),
   args |-> <<Mesh>> \o (IF globals THEN <<Arg("globals", "none")>> ELSE <<>>)
            \o [k \in DOMAIN NonTempFields(stencils[i]) |->
                  LET f == NonTempFields(stencils[i])[k]
                  IN IF IsInterStencilTemporary(f) THEN Arg("member", f) ELSE Arg("param", f)]]

TmpInits ==
  [k \in DOMAIN SelectSeq(FieldOrder, IsInterStencilTemporary) |->
     [target |-> Mem("field", 0, SelectSeq(FieldOrder, IsInterStencilTemporary)[k]),
      args |-> <<Arg("member", "meta_data")>>]]

GenerateStencilWrapperCtr ==
  /\ pc = "ctr"
  /\ ctorParams' = <<Mesh>> \o [k \in DOMAIN SelectSeq(FieldOrder, LAMBDA f : f \in apiFields) |->
                                  Arg("param", SelectSeq(FieldOrder, LAMBDA f : f \in apiFields)[k])]
  /\ inits' = [k \in DOMAIN SetToSortSeq(NonEmptyIDs, <) |-> StencilInit(SetToSortSeq(NonEmptyIDs, <)[k])]
              \o TmpInits
  /\ pc' = "run"
  /\ UNCHANGED <<stencils, apiFields, globals, classes, members, runCalls>>

(***************************************************************************)
(* generateStencilWrapperRun: one run() of the stencil member per stencil   *)
(* call of the control flow, which calls every stencil once, in order.      *)
(***************************************************************************)
GenerateStencilWrapperRun ==
  /\ pc = "run"
  /\ runCalls' = [k \in DOMAIN stencils |-> Mem("stencil", k, "none")]
  /\ pc' = "done"
  /\ UNCHANGED <<stencils, apiFields, globals, classes, members, ctorParams, inits>>

Next ==
  \/ GenerateStencilClasses
  \/ GenerateStencilWrapperMembers
  \/ GenerateStencilWrapperCtr
  \/ GenerateStencilWrapperRun

Spec == Init /\ [][Next]_vars
-----------------------------------------------------------------------------
Phases == {"classes", "members", "ctr", "run", "done"}

TypeOK ==
  /\ pc \in Phases
  /\ apiFields \subseteq Fields
  /\ DOMAIN classes \subseteq DOMAIN stencils
  /\ \A x \in DOMAIN inits : inits[x].target \in {m \in members : m.kind \in {"stencil", "field"}}
       \/ pc \in {"classes", "members"}

(* The argument a initialiser passes fits the constructor parameter p. *)
Passes(a, p) ==
  \/ p.kind = "mesh" /\ a.kind = "mesh"
  \/ p.kind = "field" /\ a.kind \in {"member", "param"} /\ a.f = p.f

(***************************************************************************)
(* The wrapper constructor calls each stencil class's constructor with the  *)
(* arguments it declares, one for one and in order: the initialiser of      *)
(* generateStencilWrapperCtr (lines 155-171) and the constructor of         *)
(* generateStencilClasses (lines 276-291) walk the same fields.             *)
(***************************************************************************)
StencilCtorCallsMatch ==
  \A x \in DOMAIN inits :
    inits[x].target.kind = "stencil" =>
      LET id == inits[x].target.id
          args == inits[x].args
      IN /\ id \in DOMAIN classes
         /\ Len(args) = Len(classes[id])
         /\ \A k \in DOMAIN args : Passes(args[k], classes[id][k])

(***************************************************************************)
(* Every name the wrapper's constructor and run() use is declared: a field *)
(* passed by name is a constructor parameter, a storage m_<name> and       *)
(* m_globals are members, and every stencil initialised or run is a member. *)
(***************************************************************************)
Declared(a) ==
  \/ a.kind = "mesh"
  \/ a.kind = "param" /\ a \in Range(ctorParams)
  \/ a.kind = "globals" /\ Mem("globals", 0, "none") \in members
  \/ a.kind = "member" /\ a.f = "meta_data" /\ Mem("meta_data", 0, "none") \in members
  \/ a.kind = "member" /\ Mem("field", 0, a.f) \in members

WrapperNamesDeclared ==
  pc = "done" =>
    /\ \A x \in DOMAIN inits : inits[x].target \in members /\ \A a \in Range(inits[x].args) : Declared(a)
    /\ Range(runCalls) \subseteq members

(***************************************************************************)
(* A temporary that several stencils access is one storage shared by them: *)
(* every stencil accessing it is handed the wrapper's m_<name>, so what one *)
(* stencil writes the next one reads (isIDAccessedMultipleStencils decides *)
(* the classification).                                                    *)
(***************************************************************************)
TemporariesShared ==
  \A f \in Fields \ apiFields :
    Cardinality({i \in DOMAIN stencils : f \in StencilFields(stencils[i])}) >= 2 =>
      \A x \in DOMAIN inits :
        LET t == inits[x].target
        IN t.kind = "stencil" /\ f \in StencilFields(stencils[t.id]) =>
             Arg("member", f) \in Range(inits[x].args)

(***************************************************************************)
(* Every stencil member the wrapper declares has a class and an            *)
(* initialiser in the wrapper's constructor.                               *)
(***************************************************************************)
StencilMembersComplete ==
  pc = "done" =>
    \A m \in members :
      m.kind = "stencil" =>
        /\ m.id \in DOMAIN classes
        /\ \E x \in DOMAIN inits : inits[x].target = m
=============================================================================
