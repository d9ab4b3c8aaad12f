----------------------------- MODULE IjkfyOffset -----------------------------
(***************************************************************************)
(* ASTStencilBody::ijkfyOffset (src/dawn/CodeGen/CXXNaive/ASTStencilBody.h) *)
(* renders an array of N offsets of a field access as N index strings:     *)
(* component n is the n-th of "i+", "j+", "k+", then the offset, and in a   *)
(* stencil function "+<name>_offsets[n]", the offset the caller passed the  *)
(* field with.  A rendered component is modelled by its three parts.        *)
(*                                                                         *)
(* The prefix guard is n < 4 over an array of 3 entries: for n = 3 the read *)
(* is past the end, undefined behaviour, modelled as any of the outcomes    *)
(* in Garbage.                                                             *)
(***************************************************************************)
EXTENDS Integers, Sequences

CONSTANTS
  Sizes,     \* the array sizes N the template is instantiated with
  Offsets,   \* the offsets a component may have
  Names,     \* access names
  Garbage    \* what reading indices[3] may produce

VARIABLES
  offsets,   \* the std::array<int, N> given
  accessName,
  context,   \* stencilContext_: "stencil" or "function"
  res        \* the rendered components, <<>> before the call

vars == <<offsets, accessName, context, res>>

Indices == <<"i+", "j+", "k+">>

Component(axis, off, param) == [axis |-> axis, off |-> off, param |-> param]

(* The possible renderings of component n (0-based). *)
\* Variant: the prefix guard is n < 2.
RenderComponentsShortGuard(n, off, name, ctx) ==
  LET param == IF ctx = "function" THEN <<name, n>> ELSE <<>>
  IN IF n < 2 THEN {Component(Indices[n + 1], off, param)} ELSE {Component("", off, param)}

RenderComponents(n, off, name, ctx) ==
  LET param == IF ctx = "function" THEN <<name, n>> ELSE <<>>
  IN IF n < 4
       THEN IF n < Len(Indices) THEN {Component(Indices[n + 1], off, param)}
            ELSE {Component(g, off, param) : g \in Garbage}
       ELSE {Component("", off, param)}

(* The std::transform over the offsets, n counting from 0. *)
\* Variant: the result array has the 3 entries of the index array, whatever N is.
IjkfyOffsetThree(offs, name, ctx) ==
  {r \in [1..3 -> UNION {RenderComponents(n, offs[n + 1], name, ctx) : n \in 0..(Len(offs) - 1)}
                  \cup {Component("", 0, <<>>)}] :
     \A n \in 0..2 : IF n < Len(offs) THEN r[n + 1] \in RenderComponents(n, offs[n + 1], name, ctx)
                     ELSE r[n + 1] = Component("", 0, <<>>)}

IjkfyOffset(offs, name, ctx) ==
  {r \in [1..Len(offs) -> UNION {RenderComponents(n, offs[n + 1], name, ctx) : n \in 0..(Len(offs) - 1)}] :
     \A n \in 0..(Len(offs) - 1) : r[n + 1] \in RenderComponents(n, offs[n + 1], name, ctx)}

Init ==
  /\ offsets \in UNION {[1..N -> Offsets] : N \in Sizes}
  /\ accessName \in Names
  /\ context \in {"stencil", "function"}
  /\ res = <<>>

Render ==
  /\ res = <<>>
  /\ res' \in IjkfyOffset(offsets, accessName, context)
  /\ UNCHANGED <<offsets, accessName, context>>

Next == Render

Spec == Init /\ [][Next]_vars

-----------------------------------------------------------------------------
TypeOK ==
  /\ context \in {"stencil", "function"}
  /\ res = <<>> \/ Len(res) = Len(offsets)

(***************************************************************************)
(* Spec.md, section 4.4: an access at offset (di,dj,dk) is rendered        *)
(* i+di, j+dj, k+dk, each with the parameter offset of its axis appended   *)
(* inside a stencil function: every component has its own axis, its own    *)
(* offset and the offset term of its own position.  A component past the   *)
(* third has no axis prefix, which is what the guard of line 63 is for.     *)
(***************************************************************************)
RenderedAsSpecified ==
  res # <<>> =>
    \A n \in DOMAIN res :
      /\ res[n].axis = IF n <= Len(Indices) THEN Indices[n] ELSE ""
      /\ res[n].off = offsets[n]
      /\ res[n].param = IF context = "function" THEN <<accessName, n - 1>> ELSE <<>>
=============================================================================
