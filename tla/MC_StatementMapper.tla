------------------------- MODULE MC_StatementMapper -------------------------
(***************************************************************************)
(* Stencil functions and vertical-region bodies for the StatementMapper:   *)
(* every program of two statements from a pool that calls functions with   *)
(* one and two parameters, a function calling another, function-local      *)
(* variables, and the three fatal errors.                                  *)
(***************************************************************************)
EXTENDS StatementMapper

F(n) == [k |-> "field", n |-> n, args |-> <<>>]
D(n) == [k |-> "decl", n |-> n, args |-> <<>>]
V(n) == [k |-> "var", n |-> n, args |-> <<>>]
C(f, args) == [k |-> "call", n |-> f, args |-> args]

Leaf(label, items) == [kind |-> "leaf", label |-> label, items |-> items, body |-> <<>>]
Block(label, body) == [kind |-> "block", label |-> label, items |-> <<>>, body |-> body]

MC_GlobalFields == <<"in", "out">>
MC_Funs == {"avg", "lap", "outer", "bad", "leak", "noop"}

MC_Params ==
  ("avg" :> <<"a", "b">>) @@ ("lap" :> <<"x">>) @@ ("outer" :> <<"u">>) @@
  ("bad" :> <<"z">>) @@ ("leak" :> <<"z">>) @@ ("noop" :> <<>>)

MC_Body ==
  ("avg" :> << Leaf("avg1", <<F("a"), F("b")>>) >>) @@
  ("lap" :> << Leaf("lap1", <<D("t"), F("x")>>), Leaf("lap2", <<V("t"), F("x")>>) >>) @@
  ("outer" :> << Block("outer1", << Leaf("outer2", <<F("u"), C("avg", <<"u", "u">>)>>) >>) >>) @@
  ("bad" :> << Leaf("bad1", <<F("in")>>) >>) @@
  ("leak" :> << Leaf("leak1", <<V("t"), F("z")>>) >>) @@
  ("noop" :> << Leaf("noop1", <<D("t")>>) >>)

Pool ==
  { Leaf("s1", <<F("out"), C("avg", <<"in", "out">>)>>),
    Leaf("s2", <<D("t"), F("in")>>),
    Block("s3", << Leaf("s3a", <<F("out"), C("lap", <<"in">>)>>) >>),
    Leaf("s4", <<F("out"), C("outer", <<"out">>)>>),
    Leaf("s5", <<V("t"), F("out")>>),
    Leaf("s6", <<F("out"), C("leak", <<"in">>)>>),
    Leaf("s7", <<C("bad", <<"in">>)>>),
    Leaf("s8", <<C("avg", <<"in">>)>>),
    Leaf("s9", <<C("noop", <<>>)>>),
    Leaf("s10", <<C("lap", <<"tmp">>)>>) }

MC_Programs == [1..2 -> Pool]
=============================================================================
