------------------------------ MODULE Interval ------------------------------
(***************************************************************************)
(* The vertical Interval value type and its partition (iir::Interval,      *)
(* Interval::computePartition).  Its implementation is not part of the     *)
(* sources at hand; these operators follow spec.md, sections 3 and 4.1.    *)
(*                                                                         *)
(* A bound is a level -- the domain-relative sentinel Start or End -- plus *)
(* an offset.  Bounds are resolved against the vertical domain size K at   *)
(* code-generation time: Start is level 0 and End the last level K-1.      *)
(***************************************************************************)
EXTENDS Integers, Sequences, SequencesExt

Bound(level, off) == [level |-> level, off |-> off]
MakeInterval(lo, hi) == [lo |-> lo, hi |-> hi]

Resolve(b, K) == IF b.level = "Start" THEN b.off ELSE K - 1 + b.off

\* The concrete closed range [lower, upper] of an interval in a domain of size K.
Lower(iv, K) == Resolve(iv.lo, K)
Upper(iv, K) == Resolve(iv.hi, K)

\* Interval::overlaps: the resolved ranges intersect.
Overlaps(a, b, K) == Lower(a, K) <= Upper(b, K) /\ Lower(b, K) <= Upper(a, K)

(***************************************************************************)
(* computePartition over concrete ranges <<lower, upper>>.  A boundary of  *)
(* an input is the first level it covers and the first level after it;    *)
(* the boundaries, sorted and without duplicates, delimit the pieces, and  *)
(* a piece is kept when an input covers it (a gap between inputs is not   *)
(* part of their union).                                                   *)
(***************************************************************************)
Cuts(ranges) ==
  SetToSortSeq({r[1] : r \in ranges} \cup {r[2] + 1 : r \in ranges}, <)

Covered(lv, ranges) == \E r \in ranges : r[1] <= lv /\ lv <= r[2]

Partition(ranges) ==
  LET c == Cuts(ranges)
      pieces == [i \in 1..(Len(c) - 1) |-> <<c[i], c[i + 1] - 1>>]
  IN SelectSeq(pieces, LAMBDA p : Covered(p[1], ranges))

\* The ranges of a set of intervals in a domain of size K.
Ranges(ivs, K) == {<<Lower(iv, K), Upper(iv, K)>> : iv \in ivs}
=============================================================================
