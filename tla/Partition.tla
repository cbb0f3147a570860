----------------------------- MODULE Partition -----------------------------
(***************************************************************************)
(* A partition of a cursor's extent, and the arithmetic a resolution and a *)
(* host share (iteration/cursor_partition.rs).  The code's percentages are *)
(* floating point; here one is the exact ratio it stands for.              *)
(***************************************************************************)
EXTENDS Integers, Sequences

Hundred == 100

\* `round` of a position in hundredths of an ordinal.
Round(hundredths) == (hundredths + 50) \div Hundred

\* `round` of the share of an extent e a percentage is.
AtPercent(pct, e) == (2 * pct.of * e + pct.base) \div (2 * pct.base)

\* `pct_of`, over the base extent whatever the window.
PctOf(ordinal, base) == [of |-> ordinal, base |-> IF base = 0 THEN 1 ELSE base]

\* `Frame::partition`.
MakePartition(idx, lo, hi, base) ==
    [idx |-> idx, start_ord |-> lo, end_ord |-> hi,
     start_pct |-> PctOf(lo, base), end_pct |-> PctOf(hi, base), base_extent |-> base]

Cardinal(p) == p.end_ord - p.start_ord

\* `try_split_evenly`: boundary i of n over a span.
SplitAt(lo, hi, n, i) == lo + (i * (hi - lo) + (n \div 2)) \div n

SplitEvenly(first, lo, hi, n, base) ==
    [i \in 1 .. n |->
       MakePartition(first + i - 1, SplitAt(lo, hi, n, i - 1), SplitAt(lo, hi, n, i), base)]

\* Mutant of Projected: the start and the size are projected.
ProjectedSize(p, e) ==
    LET start == AtPercent(p.start_pct, e)
        size == PctOf(p.end_pct.of - p.start_pct.of, p.end_pct.base)
    IN [p EXCEPT !.start_ord = start, !.end_ord = start + AtPercent(size, e), !.base_extent = e]

\* `reproject` of `resolve_over`: the ordinals at the partition's percentages.
Projected(p, e) ==
    IF e \in {p.base_extent, 0} THEN p
    ELSE [p EXCEPT !.start_ord = AtPercent(p.start_pct, e),
                   !.end_ord = AtPercent(p.end_pct, e), !.base_extent = e]

=============================================================================
