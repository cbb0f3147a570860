-------------------------- MODULE CursorPartition --------------------------
(***************************************************************************)
(* A partition spec resolved against an extent, and what a host does with  *)
(* the list (iteration/cursor_partition.rs): the walk over the deltas, the *)
(* order, a subdivision, and the projection onto another cursor's extent.  *)
(* A fraction is a percentage; a position is counted in hundredths of an   *)
(* ordinal, so it is exact where the code's floating point is close.       *)
(***************************************************************************)
EXTENDS Partition, FiniteSets, SequencesExt

CONSTANTS
    Specs,        \* the parsed specs explored: chunking, window, order
    Extents,      \* the extents of the cursors
    Counts,       \* the sub-partition counts asked of `subdivide_partition`
    None

ASSUME ExtentsAssumption == Extents \subseteq Nat /\ Counts \subseteq Nat

VARIABLES
    spec,         \* the spec
    extent,       \* the base extent it is resolved against
    status,       \* walking, resolved, subdivided, projected or refused
    at,           \* the delta the walk is at
    cursor,       \* the boundary reached
    exact_pos,    \* the exact position, in hundredths past the domain's start
    partitions,   \* the partitions so far
    source        \* the list a subdivision or a projection was made from, or None

vars == <<spec, extent, status, at, cursor, exact_pos, partitions, source>>

IsTail(bound) == bound.kind \in {"star", "fill", "split", "shaped"}

\* `resolve_against`: an endpoint of a range or of a window.
Endpoint(bound, lo, hi) ==
    IF bound.kind = "pct" THEN lo + Round(bound.n * (hi - lo))
    ELSE IF lo + bound.n < hi THEN lo + bound.n ELSE hi

\* The domain the chunking applies to.
Domain ==
    IF spec.window = None THEN [lo |-> 0, hi |-> extent]
    ELSE [lo |-> Endpoint(spec.window[1], 0, extent),
          hi |-> Endpoint(spec.window[2], 0, extent)]

DomainExtent == Domain.hi - Domain.lo
Deltas == spec.chunking
IsRange == spec.range # None

\* `delta_exact_ordinals`; a gap has the size it wraps.
Exact(bound) ==
    IF bound.kind \in {"pct", "pct gap"} THEN bound.n * DomainExtent ELSE bound.n * Hundred

NonTailExact ==
    FoldLeft(LAMBDA sum, bound : IF IsTail(bound) THEN sum ELSE sum + Exact(bound), 0, Deltas)

\* `boundary`: the position, rounded once.
Boundary(position) ==
    LET next == Domain.lo + Round(position)
    IN IF next < Domain.hi THEN next ELSE Domain.hi

Push(lo, hi) == Append(partitions, MakePartition(Len(partitions), lo, hi, extent))

Init ==
    /\ spec \in Specs
    /\ extent \in Extents
    /\ status = "walking"
    /\ at = 1
    /\ cursor = Domain.lo
    /\ exact_pos = 0
    /\ partitions = <<>>
    /\ source = None

-----------------------------------------------------------------------------

Refused ==
    /\ status' = "refused"
    /\ UNCHANGED <<spec, extent, at, cursor, exact_pos, partitions, source>>

Walking == status = "walking" /\ Domain.lo <= Domain.hi
InList == Walking /\ ~IsRange /\ NonTailExact <= DomainExtent * Hundred /\ at <= Len(Deltas)

\* A window that is reversed, or deltas larger than the domain.
RefuseSpec ==
    /\ status = "walking" /\ at = 1
    /\ \/ Domain.hi < Domain.lo
       \/ ~IsRange /\ NonTailExact > DomainExtent * Hundred
    /\ Refused

\* Form 1: one partition, refused when it is reversed or empty.
ResolveRange ==
    LET lo == Endpoint(spec.range[1], Domain.lo, Domain.hi)
        hi == Endpoint(spec.range[2], Domain.lo, Domain.hi)
    IN
    /\ Walking /\ IsRange
    /\ IF hi <= lo THEN Refused
       ELSE /\ partitions' = Push(lo, hi)
            /\ cursor' = hi
            /\ status' = "walked"
            /\ UNCHANGED <<spec, extent, at, exact_pos, source>>

\* The walk passes a delta at an exact position, and emits the partition up to it.
Advance(position, emits, next) ==
    /\ exact_pos' = position
    /\ cursor' = Boundary(position)
    /\ partitions' = IF emits THEN Push(cursor, Boundary(position)) ELSE partitions
    /\ at' = next
    /\ UNCHANGED <<spec, extent, status, source>>

\* A sized delta.
WalkSized ==
    /\ InList /\ Deltas[at].kind \in {"pct", "ord"}
    /\ Advance(exact_pos + Exact(Deltas[at]), TRUE, at + 1)

\* A gap consumes its extent and emits nothing.
WalkGap ==
    /\ InList /\ Deltas[at].kind \in {"pct gap", "ord gap"}
    /\ Advance(exact_pos + Exact(Deltas[at]), FALSE, at + 1)

\* Mutant of WalkStar: the remainder is what is left at this point of the list.
WalkStarGreedy ==
    /\ InList /\ Deltas[at].kind = "star"
    /\ Advance(DomainExtent * Hundred, TRUE, at + 1)

\* `*` takes what the sized deltas leave, those after it included.
WalkStar ==
    /\ InList /\ Deltas[at].kind = "star"
    /\ Advance(exact_pos + DomainExtent * Hundred - NonTailExact, TRUE, at + 1)

\* Mutant of WalkFill: the delta is repeated while a whole one fits.
WalkFillWhole ==
    LET chunk == Exact(Deltas[at - 1]) IN
    /\ InList /\ Deltas[at].kind = "fill"
    /\ IF chunk < Hundred THEN Refused
       ELSE IF exact_pos + chunk <= DomainExtent * Hundred
            THEN Advance(exact_pos + chunk, TRUE, at)
            ELSE Advance(exact_pos, FALSE, at + 1)

\* `...`, one turn of its loop: the delta before is repeated until the domain is
\* used up, the last chunk truncated.
WalkFill ==
    LET chunk == Exact(Deltas[at - 1]) IN
    /\ InList /\ Deltas[at].kind = "fill"
    /\ IF chunk < Hundred THEN Refused
       ELSE IF cursor < Domain.hi THEN Advance(exact_pos + chunk, TRUE, at)
            ELSE Advance(exact_pos, FALSE, at + 1)

\* `*/N`: the rest in n parts, none empty, or refused.
WalkSplit ==
    LET n == Deltas[at].n IN
    /\ InList /\ Deltas[at].kind = "split"
    /\ IF cursor = Domain.hi \/ n > Domain.hi - cursor THEN Refused
       ELSE /\ partitions' =
                 partitions \o SplitEvenly(Len(partitions), cursor, Domain.hi, n, extent)
            /\ cursor' = Domain.hi
            /\ at' = at + 1
            /\ UNCHANGED <<spec, extent, status, exact_pos, source>>

\* `*/recipe`: the rest by the recipe's weights, which sum to 100, cumulatively.
WalkShaped ==
    LET weights == Deltas[at].weights
        rest == Domain.hi - cursor
        sum[i \in 0 .. Len(weights)] == IF i = 0 THEN 0 ELSE sum[i - 1] + weights[i]
        bound(i) == cursor + Round(sum[i] * rest)
    IN
    /\ InList /\ Deltas[at].kind = "shaped"
    /\ IF rest = 0 \/ \E i \in DOMAIN weights : bound(i) = bound(i - 1) THEN Refused
       ELSE /\ partitions' = partitions \o
                 [i \in DOMAIN weights |->
                    MakePartition(Len(partitions) + i - 1, bound(i - 1), bound(i), extent)]
            /\ cursor' = Domain.hi
            /\ exact_pos' = exact_pos + rest * Hundred
            /\ at' = at + 1
            /\ UNCHANGED <<spec, extent, status, source>>

EndWalk ==
    /\ InList = FALSE /\ Walking /\ ~IsRange
    /\ NonTailExact <= DomainExtent * Hundred
    /\ status' = "walked"
    /\ UNCHANGED <<spec, extent, at, cursor, exact_pos, partitions, source>>

\* The orders a list may come in: sorted by size and stable, or any for "random",
\* whose seed is the spec's text.
Before(p, q) ==
    \/ spec.order = "unchanged" /\ p.idx < q.idx
    \/ spec.order = "smallest_first" /\ Cardinal(p) < Cardinal(q)
    \/ spec.order = "largest_first" /\ Cardinal(p) > Cardinal(q)
    \/ spec.order # "unchanged" /\ Cardinal(p) = Cardinal(q) /\ p.idx < q.idx

Orders ==
    IF spec.order = "random"
    THEN {[i \in DOMAIN partitions |-> partitions[at_i[i]]] : at_i \in Permutations(DOMAIN partitions)}
    ELSE {SortSeq(partitions, Before)}

\* `apply_order`, when the list is complete.
ApplyOrder ==
    /\ status = "walked"
    /\ partitions' \in Orders
    /\ status' = "resolved"
    /\ UNCHANGED <<spec, extent, at, cursor, exact_pos, source>>

\* `subdivide_partition`, of one of them: refused for no or too many parts.
Subdivide ==
    /\ status = "resolved"
    /\ \E p \in ToSet(partitions), n \in Counts :
         IF n = 0 \/ n > Cardinal(p) THEN Refused
         ELSE /\ partitions' = SplitEvenly(0, p.start_ord, p.end_ord, n, extent)
              /\ source' = <<p>>
              /\ status' = "subdivided"
              /\ UNCHANGED <<spec, extent, at, cursor, exact_pos>>

\* `resolve_over` a list from another cursor, of extent e.
ResolveOver(e) ==
    /\ status \in {"resolved", "subdivided"}
    /\ source' = partitions
    /\ partitions' = [i \in DOMAIN partitions |-> Projected(partitions[i], e)]
    /\ status' = "projected"
    /\ cursor' = e
    /\ UNCHANGED <<spec, extent, at, exact_pos>>

Next ==
    \/ RefuseSpec \/ ResolveRange
    \/ WalkSized \/ WalkGap \/ WalkStar \/ WalkFill \/ WalkSplit \/ WalkShaped
    \/ EndWalk \/ ApplyOrder
    \/ Subdivide
    \/ \E e \in Extents : ResolveOver(e)

Spec == Init /\ [][Next]_vars

-----------------------------------------------------------------------------

\* The partitions in generation order.
Generated ==
    [i \in DOMAIN partitions |-> CHOOSE p \in ToSet(partitions) : p.idx = i - 1]

Adjacent(s) == \A i \in 1 .. (Len(s) - 1) : s[i].end_ord = s[i + 1].start_ord
Ascending(s) ==
    /\ \A i \in DOMAIN s : s[i].start_ord <= s[i].end_ord
    /\ \A i \in 1 .. (Len(s) - 1) : s[i].end_ord <= s[i + 1].start_ord

HasGap == ~IsRange /\ \E b \in ToSet(Deltas) : b.kind \in {"pct gap", "ord gap"}

\* The partitions of a spec do not overlap and stay in its domain; without a gap
\* each begins where the one before ends, and a list with a remainder token, or
\* whose deltas use the domain up, reaches its end: no ordinal is served twice or
\* dropped by rounding.
PartitionsTileTheDomain ==
    status \in {"walked", "resolved"} =>
      /\ Ascending(Generated)
      /\ \A p \in ToSet(partitions) : Domain.lo <= p.start_ord /\ p.end_ord <= Domain.hi
      /\ ~HasGap => Adjacent(Generated)
      /\ (/\ ~IsRange
          /\ \/ \E b \in ToSet(Deltas) : IsTail(b)
             \/ NonTailExact = DomainExtent * Hundred
          /\ Deltas[Len(Deltas)].kind \notin {"pct gap", "ord gap"})
         => Last(Generated).end_ord = Domain.hi

\* Each sized delta gets its exact size to less than an ordinal, wherever it is in
\* the list, those after a `*` included; the parts of a split differ by at most one
\* and no part of a fill, a split or a recipe is empty.
NoSlackAccumulates ==
    status \in {"walked", "resolved"} /\ ~IsRange =>
      \A k \in DOMAIN Deltas :
        LET generated == Generated
            i == Cardinality({j \in 1 .. k : Deltas[j].kind \notin {"pct gap", "ord gap"}})
        IN /\ Deltas[k].kind \in {"pct", "ord"} =>
                Hundred * Cardinal(generated[i]) - Exact(Deltas[k]) \in (1 - Hundred) .. (Hundred - 1)
           /\ Deltas[k].kind \in {"fill", "split", "shaped"} =>
                \A j \in i .. Len(partitions) : Cardinal(generated[j]) > 0
           /\ Deltas[k].kind = "split" =>
                \A j, l \in i .. Len(partitions) :
                  Cardinal(generated[j]) - Cardinal(generated[l]) \in {-1, 0, 1}

\* A subdivision tiles its partition, none of the parts empty, and the list as
\* another cursor sees it keeps the order, the adjacency and (unless one of the
\* cursors is empty) the coverage of the list it came from: partitions that met
\* still meet.
DerivedListsStillTile ==
    /\ status = "subdivided" =>
         /\ partitions[1].start_ord = source[1].start_ord
         /\ Last(partitions).end_ord = source[1].end_ord
         /\ Adjacent(partitions) /\ \A p \in ToSet(partitions) : Cardinal(p) > 0
    /\ status = "projected" =>
         \A i, j \in DOMAIN partitions :
           /\ partitions[i].start_ord <= partitions[i].end_ord
           /\ source[i].end_ord <= source[j].start_ord =>
                partitions[i].end_ord <= partitions[j].start_ord
           /\ source[i].end_ord = source[j].start_ord =>
                partitions[i].end_ord = partitions[j].start_ord
           /\ 0 \notin {cursor, extent} /\ source[i].end_ord = extent =>
                partitions[i].end_ord = cursor

=============================================================================
