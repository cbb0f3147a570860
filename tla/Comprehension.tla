--------------------------- MODULE Comprehension ---------------------------
(***************************************************************************)
(* The two evaluators of a comprehension (iteration/comprehension/         *)
(* runtime.rs, strategies/): the reference one, which materializes every   *)
(* node, and the one a traversal uses, whose tuples are computed from      *)
(* their positions.  Continuous axes and the low-discrepancy strategies    *)
(* are left out.  A tuple is a sequence of <<name, value>> bindings.       *)
(***************************************************************************)
EXTENDS Integers, Sequences, SequencesExt, FiniteSetsExt

CONSTANTS
    Shuffled(_),  \* the permutation of 0 .. n-1 a shuffle of all n positions emits
    None

\* The names a tuple binds, and the value of one, the last of its name.
Binds(tuple) == {tuple[i][1] : i \in DOMAIN tuple}
Bound(tuple, name) == tuple[Max({i \in DOMAIN tuple : tuple[i][1] = name})][2]

\* `Layered`: the bindings in front of the scope; an unbound name is None.
Resolve(name, tuple, scope) ==
    IF name \in Binds(tuple) THEN Bound(tuple, name)
    ELSE IF name \in DOMAIN scope THEN scope[name] ELSE None

CeilDiv(n, d) == (n + d - 1) \div d
RangeLen(source) == IF source.hi <= source.lo THEN 0 ELSE CeilDiv(source.hi - source.lo, source.step)
RangeAt(source, i) == source.lo + i * source.step

\* The values of a source; one that reads a name yields nothing for None.
Values(source, prefix, scope) ==
    CASE source.kind = "range" -> [i \in 1 .. RangeLen(source) |-> RangeAt(source, i - 1)]
      [] source.kind = "list" -> source.values
      [] source.kind = "reads" ->
           LET value == Resolve(source.name, prefix, scope)
           IN IF value = None THEN <<>> ELSE source.of[value]

Keeps(predicate, tuple, scope) == Resolve(predicate.name, tuple, scope) \in predicate.in

-----------------------------------------------------------------------------
(* The index functions. *)

ProductOf(sizes) == FoldLeft(LAMBDA n, size : n * size, 1, sizes)
SumOf(sizes) == FoldLeft(LAMBDA n, size : n + size, 0, sizes)
Least(sizes) == Min(ToSet(sizes))

\* `cycle_length`: the longest operand, or nothing when one is empty.
CycleLength(sizes) == IF 0 \in ToSet(sizes) THEN 0 ELSE Max(ToSet(sizes))

Lattice(sizes) == [shape |-> "lattice", sizes |-> sizes]
Lockstep(length) == [shape |-> "lockstep", sizes |-> <<length>>]
Modular(sizes) == [shape |-> "modular", sizes |-> sizes]
Concatenation(sizes) == [shape |-> "concatenation", sizes |-> sizes]
Selected(len) == Lattice(<<len>>)

\* `index_fn_size`.
IndexFnSize(fn) ==
    CASE fn.shape = "modular" -> CycleLength(fn.sizes)
      [] fn.shape = "concatenation" -> SumOf(fn.sizes)
      [] OTHER -> ProductOf(fn.sizes)

\* `combine_cartesian_index_fn`.
CombineCartesian(fns) ==
    IF \E i \in DOMAIN fns : fns[i] = None \/ fns[i].shape \notin {"lattice", "lockstep"}
    THEN None
    ELSE Lattice(FlattenSeq([i \in DOMAIN fns |-> fns[i].sizes]))

-----------------------------------------------------------------------------
(* The strategies: positions of the input, from its shape. *)

Capped(truncation, total) ==
    IF truncation = None \/ total < truncation THEN total ELSE truncation

Prefix(n) == [i \in 1 .. n |-> i - 1]
Ascending(positions) == SelectSeq(Prefix(Max({-1} \cup positions) + 1), LAMBDA p : p \in positions)

\* The axes a shape-based strategy walks; anything but a lattice is one axis.
Axes(fn) == IF fn.shape = "lattice" THEN fn.sizes ELSE <<IndexFnSize(fn)>>

\* The multi-index of a position, the last axis least significant.
Digits(position, sizes) ==
    [i \in DOMAIN sizes |->
       (position \div ProductOf(SubSeq(sizes, i + 1, Len(sizes)))) % sizes[i]]

\* The interior count of `extrema`.
Interior(digits, sizes) ==
    Cardinality({i \in DOMAIN sizes : digits[i] \notin {0, sizes[i] - 1}})

\* Twice the Chebyshev distance from the centre.
Shell(digits, sizes) ==
    Max({0} \cup {LET twice == 2 * digits[i] - (sizes[i] - 1)
                  IN IF twice < 0 THEN -twice ELSE twice : i \in DOMAIN sizes})

\* What a strategy ranks a multi-index by, ties in lexicographic order; one axis
\* has no diagonal, and a shape other than a lattice no shells.
RankOf(strategy, digits, sizes, shape) ==
    CASE strategy = "extrema" -> Interior(digits, sizes)
      [] strategy = "diagonal" /\ shape = "lattice" -> SumOf(digits)
      [] strategy = "antidiagonal" /\ shape = "lattice" -> -SumOf(digits)
      [] strategy = "shells" /\ shape = "lattice" -> -Shell(digits, sizes)
      [] OTHER -> 0

Rank(strategy, position, fn) ==
    RankOf(strategy, Digits(position, Axes(fn)), Axes(fn), fn.shape)

Precedes(rank1, p1, rank2, p2) == rank1 < rank2 \/ (rank1 = rank2 /\ p1 < p2)

Ranked(strategy, fn, positions) ==
    SortSeq(Ascending(positions),
      LAMBDA p, q : Precedes(Rank(strategy, p, fn), p, Rank(strategy, q, fn), q))

\* `take_n_strata`: complete strata, of those that have a position.
StrataUpTo(rank, ranks) == Cardinality({r \in ranks : r <= rank})
FirstStrata(ranked, ranks, fn, n) ==
    SelectSeq(ranked, LAMBDA p : StrataUpTo(Rank("extrema", p, fn), ranks) <= n)
TakeStrata(ranked, fn, n) ==
    IF n = None THEN ranked
    ELSE FirstStrata(ranked, {Rank("extrema", p, fn) : p \in ToSet(ranked)}, fn, n)

\* The order a strategy gives the positions of the whole shape, all of them.
WholeOrder(strategy, fn, cardinality) ==
    CASE strategy = "lex" -> Prefix(cardinality)
      [] strategy = "reverse_lex" -> Reverse(Prefix(cardinality))
      [] strategy = "shuffle" -> Shuffled(IndexFnSize(fn))
      [] OTHER -> Ranked(strategy, fn, 0 .. (IndexFnSize(fn) - 1))

\* A shuffle of all its positions fills the order from the back and reads it from
\* the front; one of fewer emits the same draws as they are made.
Drawn(positions, n) ==
    IF n = Len(positions) THEN positions ELSE SubSeq(Reverse(positions), 1, n)

\* A truncation keeps so many positions, of `extrema` so many strata.
Cut(strategy, fn, positions, truncation) ==
    LET n == Capped(truncation, Len(positions)) IN
    CASE strategy = "extrema" -> TakeStrata(positions, fn, truncation)
      [] strategy = "shuffle" -> Drawn(positions, n)
      [] OTHER -> SubSeq(positions, 1, n)

\* `select`: the positions a strategy emits over `cardinality` tuples.
Select(strategy, fn, cardinality, truncation) ==
    SelectSeq(Cut(strategy, fn, WholeOrder(strategy, fn, cardinality), truncation),
              LAMBDA p : p < cardinality)

\* Mutant of SelectSurviving: the truncation counts the positions selected, not
\* the survivors among them.
SelectSurvivingOnce(strategy, fn, cardinality, truncation, survivors) ==
    SelectSeq(Select(strategy, fn, cardinality, truncation), LAMBDA p : p \in survivors)

\* The first `want` of the survivors a strategy has reached; once it was asked for
\* every position, those it never reaches follow in order.
Emitted(reached, survivors, whole, want) ==
    LET all == IF whole
               THEN reached \o SelectSeq(Ascending(survivors), LAMBDA p : p \notin ToSet(reached))
               ELSE reached
    IN SubSeq(all, 1, Capped(want, Len(all)))

\* Some survivors if they are enough, or those the rest of the doublings reach.
Enough(some, want, last, more) == IF Len(some) = want \/ last THEN some ELSE more

\* `select_surviving`: the survivors of a filter in the order the strategy emits
\* them over the filter's input; the count asked for doubles until enough of them
\* are reached.
SelectSurviving(strategy, fn, cardinality, truncation, survivors) ==
    LET want == Capped(truncation, Cardinality(survivors))
        taken[count \in 0 .. cardinality] ==
          Enough(Emitted(SelectSeq(Select(strategy, fn, cardinality,
                                          IF truncation = None THEN None ELSE count),
                                   LAMBDA p : p \in survivors),
                         survivors, count >= cardinality, want),
                 want, count >= cardinality, taken[Capped(cardinality, 2 * count)])
    IN IF want = 0 THEN <<>>
       ELSE IF strategy = "extrema"
       THEN TakeStrata(Ranked(strategy, fn, survivors), fn, truncation)
       ELSE taken[Capped(truncation, cardinality)]

FromShape(strategy) == strategy \in {"extrema", "shells", "diagonal", "antidiagonal"}
Accepts(strategy, fn) == strategy = "lex" \/ fn # None

-----------------------------------------------------------------------------
(* The tree.  A leaf has an id, and what it yielded is kept by id. *)

RECURSIVE Leaves(_)
Leaves(node) ==
    CASE node.op = "clause" -> {node}
      [] node.op \in {"filter", "order"} -> Leaves(node.child)
      [] OTHER -> UNION {Leaves(node.children[i]) : i \in DOMAIN node.children}

\* `shape_input`: a strategy that selects from the shape reads through the
\* untruncated orders under it.
RECURSIVE ShapeInput(_, _)
ShapeInput(child, strategy) ==
    IF FromShape(strategy) /\ child.op = "order" /\ child.truncation = None
    THEN ShapeInput(child.child, strategy) ELSE child

\* `ranked_filter`: the filter whose survivors an order ranks.
RanksFilter(node) ==
    node.strategy # "lex" /\ ShapeInput(node.child, node.strategy).op = "filter"
RankedInput(node) ==
    ShapeInput(ShapeInput(node.child, node.strategy).child, node.strategy)

\* Mutant of OrderOutput: a truncated Lex passes its input's addressing through.
OrderOutputUncut(node, fn, len) == IF node.strategy # "lex" THEN Selected(len) ELSE fn

\* `order_output`.
OrderOutput(node, fn, len) ==
    IF node.strategy # "lex" THEN Selected(len)
    ELSE IF node.truncation = None \/ fn = None THEN fn ELSE Selected(len)

\* `references_an_earlier_axis`.
ReferencesAnEarlierAxis(children) ==
    \E i \in DOMAIN children : \E leaf \in Leaves(children[i]) :
      /\ leaf.source.kind = "reads"
      /\ leaf.source.name \in UNION {{l.name : l \in Leaves(children[j])} : j \in 1 .. (i - 1)}

\* The yields of the leaves, by id, and their sum.
NoYields == [id \in {} |-> 0]
Yield(id, mult, values) == [i \in {id} |-> [evaluations |-> mult, values |-> mult * values]]
AddYields(y, z) ==
    [id \in DOMAIN y \cup DOMAIN z |->
       IF id \notin DOMAIN z THEN y[id] ELSE IF id \notin DOMAIN y THEN z[id]
       ELSE [evaluations |-> y[id].evaluations + z[id].evaluations,
             values |-> y[id].values + z[id].values]]
AllYields(seq) == FoldLeft(LAMBDA sum, e : AddYields(sum, e.yields), NoYields, seq)

\* An evaluation that failed, and the first that did of a sequence of them.
Failure(error) == [error |-> error, tuples |-> <<>>, fn |-> None, yields |-> NoYields]
Failing(seq) == {i \in DOMAIN seq : seq[i].error # None}
FirstFailure(seq) == Failure(seq[Min(Failing(seq))].error)

\* The tuple count of a zip.
ZipLength(mode, lens) == IF mode = "cycle" THEN CycleLength(lens) ELSE Least(lens)
ZipMismatch(mode, lens) == mode = "strict" /\ Cardinality(ToSet(lens)) > 1
ZipIndexFn(mode, lens) == IF mode = "cycle" THEN Modular(lens) ELSE Lockstep(Least(lens))
UnionIndexFn(fns, lens) ==
    IF None \in ToSet(fns) THEN None ELSE Concatenation(lens)

-----------------------------------------------------------------------------
(* The reference evaluator. *)

Lens(nodes) == [i \in DOMAIN nodes |-> Len(nodes[i].tuples)]
Fns(nodes) == [i \in DOMAIN nodes |-> nodes[i].fn]

RECURSIVE Materialized(_, _, _, _)

\* `evaluate_cartesian_rec`: the tail once per tuple of the head.  `seen` is what
\* was recorded of each position, in the order the evaluations happened.
RECURSIVE MaterializedCartesian(_, _, _, _, _)
MaterializedCartesian(children, depth, prefix, scope, mult) ==
    LET head == Materialized(children[depth], prefix, scope, mult)
        tails == [i \in DOMAIN head.tuples |->
                    MaterializedCartesian(children, depth + 1, prefix \o head.tuples[i], scope, mult)]
        mine == <<[depth |-> depth, fn |-> head.fn, len |-> Len(head.tuples)]>>
    IN IF head.error # None THEN head @@ [seen |-> <<>>]
       ELSE IF depth = Len(children)
       THEN [error |-> None, tuples |-> head.tuples, yields |-> head.yields, seen |-> mine]
       ELSE IF Failing(tails) # {} THEN FirstFailure(tails) @@ [seen |-> <<>>]
       ELSE [error |-> None,
             tuples |-> FlattenSeq([i \in DOMAIN tails |->
                          [j \in DOMAIN tails[i].tuples |-> head.tuples[i] \o tails[i].tuples[j]]]),
             yields |-> AddYields(head.yields, AllYields(tails)),
             seen |-> mine \o FlattenSeq([i \in DOMAIN tails |-> tails[i].seen])]

\* `evaluate_cartesian`: the lattice of the first evaluation at each position,
\* unless a later one had another count.
CartesianIndexFn(seen) ==
    LET first(d) == seen[Min({i \in DOMAIN seen : seen[i].depth = d})]
        depths == Max({e.depth : e \in ToSet(seen)})
    IN IF \E e \in ToSet(seen) : e.len # first(e.depth).len THEN None
       ELSE CombineCartesian([d \in 1 .. depths |-> first(d).fn])

\* The positions an order emits of an operand that has a count of tuples, over a
\* filter those of the positions that survive it.
OrderPositions(node, fn, count, survivors) ==
    IF RanksFilter(node)
    THEN SelectSurviving(node.strategy, fn, count, node.truncation, survivors)
    ELSE Select(node.strategy, IF fn = None THEN Selected(count) ELSE fn, count, node.truncation)

OrderIndexFn(node, fn, len) ==
    IF RanksFilter(node) THEN Selected(len) ELSE OrderOutput(node, fn, len)

\* The tuples of an order, at the positions it emits.
InOrder(node, inner, positions) ==
    [error |-> None, yields |-> inner.yields,
     tuples |-> [i \in DOMAIN positions |-> inner.tuples[positions[i] + 1]],
     fn |-> OrderIndexFn(node, inner.fn, Len(positions))]

MaterializedOrder(node, inner, scope) ==
    LET predicate == ShapeInput(node.child, node.strategy).predicate IN
    IF inner.error # None THEN inner
    ELSE IF ~Accepts(node.strategy, inner.fn) THEN Failure("StrategyRejectsInput")
    ELSE InOrder(node, inner,
           OrderPositions(node, inner.fn, Len(inner.tuples),
             {p \in 0 .. (Len(inner.tuples) - 1) : Keeps(predicate, inner.tuples[p + 1], scope)}))

\* `evaluate_node`.
Materialized(node, prefix, scope, mult) ==
    CASE node.op = "clause" ->
           LET values == Values(node.source, prefix, scope) IN
           [error |-> None, tuples |-> [i \in DOMAIN values |-> <<<<node.name, values[i]>>>>],
            fn |-> Lattice(<<Len(values)>>), yields |-> Yield(node.id, mult, Len(values))]
      [] node.op = "cartesian" ->
           LET all == MaterializedCartesian(node.children, 1, prefix, scope, mult) IN
           IF all.error # None THEN Failure(all.error)
           ELSE [error |-> None, tuples |-> all.tuples, fn |-> CartesianIndexFn(all.seen),
                 yields |-> all.yields]
      [] node.op \in {"zip", "union"} ->
           LET nodes == [i \in DOMAIN node.children |->
                           Materialized(node.children[i], prefix, scope, mult)]
               tuples == [i \in 1 .. ZipLength(node.mode, Lens(nodes)) |->
                            FlattenSeq([c \in DOMAIN nodes |->
                              nodes[c].tuples[((i - 1) % Len(nodes[c].tuples)) + 1]])]
           IN IF Failing(nodes) # {} THEN FirstFailure(nodes)
              ELSE IF node.op = "union"
              THEN [error |-> None,
                    tuples |-> FlattenSeq([i \in DOMAIN nodes |-> nodes[i].tuples]),
                    fn |-> UnionIndexFn(Fns(nodes), Lens(nodes)), yields |-> AllYields(nodes)]
              ELSE IF ZipMismatch(node.mode, Lens(nodes)) THEN Failure("ZipLengthMismatch")
              ELSE [error |-> None, tuples |-> tuples,
                    fn |-> ZipIndexFn(node.mode, Lens(nodes)), yields |-> AllYields(nodes)]
      [] node.op = "filter" ->
           LET inner == Materialized(node.child, prefix, scope, mult) IN
           [inner EXCEPT !.fn = None,
                         !.tuples = SelectSeq(@, LAMBDA t : Keeps(node.predicate, t, scope))]
      [] node.op = "order" ->
           MaterializedOrder(node,
             Materialized(IF RanksFilter(node) THEN RankedInput(node)
                          ELSE ShapeInput(node.child, node.strategy), prefix, scope, mult),
             scope)

=============================================================================
