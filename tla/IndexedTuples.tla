--------------------------- MODULE IndexedTuples ---------------------------
(***************************************************************************)
(* The evaluator a traversal uses (iteration/comprehension/runtime.rs):    *)
(* each node answers the tuple at a position, and only a filter, a         *)
(* dependent cartesian and an empty product hold tuples.                   *)
(***************************************************************************)
EXTENDS Comprehension

Tuples(tuples) == [at |-> "tuples", tuples |-> tuples, len |-> Len(tuples)]

\* `IndexedTuples::get` below the length: `Indexed::append_at`.
RECURSIVE TupleAt(_, _)

\* Mutant of ProductAt: the first child is the least significant.
ProductAtReversed(indexed, i) ==
    FlattenSeq([c \in DOMAIN indexed.children |->
      TupleAt(indexed.children[c],
              Reverse(Digits(i, Reverse([d \in DOMAIN indexed.children |->
                                           indexed.children[d].len])))[c])])

\* The children at the mixed-radix digits of the position.
ProductAt(indexed, i) ==
    FlattenSeq([c \in DOMAIN indexed.children |->
      TupleAt(indexed.children[c],
              Digits(i, [d \in DOMAIN indexed.children |-> indexed.children[d].len])[c])])

\* The child whose segment holds the position.
ConcatAt(indexed, i) ==
    LET lens == [c \in DOMAIN indexed.children |-> indexed.children[c].len]
        before(c) == SumOf(SubSeq(lens, 1, c - 1))
        holder == CHOOSE c \in DOMAIN lens : before(c) <= i /\ i < before(c) + lens[c]
    IN TupleAt(indexed.children[holder], i - before(holder))

TupleAt(indexed, i) ==
    CASE indexed.at = "tuples" -> indexed.tuples[i + 1]
      [] indexed.at = "range" -> <<<<indexed.name, RangeAt(indexed.source, i)>>>>
      [] indexed.at = "values" -> <<<<indexed.name, indexed.values[i + 1]>>>>
      [] indexed.at = "product" -> ProductAt(indexed, i)
      [] indexed.at = "lockstep" ->
           FlattenSeq([c \in DOMAIN indexed.children |-> TupleAt(indexed.children[c], i)])
      [] indexed.at = "cycle" ->
           FlattenSeq([c \in DOMAIN indexed.children |->
             TupleAt(indexed.children[c], i % indexed.children[c].len)])
      [] indexed.at = "concat" -> ConcatAt(indexed, i)
      [] indexed.at = "select" -> TupleAt(indexed.child, indexed.positions[i + 1])

Found(indexed, fn, yields) == [error |-> None, indexed |-> indexed, fn |-> fn, yields |-> yields]
Lost(error) == [error |-> error, indexed |-> Tuples(<<>>), fn |-> None, yields |-> NoYields]

RECURSIVE IndexNode(_, _, _, _)

\* What the evaluation of the next axis stands for: one per tuple before it.
AxisMult(mult, axis) == mult * axis.indexed.len

RECURSIVE IndexAxes(_, _, _, _, _)

\* An axis and those after it, unless it is empty, failed or the last.
AndTheRest(axis, children, depth, prefix, scope, mult) ==
    IF axis.error # None \/ axis.indexed.len = 0 \/ depth = Len(children) THEN <<axis>>
    ELSE <<axis>> \o IndexAxes(children, depth + 1, prefix, scope, AxisMult(mult, axis))

\* The axes of an independent cartesian, up to the first that is empty or fails.
IndexAxes(children, depth, prefix, scope, mult) ==
    AndTheRest(IndexNode(children[depth], prefix, scope, mult), children, depth, prefix, scope, mult)

FailingAxes(nodes) == {i \in DOMAIN nodes : nodes[i].error # None}
IndexedLens(nodes) == [i \in DOMAIN nodes |-> nodes[i].indexed.len]
IndexedChildren(nodes) == [i \in DOMAIN nodes |-> nodes[i].indexed]

\* The tuples of an evaluated cartesian, held.
Held(whole) ==
    IF whole.error # None THEN Lost(whole.error)
    ELSE Found(Tuples(whole.tuples), whole.fn, whole.yields)

\* The product of independent axes; an empty one holds no tuple.
Product(axes, lens, fn, yields) ==
    IF FailingAxes(axes) # {} THEN Lost(axes[Min(FailingAxes(axes))].error)
    ELSE IF ProductOf(lens) = 0 THEN Found(Tuples(<<>>), fn, yields)
    ELSE Found([at |-> "product", children |-> IndexedChildren(axes), len |-> ProductOf(lens)],
               fn, yields)
ProductOfAxes(axes) == Product(axes, IndexedLens(axes), CombineCartesian(Fns(axes)), AllYields(axes))

\* `index_cartesian`.
IndexCartesian(node, prefix, scope, mult) ==
    IF ReferencesAnEarlierAxis(node.children)
    THEN Held(Materialized(node, prefix, scope, mult))
    ELSE ProductOfAxes(IndexAxes(node.children, 1, prefix, scope, mult))

\* The nodes of a zip or a union, together.
Together(node, nodes, lens) ==
    IF FailingAxes(nodes) # {} THEN Lost(nodes[Min(FailingAxes(nodes))].error)
    ELSE IF node.op = "union"
    THEN Found([at |-> "concat", children |-> IndexedChildren(nodes), len |-> SumOf(lens)],
               UnionIndexFn(Fns(nodes), lens), AllYields(nodes))
    ELSE IF ZipMismatch(node.mode, lens) THEN Lost("ZipLengthMismatch")
    ELSE Found([at |-> IF node.mode = "cycle" THEN "cycle" ELSE "lockstep",
                children |-> IndexedChildren(nodes), len |-> ZipLength(node.mode, lens)],
               ZipIndexFn(node.mode, lens), AllYields(nodes))
TogetherOf(node, nodes) == Together(node, nodes, IndexedLens(nodes))

\* `index_zip` and `index_union`.
IndexTogether(node, prefix, scope, mult) ==
    TogetherOf(node,
      [i \in DOMAIN node.children |-> IndexNode(node.children[i], prefix, scope, mult)])

\* The positions whose tuples a predicate keeps.
KeptPositions(predicate, indexed, scope) ==
    {p \in 0 .. (indexed.len - 1) : Keeps(predicate, TupleAt(indexed, p), scope)}

\* An order: its operand and the positions the strategy chose.
IndexInOrder(node, inner, positions) ==
    Found([at |-> "select", child |-> inner.indexed, positions |-> positions,
           len |-> Len(positions)],
          OrderIndexFn(node, inner.fn, Len(positions)), inner.yields)

IndexOrder(node, inner, scope) ==
    LET predicate == ShapeInput(node.child, node.strategy).predicate IN
    IF inner.error # None THEN inner
    ELSE IF ~Accepts(node.strategy, inner.fn) THEN Lost("StrategyRejectsInput")
    ELSE IndexInOrder(node, inner,
           OrderPositions(node, inner.fn, inner.indexed.len,
                          KeptPositions(predicate, inner.indexed, scope)))

\* A filter holds the tuples it keeps.
HeldAt(inner, positions) ==
    Found(Tuples([i \in DOMAIN positions |-> TupleAt(inner.indexed, positions[i])]),
          None, inner.yields)
IndexFilter(node, inner, scope) ==
    IF inner.error # None THEN inner
    ELSE HeldAt(inner, Ascending(KeptPositions(node.predicate, inner.indexed, scope)))

\* `index_node`.
IndexNode(node, prefix, scope, mult) ==
    CASE node.op = "clause" /\ node.source.kind = "range" ->
           LET len == RangeLen(node.source) IN
           Found([at |-> "range", name |-> node.name, source |-> node.source, len |-> len],
                 Lattice(<<len>>), Yield(node.id, mult, len))
      [] node.op = "clause" /\ node.source.kind # "range" ->
           LET values == Values(node.source, prefix, scope) IN
           Found([at |-> "values", name |-> node.name, values |-> values, len |-> Len(values)],
                 Lattice(<<Len(values)>>), Yield(node.id, mult, Len(values)))
      [] node.op = "cartesian" -> IndexCartesian(node, prefix, scope, mult)
      [] node.op \in {"zip", "union"} -> IndexTogether(node, prefix, scope, mult)
      [] node.op = "filter" ->
           IndexFilter(node, IndexNode(node.child, prefix, scope, mult), scope)
      [] node.op = "order" ->
           IndexOrder(node,
             IndexNode(IF RanksFilter(node) THEN RankedInput(node)
                       ELSE ShapeInput(node.child, node.strategy), prefix, scope, mult),
             scope)

\* `evaluate_indexed`: the tuples by position, or the error that opening meets.
EvaluateIndexed(comp, scope) == IndexNode(comp, <<>>, scope, 1)

=============================================================================
