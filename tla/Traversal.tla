----------------------------- MODULE Traversal -----------------------------
(***************************************************************************)
(* A `for` traversal (kernel/activation.rs): it opens over its parent's    *)
(* wires, evaluates its comprehension once, and dispenses an activation a  *)
(* tuple, in order through the stream or by index to fibers, while the     *)
(* parent goes on writing.  An activation narrows the body's cursors to    *)
(* the partition its tuple binds.                                          *)
(***************************************************************************)
EXTENDS IndexedTuples, Partition

CONSTANTS
    Traversals,   \* the compiled traversals: comprehension, body cursors, tiles
    WireValues,   \* the values of each wire of the parent
    Dispensed     \* bound: the traversals whose activations are made

VARIABLES
    wires,        \* the parent's wires
    traversal,    \* the traversal opened, or None
    opened,       \* the wires captured and cascaded at the opening
    tuples,       \* the stream's tuples by position, with their index function
    next,         \* the dispense position
    activated     \* by position, the outcomes of the activations made of it

vars == <<wires, traversal, opened, tuples, next, activated>>

Wirings == {w \in [DOMAIN WireValues -> UNION {WireValues[n] : n \in DOMAIN WireValues}] :
              \A n \in DOMAIN w : w[n] \in WireValues[n]}

Init ==
    /\ wires \in Wirings
    /\ traversal = None /\ opened = None /\ tuples = None
    /\ next = 0 /\ activated = <<>>

IsOpen == traversal # None /\ tuples.error = None
StreamLen == tuples.indexed.len
Positions == 0 .. (StreamLen - 1)

-----------------------------------------------------------------------------

\* A host or another statement writes a wire of the parent.
WriteWire(w, value) ==
    /\ wires' = [wires EXCEPT ![w] = value]
    /\ UNCHANGED <<traversal, opened, tuples, next, activated>>

\* `open_traversal`: the wires are read once, here.
Open(t) ==
    LET evaluated == EvaluateIndexed(t.comp, wires) IN
    /\ traversal = None
    /\ traversal' = t
    /\ opened' = wires
    /\ tuples' = evaluated
    /\ activated' = [i \in 0 .. (evaluated.indexed.len - 1) |-> {}]
    /\ UNCHANGED <<wires, next>>

\* Mutant of BodyScope: the cascade is read when an activation is made.
BodyScopeNow == wires

\* The cascade bound into every activation.
BodyScope == opened

\* `cursor_over_partitions_on`: the partitions an `over` value denotes against an
\* extent; one that is None denotes none.
OverPartitions(cursor, tuple) ==
    LET value == Resolve(cursor.over, tuple, BodyScope)
    IN IF value = None THEN <<>>
       ELSE [i \in DOMAIN value |-> Projected(value[i], BodyScope[cursor.extent])]

\* One cursor of the body: its slice.
Slice(cursor, tuple) ==
    IF cursor.over = None THEN [start |-> 0, end |-> BodyScope[cursor.extent]]
    ELSE LET p == OverPartitions(cursor, tuple)[1]
         IN [start |-> p.start_ord, end |-> p.end_ord]

SliceLen(slice) == IF slice.end < slice.start THEN 0 ELSE slice.end - slice.start

\* The narrowest slice, the first of equals.
Narrowest(slices) ==
    slices[CHOOSE i \in DOMAIN slices : \A j \in DOMAIN slices :
             /\ SliceLen(slices[i]) <= SliceLen(slices[j])
             /\ SliceLen(slices[i]) = SliceLen(slices[j]) => i <= j]

\* `narrow_cursors_on`, with the error of a cursor whose `over` is not one partition.
Narrowed(tuple) ==
    LET cursors == traversal.cursors
        many == {i \in DOMAIN cursors :
                   cursors[i].over # None /\ Len(OverPartitions(cursors[i], tuple)) # 1}
    IN IF many # {} THEN [error |-> "over", cursor |-> None]
       ELSE IF cursors = <<>> THEN [error |-> None, cursor |-> None]
       ELSE [error |-> None, cursor |-> Narrowest([i \in DOMAIN cursors |-> Slice(cursors[i], tuple)])]

\* `activation_on`: a fresh kernel over the body with the tuple and the cascade
\* bound, its cursors narrowed.
ActivationAt(i) == [coords |-> TupleAt(tuples.indexed, i)] @@ Narrowed(TupleAt(tuples.indexed, i))

Record(i) == activated' = [activated EXCEPT ![i] = @ \cup {ActivationAt(i)}]

\* `TraversalStream::advance`: the position moves whether or not the activation
\* can be made.
Advance ==
    /\ IsOpen /\ traversal \in Dispensed
    /\ next < StreamLen
    /\ next' = next + 1
    /\ Record(next)
    /\ UNCHANGED <<wires, traversal, opened, tuples>>

\* `TraversalStream::seek`.
Seek(index) ==
    /\ IsOpen /\ traversal \in Dispensed
    /\ next' = IF index < StreamLen THEN index ELSE StreamLen
    /\ UNCHANGED <<wires, traversal, opened, tuples, activated>>

\* `TraversalStream::activation`, by a fiber with an index of its own.
Activation(i) ==
    /\ IsOpen /\ traversal \in Dispensed
    /\ Record(i)
    /\ UNCHANGED <<wires, traversal, opened, tuples, next>>

Next ==
    \/ \E w \in DOMAIN WireValues : \E value \in WireValues[w] : WriteWire(w, value)
    \/ \E t \in Traversals : Open(t)
    \/ Advance
    \/ IsOpen /\ \E index \in 0 .. StreamLen + 1 : Seek(index)
    \/ IsOpen /\ \E i \in Positions : Activation(i)

Spec == Init /\ [][Next]_vars

-----------------------------------------------------------------------------

\* The evaluation has just happened: nothing was dispensed and no wire written.
JustOpened ==
    /\ traversal # None /\ opened = wires /\ next = 0
    /\ \A i \in DOMAIN activated : activated[i] = {}

\* The indexed evaluator yields the tuples of the reference evaluator, in its
\* order, claims the same addressing, reports the same clause yields, and meets
\* an error exactly when it does.
EvaluatorsAgree ==
    JustOpened =>
      LET reference == Materialized(traversal.comp, <<>>, opened, 1) IN
      /\ tuples.error = reference.error
      /\ tuples.error = None =>
           /\ [i \in 1 .. StreamLen |-> TupleAt(tuples.indexed, i - 1)] = reference.tuples
           /\ tuples.fn = reference.fn
           /\ tuples.yields = reference.yields

\* An addressing a node claims addresses its tuples: every position it counts and
\* no other.
AddressingIsExact ==
    JustOpened /\ tuples.error = None /\ tuples.fn # None => IndexFnSize(tuples.fn) = StreamLen

\* What the order that was opened emitted, and what it would have untruncated.
Emission == [i \in 1 .. StreamLen |-> TupleAt(tuples.indexed, i - 1)]
Untruncated == Materialized([traversal.comp EXCEPT !.truncation = None], <<>>, opened, 1).tuples
Occurrences(tuple, seq) == Cardinality({i \in DOMAIN seq : seq[i] = tuple})
AnOrder == JustOpened /\ tuples.error = None /\ traversal.comp.op = "order"

\* An order is a permutation of its operand's tuples.  Truncated, it emits some of
\* them, each as often at most, and, but for the strata of `extrema`, as many as it
\* was asked for: over a filter, while as many survive.  Except in a shuffle these
\* are the first of the untruncated order.
OrdersSelectTuples ==
    AnOrder =>
      LET order == traversal.comp
          operand == Materialized(order.child, <<>>, opened, 1).tuples
      IN /\ \A t \in ToSet(Untruncated) \cup ToSet(operand) :
              Occurrences(t, Untruncated) = Occurrences(t, operand)
         /\ \A t \in ToSet(Emission) : Occurrences(t, Emission) <= Occurrences(t, operand)
         /\ order.strategy # "extrema" => StreamLen = Capped(order.truncation, Len(Untruncated))
         /\ order.strategy # "shuffle" => IsPrefix(Emission, Untruncated)

\* comprehension_forms.md, `order`: a truncation keeps the first tuples of the new
\* order.  A truncated shuffle does not.
TruncationIsPrefix == AnOrder => IsPrefix(Emission, Untruncated)

\* An activation of a position is the same whenever, and through whichever of the
\* two ways, it is made: the parent's later writes do not reach it.
ActivationsAreRepeatable == \A i \in DOMAIN activated : Cardinality(activated[i]) <= 1

\* A traversal over a list of partitions that covers its extent visits each ordinal
\* of the body's cursor at most once, and each of them when every position has
\* been activated, whatever the extent of the list's own cursor.
OrdinalsVisitedOnce ==
    traversal # None /\ traversal.tiles /\ IsOpen =>
      LET extent == opened[traversal.cursors[1].extent]
          visits(o) == {i \in DOMAIN activated : \E a \in activated[i] :
                          /\ a.error = None
                          /\ a.cursor.start <= o /\ o < a.cursor.end}
      IN \A o \in 0 .. (extent - 1) :
           /\ Cardinality(visits(o)) <= 1
           /\ (\A i \in DOMAIN activated : activated[i] # {}) => visits(o) # {}

=============================================================================
