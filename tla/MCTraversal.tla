---------------------------- MODULE MCTraversal ----------------------------
(***************************************************************************)
(* An instance of Traversal: comprehensions of every operator up to three  *)
(* levels over small axes, evaluated; and traversals over partition lists, *)
(* nested ones and one with None among its elements, dispensed.            *)
(***************************************************************************)
EXTENDS Traversal, TLC

Clause(id, name, source) == [op |-> "clause", id |-> id, name |-> name, source |-> source]
Range03 == [kind |-> "range", lo |-> 0, hi |-> 3, step |-> 1]
Range52 == [kind |-> "range", lo |-> 1, hi |-> 5, step |-> 2]
Of(values) == [kind |-> "list", values |-> values]
Reads(name, of) == [kind |-> "reads", name |-> name, of |-> of]

\* The axes: a is a range, a list, empty, or read from the wire k; b may also read
\* a, with a constant or a varying count.
As(id) == {Clause(id, "a", source) :
             source \in {Range03, Of(<<2, 2>>), Of(<<>>), Reads("k", 2 :> <<0, 1>>)}}
Bs(id) == {Clause(id, "b", source) :
             source \in {Range52, Of(<<>>),
                         Reads("a", [i \in 0 .. 2 |-> <<i, i + 1>>]),
                         Reads("a", [i \in 0 .. 2 |-> [j \in 1 .. i |-> j]])}}
C == Clause(3, "c", Of(<<1, 2>>))

Cartesian(children) == [op |-> "cartesian", children |-> children]
ZipOf(mode, children) == [op |-> "zip", mode |-> mode, children |-> children]
Union(children) == [op |-> "union", mode |-> "none", children |-> children]
Filter(child, name, in) == [op |-> "filter", child |-> child, predicate |-> [name |-> name, in |-> in]]
Order(child, strategy, truncation) ==
    [op |-> "order", child |-> child, strategy |-> strategy, truncation |-> truncation]

Modes == {"strict", "truncate", "cycle"}
Strategies == {"lex", "reverse_lex", "shuffle", "diagonal", "antidiagonal", "shells", "extrema"}

\* A non-Lex order over a dependent cartesian is refused when it is compiled (V4).
RECURSIVE Addressable(_)
Addressable(node) ==
    CASE node.op = "clause" -> TRUE
      [] node.op \in {"filter", "order"} -> Addressable(node.child)
      [] OTHER -> /\ node.op = "cartesian" => ~ReferencesAnEarlierAxis(node.children)
                  /\ \A i \in DOMAIN node.children : Addressable(node.children[i])

Pairs == {Cartesian(<<a, b>>) : a \in As(1), b \in Bs(2)}
           \cup {ZipOf(mode, <<a, b>>) : mode \in Modes, a \in As(1), b \in Bs(2)}
           \cup {Union(<<a, a2>>) : a \in As(1), a2 \in As(2)}
Filtered == {Filter(node, "a", {0, 2}) : node \in Pairs \cup As(1)}
Ordered(nodes) ==
    {Order(node, s, n) : node \in {node \in nodes : Addressable(node)},
                         s \in Strategies \ {"lex"}, n \in {None, 1, 3}}
      \cup {Order(node, "lex", n) : node \in nodes, n \in {None, 1, 3}}
Deep == {Cartesian(<<node, C>>) : node \in Pairs \cup Filtered}
          \cup {Cartesian(<<C, node>>) : node \in Pairs}
          \cup {Cartesian(<<a, C, b>>) : a \in As(1), b \in Bs(2)}
          \cup {Cartesian(<<Order(a, s, n), C>>) : a \in As(1), s \in {"lex", "reverse_lex"}, n \in {None, 1}}
          \cup {ZipOf(mode, <<node, C>>) : mode \in Modes, node \in Pairs}
OrdersOfOrders ==
    {Order(Order(Cartesian(<<Clause(1, "a", Range03), Clause(2, "b", Range52), C>>), s, n), s2, m) :
       s \in Strategies, s2 \in Strategies, n \in {None, 3}, m \in {None, 2}}
      \cup {Order(Filter(Order(Cartesian(<<Clause(1, "a", Range03), C>>), s, None), "a", {0, 2}), s2, 2) :
              s \in Strategies, s2 \in Strategies}
DeepOrdered == Ordered({Cartesian(<<Clause(1, "a", Range03), b, C>>) : b \in Bs(2)})

Comprehensions == Pairs \cup Filtered \cup Ordered(Pairs) \cup Ordered(Filtered)
                    \cup Deep \cup OrdersOfOrders \cup DeepOrdered

\* The fixed permutation of a count.
Rotated(n) == [i \in 1 .. n |-> (i + n \div 2) % n]

\* Lists of partitions as their values: an `over` value is a sequence of them.
Thirds == SplitEvenly(0, 0, 8, 3, 8)
Halves(p) == SplitEvenly(0, p.start_ord, p.end_ord, 2, p.base_extent)
AsValues(list) == [i \in DOMAIN list |-> <<list[i]>>]
Each == Clause(1, "p", Of(AsValues(Thirds)))
Inner == Clause(2, "q", Reads("p", [v \in ToSet(AsValues(Thirds)) |-> AsValues(Halves(v[1]))]))

Over(name) == [over |-> name, extent |-> "n"]
Free == [over |-> None, extent |-> "n"]

Driven ==
    {[comp |-> Order(Each, s, None), cursors |-> <<Over("p")>>, tiles |-> TRUE] :
       s \in {"lex", "extrema", "shuffle"}}
      \cup {[comp |-> Cartesian(<<Each, Inner>>), cursors |-> <<Over("q")>>, tiles |-> TRUE],
            [comp |-> Each, cursors |-> <<Free, Over("p")>>, tiles |-> FALSE],
            [comp |-> Clause(1, "p", Of(<<AsValues(Thirds)[1], Thirds, None>>)),
             cursors |-> <<Over("p")>>, tiles |-> FALSE],
            [comp |-> Clause(1, "a", Reads("k", 2 :> <<0, 1>>)), cursors |-> <<>>, tiles |-> FALSE]}

TheTraversals ==
    Driven \cup {[comp |-> comp, cursors |-> <<>>, tiles |-> FALSE] : comp \in Comprehensions}
TheWires == [k |-> {None, 2}, n |-> {5, 8}]

=============================================================================
