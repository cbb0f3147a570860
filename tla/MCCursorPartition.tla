------------------------- MODULE MCCursorPartition -------------------------
(***************************************************************************)
(* An instance of CursorPartition: every list of at most three deltas the  *)
(* parser accepts over a few sizes, ranges, two windows and every order.   *)
(***************************************************************************)
EXTENDS CursorPartition

Sized == {[kind |-> k, n |-> n] : k \in {"pct"}, n \in {0, 15, 33, 50}}
           \cup {[kind |-> "ord", n |-> n] : n \in {1, 2}}
Gaps == {[kind |-> "pct gap", n |-> 25], [kind |-> "ord gap", n |-> 1]}
Tails == {[kind |-> "star"]}
LastTails == {[kind |-> "fill"], [kind |-> "split", n |-> 2], [kind |-> "split", n |-> 3],
              [kind |-> "shaped", weights |-> <<25, 60, 15>>]}

Bounded == UNION {[1 .. n -> Sized \cup Gaps \cup Tails \cup LastTails] : n \in 1 .. 3}

\* What `parse_delta_list` accepts.
Parsed(list) ==
    /\ Cardinality({i \in DOMAIN list : IsTail(list[i])}) <= 1
    /\ \A i \in DOMAIN list :
         list[i] \in LastTails =>
           /\ i = Len(list)
           /\ list[i].kind = "fill" => i > 1 /\ list[i - 1] \in Sized
    /\ \E i \in DOMAIN list : list[i] \notin Gaps

Lists == {list \in Bounded : Parsed(list)}
Pct(n) == [kind |-> "pct", n |-> n]
Ends == {Pct(20), Pct(70), [kind |-> "ord", n |-> 2]}
Windows == {None, <<Pct(20), Pct(70)>>}

TheSpecs ==
    {[chunking |-> list, range |-> None, window |-> window, order |-> "unchanged"] :
       list \in Lists, window \in Windows}
    \cup
    {[chunking |-> list, range |-> None, window |-> None, order |-> order] :
       list \in {list \in Lists : Len(list) < 3},
       order \in {"smallest_first", "largest_first"}}
    \cup
    {[chunking |-> list, range |-> None, window |-> None, order |-> "random"] :
       list \in {list \in Lists : Len(list) < 3 /\ Last(list).kind # "fill"}}
    \cup
    {[chunking |-> <<>>, range |-> <<lo, hi>>, window |-> window, order |-> "unchanged"] :
       lo \in Ends, hi \in Ends, window \in Windows \cup {<<Pct(70), Pct(20)>>}}

=============================================================================
