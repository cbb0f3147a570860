--------------------------- MODULE MCInterpreter ---------------------------
(***************************************************************************)
(* Instances of Interpreter: the programs, their bindings and the bounds.  *)
(***************************************************************************)
EXTENDS Interpreter, TLC

CONSTANTS c1, c2, c3, s1, s2, x, self, p1, p2, wA, wB, none

\* The program graphs, as wirings.

\* x and the cell slot s1 in a chain: 1 reads s1, 2 reads 1, 3 reads 2 and x;
\* node 4 is another reader of 1.
Chain == <<<<s1>>, <<1>>, <<2, x>>, <<1>>>>

\* s1 reaches node 3 along two memoized paths; x dirties node 3 alone.
Diamond == <<<<s1>>, <<s1>>, <<1, 2, x>>>>

\* Two cell slots meet in the memoized node 3, which the volatile node 4 reads.
Meet == <<<<s1>>, <<s2>>, <<1, 2, x>>, <<3>>>>

\* The provenance of a wiring, computed (Provenance is stated as a fixpoint).
ProvenanceOf(wiring) ==
    LET reach[n \in 1 .. Len(wiring)] ==
          UNION {IF src \in {s1, s2, x} THEN {src} ELSE reach[src] : src \in ToSet(wiring[n])}
    IN reach

ChainProvenance == ProvenanceOf(Chain)
DiamondProvenance == ProvenanceOf(Diamond)
MeetProvenance == ProvenanceOf(Meet)

OneCell == {c1}
ThreeCells == {c1, c2, c3}
OneWord == [c \in {c1} |-> wA]
MixedWords == c1 :> wA @@ c2 :> wB @@ c3 :> wB

OneSlot == {s1, x}
TwoSlots == {s1, s2, x}
BindOne == s1 :> c1 @@ x :> none
BindSecond == s1 :> none @@ s2 :> c2 @@ x :> none
BindBoth == s1 :> c1 @@ s2 :> c1 @@ x :> none
AttachFirst == {<<s1, c1>>, <<s1, c3>>}

=============================================================================
