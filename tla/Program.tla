------------------------------ MODULE Program ------------------------------
(***************************************************************************)
(* What a compiled program tells every engine: its nodes, how they are     *)
(* wired, and the per-node attributes `compute_node_inventory` derives     *)
(* from the wiring (kernel/program.rs).                                    *)
(*                                                                         *)
(* The attributes are constants that satisfy the fixpoint equations the    *)
(* code iterates.  Nodes are numbered so that a source comes before its    *)
(* reader, so the equations have exactly one solution.                     *)
(***************************************************************************)
EXTENDS Naturals, Sequences, SequencesExt

CONSTANTS
    Slots,            \* the input slots: model values
    NodeCount,        \* the nodes are 1 .. NodeCount
    Wiring,           \* Wiring[n]: the sources of n, slots and nodes, in order
    Provenance,       \* Provenance[n]: the slots that reach n
    NondetNodes       \* the nodes no read may answer from memory

Nodes == 1 .. NodeCount

Sources(n) == ToSet(Wiring[n])

\* The upstream nodes of n.
Upstream(n) == Sources(n) \cap Nodes

ASSUME NodeCountAssumption == NodeCount \in Nat
ASSUME SlotsAssumption == Slots \cap Nodes = {}
ASSUME WiringAssumption ==
    /\ Wiring \in [Nodes -> Seq(Slots \cup Nodes)]
    /\ \A n \in Nodes : \A src \in Sources(n) \ Slots : src < n

\* `compute_node_inventory`, the input-provenance column: a slot reaches a
\* node that reads it and every node downstream of that one.
ASSUME ProvenanceAssumption ==
    Provenance = [n \in Nodes |-> UNION {IF src \in Slots THEN {src} ELSE Provenance[src]
                                           : src \in Sources(n)}]

\* `compute_node_inventory`, the nondeterminism column: a reader of a
\* volatile node is volatile.
ASSUME NondetAssumption ==
    /\ NondetNodes \subseteq Nodes
    /\ \A n \in Nodes : Sources(n) \cap NondetNodes # {} => n \in NondetNodes

\* `compute_dependents`: the nodes a write to slot s reaches.
Dependents(s) == {n \in Nodes : s \in Provenance[n]}

=============================================================================
