-------------------------- MODULE MCTier1Executor --------------------------
(***************************************************************************)
(* An instance of Tier1Executor: two fibers whose outputs depend on the    *)
(* cursors srcA and srcB, or on srcC alone, so that a run advances rows    *)
(* over the first two or leases batches of the third.                      *)
(***************************************************************************)
EXTENDS Tier1Executor

CONSTANTS f1, f2, srcA, srcB, srcC

TheInputs == <<None, srcA, srcB, srcA, srcC>>
TheProvenance == [pair |-> {1, 2, 3, 4}, one |-> {5}]
TheFields == {{"pair"}, {"one"}}
TheStart == [s \in Sources |-> IF s = srcC THEN 1 ELSE 0]
TheEnd == [s \in Sources |-> IF s = srcA THEN 3 ELSE IF s = srcB THEN 2 ELSE 4]

=============================================================================
