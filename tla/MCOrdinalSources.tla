-------------------------- MODULE MCOrdinalSources --------------------------
(***************************************************************************)
(* An instance of ExtendingRangeSource: a base chunk of two ordinals, a    *)
(* cap at four, and a policy that may answer one, two or `None` each time. *)
(***************************************************************************)
EXTENDS ExtendingRangeSource

CONSTANTS f1, f2, host, nobody

AnyAnswer == [n \in 0 .. (Limit - Start) |-> {0, 1, 2}]

=============================================================================
