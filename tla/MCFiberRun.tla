----------------------------- MODULE MCFiberRun -----------------------------
(***************************************************************************)
(* Instances of FiberRun.                                                  *)
(***************************************************************************)
EXTENDS FiberRun

\* A traversal of four activations, and one of a single activation.
TwoStreams == <<4, 1>>
TheOffset == [t \in 1 .. 3 |-> IF t = 1 THEN 0 ELSE IF t = 2 THEN 4 ELSE 5]
AllModes == {"shared", "per_fiber", "stride"}

=============================================================================
