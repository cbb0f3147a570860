-------------------------- MODULE MCResourceScope --------------------------
(***************************************************************************)
(* Instances of ResourceScope.                                             *)
(***************************************************************************)
EXTENDS ResourceScope

CONSTANTS a, b, c, t1, t2, none

=============================================================================
