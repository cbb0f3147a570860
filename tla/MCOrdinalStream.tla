-------------------------- MODULE MCOrdinalStream --------------------------
(***************************************************************************)
(* An instance of OrdinalStream: leases that begin or end inside a packet  *)
(* of two or four lanes, hold one packet exactly, or are empty.            *)
(***************************************************************************)
EXTENDS OrdinalStream

TheLeases == {[lo |-> 1, hi |-> 7], [lo |-> 2, hi |-> 3], [lo |-> 4, hi |-> 8],
              [lo |-> 3, hi |-> 3]}

=============================================================================
