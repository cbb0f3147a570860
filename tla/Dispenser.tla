----------------------------- MODULE Dispenser -----------------------------
(***************************************************************************)
(* What a data source promises the fibers that read it (the documentation  *)
(* of `DataSource::reserve` and `DataSourceFactory::rewind_for_poll`,      *)
(* iteration/source.rs): in each round the ordinals from the start on are  *)
(* handed out once each and with none left out, and no ordinal at or past  *)
(* the limit is.  How large a piece a reservation gets is not promised.    *)
(***************************************************************************)
EXTENDS Naturals

CONSTANTS
    Readers,      \* the fibers that reserve
    Start,        \* the first ordinal of a round
    Limit         \* no ordinal at or past this one exists

ASSUME RangeAssumption == Start \in Nat /\ Limit \in Nat

VARIABLES
    round,        \* rounds begun
    claimed       \* claimed[r]: the ordinals reader r was handed this round

dispenserVars == <<round, claimed>>

Claimed == UNION {claimed[r] : r \in Readers}

DispenserInit ==
    /\ round = 1
    /\ claimed = [r \in Readers |-> {}]

\* Reader r is handed the ordinals lo .. hi - 1, the next ones of the round.
Hand(r, lo, hi) ==
    /\ Claimed = Start .. (lo - 1)
    /\ lo < hi
    /\ claimed' = [claimed EXCEPT ![r] = @ \cup lo .. (hi - 1)]
    /\ UNCHANGED round

\* A new round.
Rewind ==
    /\ round' = round + 1
    /\ claimed' = [r \in Readers |-> {}]

DispenserNext ==
    \/ Rewind
    \/ \E r \in Readers, lo \in Start .. Limit, hi \in Start .. Limit : Hand(r, lo, hi)

DispenserSpec == DispenserInit /\ [][DispenserNext]_dispenserVars

\* No ordinal is handed to two readers in one round.
AtMostOnce ==
    \A r, q \in Readers : r # q => claimed[r] \cap claimed[q] = {}

=============================================================================
