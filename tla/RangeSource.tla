---------------------------- MODULE RangeSource ----------------------------
(***************************************************************************)
(* `RangeSource` (iteration/source.rs): the ordinals Start[s] ..           *)
(* End[s] - 1 of each source s, handed out by a `fetch_add` on a cursor    *)
(* all its readers share.                                                  *)
(***************************************************************************)
EXTENDS Naturals, FiniteSets

CONSTANTS
    Readers,      \* the fibers that reserve
    Sources,      \* the sources
    Start,        \* Start[s]: the first ordinal of source s
    End,          \* End[s]: the end of its range, exclusive
    Modulus,      \* a cursor's width: 2^64 in the code
    Wraps,        \* whether a cursor's wrap-around is explored
    MaxRounds     \* bound of the model: rounds

ASSUME EndAssumption ==
    /\ Modulus \in Nat
    /\ Start \in [Sources -> Nat]
    /\ End \in [Sources -> 0 .. (Modulus - 1)]
    /\ \A s \in Sources : Start[s] <= End[s]
ASSUME WrapsAssumption == Wraps \in BOOLEAN /\ MaxRounds \in Nat

VARIABLES
    cursor,       \* cursor[s]: the shared cursor
    round,        \* round[s]: rounds begun
    claimed       \* claimed[s][r]: the ordinals reader r was handed this round

rangeVars == <<cursor, round, claimed>>

RangeInit ==
    /\ cursor = Start
    /\ round = [s \in Sources |-> 1]
    /\ claimed = [s \in Sources |-> [r \in Readers |-> {}]]

\* What a reservation of `stride` ordinals returns: what of the range is left
\* from the cursor's old value on.  The sum wraps, as in a release build.
Ordinals(s, stride) ==
    LET next == (cursor[s] + stride) % Modulus
        actual_end == IF next < End[s] THEN next ELSE End[s]
    IN IF cursor[s] < End[s] THEN cursor[s] .. (actual_end - 1) ELSE {}

\* Mutant of Reserve: the cursor advances by one whatever the stride.
ReserveAdvancesByOne(s, r, stride) ==
    /\ Wraps \/ cursor[s] + stride < Modulus
    /\ cursor' = [cursor EXCEPT ![s] = @ + 1]
    /\ claimed' = [claimed EXCEPT ![s][r] = @ \cup Ordinals(s, stride)]
    /\ UNCHANGED round

\* `reserve`: one fetch_add.
Reserve(s, r, stride) ==
    /\ Wraps \/ cursor[s] + stride < Modulus
    /\ cursor' = [cursor EXCEPT ![s] = (@ + stride) % Modulus]
    /\ claimed' = [claimed EXCEPT ![s][r] = @ \cup Ordinals(s, stride)]
    /\ UNCHANGED round

\* `rewind_for_poll`: one store.
RewindForPoll(s) ==
    /\ round[s] < MaxRounds
    /\ cursor' = [cursor EXCEPT ![s] = Start[s]]
    /\ round' = [round EXCEPT ![s] = @ + 1]
    /\ claimed' = [claimed EXCEPT ![s] = [r \in Readers |-> {}]]

\* `global_consumed`: the ordinals read of a source, from its cursor.
GlobalConsumed(s) ==
    LET read == IF cursor[s] < Start[s] THEN 0 ELSE cursor[s] - Start[s]
        extent == End[s] - Start[s]
    IN IF read < extent THEN read ELSE extent

-----------------------------------------------------------------------------

\* The progress a source reports is the number of ordinals handed out: the
\* reservations that found it exhausted moved the cursor and count for nothing.
ProgressIsWhatWasRead ==
    \A s \in Sources :
      GlobalConsumed(s) = Cardinality(UNION {claimed[s][r] : r \in Readers})

\* The abstract data source each range source stands for.
Promise(s) == INSTANCE Dispenser WITH
    Start <- Start[s], Limit <- End[s], round <- round[s], claimed <- claimed[s]

\* Each range source keeps the promise of a data source, with rewinds, rows
\* advanced over it and batches of every size leased from it.
SourcesKeepPromise ==
    /\ \A s \in Sources : Promise(s)!DispenserInit
    /\ [][\A s \in Sources :
            [Promise(s)!DispenserNext]_(Promise(s)!dispenserVars)]_rangeVars

=============================================================================
