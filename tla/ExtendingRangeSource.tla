------------------------ MODULE ExtendingRangeSource ------------------------
(***************************************************************************)
(* `ExtendingRangeSource` (iteration/source.rs): a range whose end a       *)
(* policy may move while readers reserve from it and a host rewinds it.    *)
(*                                                                         *)
(* A reservation below the end is a load of the cursor, a load of the end  *)
(* and a compare-and-swap of the cursor, with no lock.  At the end, and in *)
(* a rewind, the pair is written under the round lock.  One action is one  *)
(* access to the cursor or the lock; the end is written under the lock     *)
(* alone, so a holder's reads of it are put with the step they decide.     *)
(***************************************************************************)
EXTENDS Dispenser

CONSTANTS
    Base,         \* the base chunk
    Strides,      \* how many ordinals a reader asks for
    Policy,       \* Policy[n]: what the policy may answer after n ordinals;
                  \* 0 is `None`
    Host,         \* the thread that rewinds
    Unlocked,     \* the holder of a lock nobody holds
    Overlap,      \* whether readers reserve while the host rewinds
    MaxRounds     \* bound of the model: rounds

ASSUME BaseAssumption == Base \in Nat /\ Start <= Limit
ASSUME StridesAssumption == Strides \subseteq Nat \ {0}
ASSUME PolicyAssumption == Policy \in [0 .. (Limit - Start) -> SUBSET Nat]
ASSUME ThreadsAssumption == Host # Unlocked /\ {Host, Unlocked} \cap Readers = {}
ASSUME OverlapAssumption == Overlap \in BOOLEAN /\ MaxRounds \in Nat

VARIABLES
    cursor,       \* the next ordinal to hand out
    end,          \* the round's end so far, exclusive
    holder,       \* who holds the round lock
    reader,       \* reader[r]: where r is in `reserve`, and what it loaded
    rewinding     \* the rewind has stored the end and not yet the cursor

vars == <<cursor, end, holder, reader, rewinding, dispenserVars>>

Smaller(a, b) == IF a < b THEN a ELSE b

Idle == [at |-> "idle", stride |-> 0, cur |-> 0, fin |-> 0]
Finished == [Idle EXCEPT !.at = "finished"]
At(r, where) == reader[r].at = where
Go(r, where) == reader' = [reader EXCEPT ![r].at = where]
Reserving(r) == ~At(r, "idle") /\ ~At(r, "finished")

Init ==
    /\ DispenserInit
    /\ cursor = Start
    /\ end = Smaller(Start + Base, Limit)
    /\ holder = Unlocked
    /\ reader = [r \in Readers |-> Idle]
    /\ rewinding = FALSE

-----------------------------------------------------------------------------
(* `reserve`, below the end.                                               *)

\* A fiber reserves until a reservation returns `None`.
Reserve(r) ==
    /\ At(r, "idle")
    /\ Overlap \/ holder # Host
    /\ \E n \in Strides : reader' = [reader EXCEPT ![r].at = "load", ![r].stride = n]
    /\ UNCHANGED <<cursor, end, holder, rewinding, dispenserVars>>

LoadCursor(r) ==
    /\ At(r, "load")
    /\ reader' = [reader EXCEPT ![r].at = "loaded", ![r].cur = cursor]
    /\ UNCHANGED <<cursor, end, holder, rewinding, dispenserVars>>

LoadEnd(r) ==
    /\ At(r, "loaded")
    /\ reader' = [reader EXCEPT ![r].at = IF reader[r].cur < end THEN "claim" ELSE "lock",
                                ![r].fin = end]
    /\ UNCHANGED <<cursor, end, holder, rewinding, dispenserVars>>

Target(r) == Smaller(reader[r].cur + reader[r].stride, reader[r].fin)

\* Mutant of Claim: a store of the cursor in place of the compare-and-swap.
ClaimByStore(r) ==
    /\ At(r, "claim")
    /\ cursor' = Target(r)
    /\ claimed' = [claimed EXCEPT ![r] = @ \cup reader[r].cur .. (Target(r) - 1)]
    /\ reader' = [reader EXCEPT ![r] = Idle]
    /\ UNCHANGED <<end, holder, rewinding, round>>

\* The compare-and-swap: the reader owns [cur, target), or tries again.
Claim(r) ==
    /\ At(r, "claim")
    /\ IF cursor = reader[r].cur
         THEN /\ cursor' = Target(r)
              /\ claimed' = [claimed EXCEPT ![r] = @ \cup reader[r].cur .. (Target(r) - 1)]
              /\ reader' = [reader EXCEPT ![r] = Idle]
         ELSE Go(r, "load") /\ UNCHANGED <<cursor, claimed>>
    /\ UNCHANGED <<end, holder, rewinding, round>>

-----------------------------------------------------------------------------
(* `reserve`, at the end: under the round lock.                            *)

Lock(r) ==
    /\ At(r, "lock") /\ holder = Unlocked
    /\ holder' = r
    /\ Go(r, "recheck")
    /\ UNCHANGED <<cursor, end, rewinding, dispenserVars>>

\* The fresh read of the cursor.
Recheck(r) ==
    /\ At(r, "recheck")
    /\ reader' = [reader EXCEPT ![r].at = "decide", ![r].cur = cursor]
    /\ UNCHANGED <<cursor, end, holder, rewinding, dispenserVars>>

\* Mutant of Resume: the way back to the claim leaks the lock.
ResumeLocked(r) ==
    /\ At(r, "decide") /\ reader[r].cur < end
    /\ Go(r, "load")
    /\ UNCHANGED <<cursor, end, holder, rewinding, dispenserVars>>

\* The end moved meanwhile: claim from the new end.
Resume(r) ==
    /\ At(r, "decide") /\ reader[r].cur < end
    /\ holder' = Unlocked
    /\ Go(r, "load")
    /\ UNCHANGED <<cursor, end, rewinding, dispenserVars>>

\* The end is reached: grow it as the policy says, up to the cap.
Extend(r) ==
    /\ At(r, "decide") /\ reader[r].cur >= end /\ end < Limit
    /\ \E delta \in Policy[end - Start] \ {0} : end' = Smaller(end + delta, Limit)
    /\ holder' = Unlocked
    /\ Go(r, "load")
    /\ UNCHANGED <<cursor, rewinding, dispenserVars>>

\* The end is reached and stays: the cap is reached or the policy says `None`.
Exhaust(r) ==
    /\ At(r, "decide") /\ reader[r].cur >= end
    /\ end >= Limit \/ 0 \in Policy[end - Start]
    /\ holder' = Unlocked
    /\ reader' = [reader EXCEPT ![r] = Finished]
    /\ UNCHANGED <<cursor, end, rewinding, dispenserVars>>

-----------------------------------------------------------------------------
(* `rewind_for_poll`.                                                      *)

BeginRewind ==
    /\ round < MaxRounds /\ holder = Unlocked
    /\ Overlap \/ \A r \in Readers : ~Reserving(r)
    /\ holder' = Host
    /\ UNCHANGED <<cursor, end, reader, rewinding, dispenserVars>>

RewindEnd ==
    /\ holder = Host /\ ~rewinding
    /\ end' = Smaller(Start + Base, Limit)
    /\ rewinding' = TRUE
    /\ UNCHANGED <<cursor, holder, reader, dispenserVars>>

\* The round begins with the store of the cursor; fibers that were told the
\* old round was exhausted read the new one.
RewindCursor ==
    /\ rewinding
    /\ cursor' = Start
    /\ rewinding' = FALSE
    /\ holder' = Unlocked
    /\ reader' = [r \in Readers |-> IF At(r, "finished") THEN Idle ELSE reader[r]]
    /\ Rewind
    /\ UNCHANGED end

ReserveStep(r) ==
    \/ LoadCursor(r) \/ LoadEnd(r) \/ Claim(r)
    \/ Lock(r) \/ Recheck(r) \/ Resume(r) \/ Extend(r) \/ Exhaust(r)

RewindStep == RewindEnd \/ RewindCursor

Next ==
    \/ \E r \in Readers : Reserve(r) \/ ReserveStep(r)
    \/ BeginRewind \/ RewindStep

Spec == Init /\ [][Next]_vars

\* Threads in a call keep running.
Fairness == WF_vars(RewindStep) /\ \A r \in Readers : WF_vars(ReserveStep(r))

FairSpec == Spec /\ Fairness

-----------------------------------------------------------------------------

Places == {"idle", "finished", "load", "loaded", "claim", "lock", "recheck", "decide"}

\* The type invariant.
TypeOK ==
    /\ cursor \in Start .. Limit
    /\ end \in Start .. Limit
    /\ holder \in Readers \cup {Host, Unlocked}
    /\ reader \in [Readers -> [at : Places, stride : Nat, cur : Nat, fin : Nat]]
    /\ rewinding \in BOOLEAN
    /\ round \in Nat
    /\ claimed \in [Readers -> SUBSET (Start .. (Limit - 1))]

\* `reserve` and the comment of `rewind_for_poll`: a claim stays below the end
\* of the round it is made in, so no ordinal is handed out that the policy of
\* that round was not asked for.
ClaimsWithinExtent == ~rewinding => cursor <= end

\* The extending source keeps the promise of a data source, with readers,
\* extensions and rewinds interleaved in any way.
KeepsPromise == DispenserSpec

\* A reservation returns: to a range, or to `None`.
ReserveReturns == \A r \in Readers : Reserving(r) ~> ~Reserving(r)

=============================================================================
