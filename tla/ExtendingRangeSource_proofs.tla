-------------------- MODULE ExtendingRangeSource_proofs --------------------
(***************************************************************************)
(* The extending source keeps the promise of a data source, for any number *)
(* of readers, any policy, any strides and any interleaving of             *)
(* reservations, extensions and rewinds.                                   *)
(*                                                                         *)
(* The argument rests on the cursor alone: what a round has handed out is  *)
(* always Start .. cursor - 1, and a reader moves the cursor only by a     *)
(* compare-and-swap from the very value it hands out from.  It does not    *)
(* matter which round the value was loaded in, which is why the proof goes *)
(* through although a claim may use the end of an earlier round.           *)
(***************************************************************************)
EXTENDS ExtendingRangeSource, TLAPS

-----------------------------------------------------------------------------
(* The promise of every data source (Dispenser).                            *)

\* Handing out the interval lo .. hi - 1 next to Start .. lo - 1 leaves the
\* round with Start .. hi - 1.
LEMMA HandExtends ==
    ASSUME NEW r \in Readers, NEW lo \in Nat, NEW hi \in Nat,
           Start <= lo, lo < hi,
           claimed \in [Readers -> SUBSET Nat],
           Claimed = Start .. (lo - 1),
           claimed' = [claimed EXCEPT ![r] = @ \cup lo .. (hi - 1)]
    PROVE  Claimed' = Start .. (hi - 1)
<1>1. Claimed' = Claimed \cup lo .. (hi - 1)
  <2>1. ASSUME NEW n, n \in Claimed' PROVE n \in Claimed \cup lo .. (hi - 1)
    <3>1. PICK q \in Readers : n \in claimed'[q]
      BY <2>1 DEF Claimed
    <3> QED BY <3>1 DEF Claimed
  <2>2. ASSUME NEW n \in Claimed PROVE n \in Claimed'
    <3>1. PICK q \in Readers : n \in claimed[q]
      BY <2>2 DEF Claimed
    <3>2. n \in claimed'[q]
      BY <3>1
    <3> QED BY <3>2 DEF Claimed
  <2>3. ASSUME NEW n \in lo .. (hi - 1) PROVE n \in Claimed'
    <3>1. n \in claimed'[r]
      BY <2>3
    <3> QED BY <3>1 DEF Claimed
  <2> QED BY <2>1, <2>2, <2>3
<1>2. Start .. (lo - 1) \cup lo .. (hi - 1) = Start .. (hi - 1)
  BY RangeAssumption
<1> QED BY <1>1, <1>2

\* In every round of every data source that keeps the promise, no ordinal is
\* handed to two readers.
THEOREM HandedAtMostOnce == DispenserSpec => []AtMostOnce
<1> DEFINE Inv == claimed \in [Readers -> SUBSET Nat] /\ AtMostOnce
<1>1. DispenserInit => Inv
  BY DEF DispenserInit, AtMostOnce
<1>2. Inv /\ [DispenserNext]_dispenserVars => Inv'
  <2> SUFFICES ASSUME Inv, [DispenserNext]_dispenserVars PROVE Inv'
    OBVIOUS
  <2>1. CASE Rewind
    BY <2>1 DEF Rewind, AtMostOnce
  <2>2. ASSUME NEW r \in Readers, NEW lo \in Start .. Limit, NEW hi \in Start .. Limit,
               Hand(r, lo, hi)
        PROVE  Inv'
    <3>1. claimed' \in [Readers -> SUBSET Nat]
      BY <2>2, RangeAssumption DEF Hand
    <3>2. ASSUME NEW q \in Readers PROVE claimed[q] \cap lo .. (hi - 1) = {}
      <4>1. claimed[q] \subseteq Start .. (lo - 1)
        BY <2>2 DEF Hand, Claimed
      <4> QED BY <4>1, RangeAssumption
    <3>3. ASSUME NEW p \in Readers, NEW q \in Readers, p # q
          PROVE  claimed'[p] \cap claimed'[q] = {}
      <4>1. claimed[p] \cap claimed[q] = {}
        BY <3>3 DEF AtMostOnce
      <4>2. CASE p = r
        BY <2>2, <3>2, <3>3, <4>1, <4>2 DEF Hand
      <4>3. CASE q = r
        BY <2>2, <3>2, <3>3, <4>1, <4>3 DEF Hand
      <4>4. CASE p # r /\ q # r
        BY <2>2, <4>1, <4>4 DEF Hand
      <4> QED BY <4>2, <4>3, <4>4
    <3> QED BY <3>1, <3>3 DEF AtMostOnce
  <2>3. CASE UNCHANGED dispenserVars
    BY <2>3 DEF dispenserVars, AtMostOnce
  <2> QED BY <2>1, <2>2, <2>3 DEF DispenserNext
<1>3. Inv => AtMostOnce
  OBVIOUS
<1> QED BY <1>1, <1>2, <1>3, PTL DEF DispenserSpec

-----------------------------------------------------------------------------
(* The extending source.                                                   *)

\* The round has handed out everything below the cursor.
HandedOut == Claimed = Start .. (cursor - 1)

\* What a reader about to claim has loaded: an end above its cursor.
ClaimIsForward ==
    \A r \in Readers :
        /\ reader[r].fin <= Limit
        /\ At(r, "claim") => reader[r].cur < reader[r].fin
        /\ reader[r].at \notin {"idle", "finished"} => reader[r].stride > 0

IInv == TypeOK /\ HandedOut /\ ClaimIsForward

-----------------------------------------------------------------------------

\* A reader about to claim hands out a nonempty piece below the limit.
LEMMA TargetForward ==
    ASSUME IInv, NEW r \in Readers, At(r, "claim")
    PROVE  /\ reader[r].cur \in Nat /\ Target(r) \in Nat
           /\ reader[r].cur < Target(r) /\ Target(r) <= Limit
<1>1. reader[r] \in [at : Places, stride : Nat, cur : Nat, fin : Nat]
  BY DEF IInv, TypeOK
<1>2. reader[r].fin <= Limit /\ reader[r].cur < reader[r].fin /\ reader[r].stride > 0
  BY DEF IInv, ClaimIsForward, At
<1> QED BY <1>1, <1>2, RangeAssumption DEF Target, Smaller

\* The inductive invariant holds in every source `new` or `bounded` builds.
LEMMA InitIInv == Init => IInv
<1> SUFFICES ASSUME Init PROVE IInv
  OBVIOUS
<1>1. Start <= Limit
  BY BaseAssumption
<1>2. TypeOK
  <2>1. Idle \in [at : Places, stride : Nat, cur : Nat, fin : Nat]
    BY DEF Idle, Places
  <2>2. cursor \in Start .. Limit /\ end \in Start .. Limit
    BY <1>1, RangeAssumption, BaseAssumption DEF Init, Smaller
  <2>3. claimed \in [Readers -> SUBSET (Start .. (Limit - 1))]
    BY DEF Init, DispenserInit
  <2> QED BY <2>1, <2>2, <2>3 DEF Init, DispenserInit, TypeOK
<1>3. HandedOut
  <2>1. Claimed = {}
    BY DEF Init, DispenserInit, Claimed
  <2>2. Start .. (cursor - 1) = {}
    BY RangeAssumption DEF Init
  <2> QED BY <2>1, <2>2 DEF HandedOut
<1>4. ClaimIsForward
  <2>1. 0 <= Limit
    BY RangeAssumption
  <2> QED BY <2>1 DEF Init, ClaimIsForward, Idle, At
<1> QED BY <1>2, <1>3, <1>4 DEF IInv

\* A step that moves neither the cursor nor the round hands nothing out.
LEMMA HandedOutStutters ==
    ASSUME HandedOut, UNCHANGED <<cursor, claimed>>
    PROVE  HandedOut'
BY DEF HandedOut, Claimed

\* What a step does to IInv and to the abstract state, one action at a time.
LEMMA NextIInv ==
    ASSUME IInv, [Next]_vars
    PROVE  IInv' /\ [DispenserNext]_dispenserVars
<1> USE RangeAssumption
<1>0. /\ cursor \in Start .. Limit /\ end \in Start .. Limit
      /\ holder \in Readers \cup {Host, Unlocked}
      /\ reader \in [Readers -> [at : Places, stride : Nat, cur : Nat, fin : Nat]]
      /\ rewinding \in BOOLEAN /\ round \in Nat
      /\ claimed \in [Readers -> SUBSET (Start .. (Limit - 1))]
      /\ cursor \in Nat /\ end \in Nat
  BY DEF IInv, TypeOK
<1>00. HandedOut /\ ClaimIsForward
  BY DEF IInv
<1>1. ASSUME NEW r \in Readers, Reserve(r)
      PROVE  IInv' /\ UNCHANGED dispenserVars
  <2>1. PICK n \in Strides : reader' = [reader EXCEPT ![r].at = "load", ![r].stride = n]
    BY <1>1 DEF Reserve
  <2>2. n \in Nat /\ n > 0
    BY StridesAssumption
  <2>5. reader' \in [Readers -> [at : Places, stride : Nat, cur : Nat, fin : Nat]]
    BY <1>0, <2>1, <2>2 DEF Places
  <2>6. UNCHANGED <<cursor, end, holder, rewinding, claimed, round>>
    BY <1>1 DEF Reserve, dispenserVars
  <2>3. TypeOK'
    BY <1>0, <2>5, <2>6 DEF TypeOK
  <2>4. ClaimIsForward'
    BY <1>0, <1>00, <2>1, <2>2 DEF ClaimIsForward, At
  <2> QED BY <1>1, <1>00, <2>3, <2>4, HandedOutStutters DEF Reserve, IInv, dispenserVars
<1>2. ASSUME NEW r \in Readers, LoadCursor(r)
      PROVE  IInv' /\ UNCHANGED dispenserVars
  <2>1. reader' \in [Readers -> [at : Places, stride : Nat, cur : Nat, fin : Nat]]
    BY <1>0, <1>2 DEF LoadCursor, Places
  <2>3. TypeOK'
    BY <1>0, <1>2, <2>1 DEF LoadCursor, TypeOK, dispenserVars
  <2>2. ClaimIsForward'
    BY <1>0, <1>00, <1>2 DEF LoadCursor, ClaimIsForward, At
  <2> QED BY <1>2, <1>00, <2>3, <2>2, HandedOutStutters DEF LoadCursor, IInv, dispenserVars
<1>3. ASSUME NEW r \in Readers, LoadEnd(r)
      PROVE  IInv' /\ UNCHANGED dispenserVars
  <2>1. reader' \in [Readers -> [at : Places, stride : Nat, cur : Nat, fin : Nat]]
    BY ZenonT(40), <1>0, <1>3 DEF LoadEnd, Places
  <2>3. TypeOK'
    BY <1>0, <1>3, <2>1 DEF LoadEnd, TypeOK, dispenserVars
  <2>2. ClaimIsForward'
    BY <1>0, <1>00, <1>3 DEF LoadEnd, ClaimIsForward, At
  <2> QED BY <1>3, <1>00, <2>3, <2>2, HandedOutStutters DEF LoadEnd, IInv, dispenserVars
<1>4. ASSUME NEW r \in Readers, Claim(r)
      PROVE  IInv' /\ [DispenserNext]_dispenserVars
  <2>1. CASE cursor # reader[r].cur
    <3>1. Go(r, "load") /\ UNCHANGED <<cursor, claimed, end, holder, rewinding, round>>
      BY <1>4, <2>1 DEF Claim
    <3>2. TypeOK'
      BY <1>0, <3>1 DEF Go, TypeOK, Places
    <3>3. ClaimIsForward'
      BY <1>0, <1>00, <1>4, <3>1 DEF Go, ClaimIsForward, At, Claim
    <3> QED BY <1>00, <3>1, <3>2, <3>3, HandedOutStutters DEF IInv, dispenserVars
  <2>2. CASE cursor = reader[r].cur
    <3> DEFINE hi == Target(r)
    <3>1. /\ cursor' = hi
          /\ claimed' = [claimed EXCEPT ![r] = @ \cup cursor .. (hi - 1)]
          /\ reader' = [reader EXCEPT ![r] = Idle]
          /\ UNCHANGED <<end, holder, rewinding, round>>
      BY <1>4, <2>2 DEF Claim
    <3>2. hi \in Nat /\ cursor < hi /\ hi <= Limit
      BY <1>4, <2>2, TargetForward DEF Claim
    <3>3. Claimed' = Start .. (hi - 1)
      <4>1. claimed \in [Readers -> SUBSET Nat]
        BY <1>0
      <4>2. Claimed = Start .. (cursor - 1)
        BY <1>00 DEF HandedOut
      <4>3. cursor \in Nat /\ Start <= cursor
        BY <1>0
      <4> QED BY <3>1, <3>2, <4>1, <4>2, <4>3, HandExtends
    <3>4. HandedOut'
      BY <3>1, <3>3 DEF HandedOut
    <3>5. TypeOK'
      <4>1. cursor .. (hi - 1) \subseteq Start .. (Limit - 1)
        BY <1>0, <3>2
      <4>2. claimed' \in [Readers -> SUBSET (Start .. (Limit - 1))]
        BY <1>0, <3>1, <4>1
      <4>3. reader' \in [Readers -> [at : Places, stride : Nat, cur : Nat, fin : Nat]]
        BY <1>0, <3>1 DEF Idle, Places
      <4>4. cursor' \in Start .. Limit
        BY <1>0, <3>1, <3>2
      <4> QED BY <1>0, <3>1, <4>2, <4>3, <4>4 DEF TypeOK
    <3>6. ClaimIsForward'
      BY <1>0, <1>00, <3>1 DEF ClaimIsForward, At, Idle
    <3>7. Hand(r, cursor, hi)
      BY <1>00, <3>1, <3>2 DEF Hand, HandedOut
    <3>8. cursor \in Start .. Limit /\ hi \in Start .. Limit
      BY <1>0, <3>2
    <3> QED BY <3>4, <3>5, <3>6, <3>7, <3>8 DEF IInv, DispenserNext
  <2> QED BY <2>1, <2>2
<1>5. ASSUME NEW r \in Readers, Lock(r) \/ Recheck(r) \/ Resume(r)
      PROVE  IInv' /\ UNCHANGED dispenserVars
  <2>1. TypeOK'
    BY <1>0, <1>5 DEF Lock, Recheck, Resume, Go, TypeOK, Places, dispenserVars
  <2>2. ClaimIsForward'
    BY <1>0, <1>00, <1>5 DEF Lock, Recheck, Resume, Go, ClaimIsForward, At
  <2>3. UNCHANGED <<cursor, dispenserVars>>
    BY <1>5 DEF Lock, Recheck, Resume
  <2> QED BY <1>00, <2>1, <2>2, <2>3, HandedOutStutters DEF IInv, dispenserVars
<1>6. ASSUME NEW r \in Readers, Extend(r)
      PROVE  IInv' /\ UNCHANGED dispenserVars
  <2>1. PICK delta \in Policy[end - Start] : end' = Smaller(end + delta, Limit)
    BY <1>6 DEF Extend
  <2>2. delta \in Nat
    BY <1>0, PolicyAssumption
  <2>3. end' \in Start .. Limit
    BY <1>0, <2>1, <2>2 DEF Smaller
  <2>4. TypeOK'
    BY <1>0, <1>6, <2>3 DEF Extend, Go, TypeOK, Places, dispenserVars
  <2>5. ClaimIsForward'
    BY <1>0, <1>00, <1>6 DEF Extend, Go, ClaimIsForward, At
  <2>6. UNCHANGED <<cursor, dispenserVars>>
    BY <1>6 DEF Extend
  <2> QED BY <1>00, <2>4, <2>5, <2>6, HandedOutStutters DEF IInv, dispenserVars
<1>7. ASSUME NEW r \in Readers, Exhaust(r)
      PROVE  IInv' /\ UNCHANGED dispenserVars
  <2>1. TypeOK'
    BY <1>0, <1>7 DEF Exhaust, Finished, Idle, TypeOK, Places, dispenserVars
  <2>2. ClaimIsForward'
    BY <1>0, <1>00, <1>7 DEF Exhaust, Finished, Idle, ClaimIsForward, At
  <2>3. UNCHANGED <<cursor, dispenserVars>>
    BY <1>7 DEF Exhaust
  <2> QED BY <1>00, <2>1, <2>2, <2>3, HandedOutStutters DEF IInv, dispenserVars
<1>8. CASE BeginRewind \/ RewindEnd
  <2>1. end' \in Start .. Limit
    BY <1>0, <1>8, BaseAssumption DEF BeginRewind, RewindEnd, Smaller
  <2>2. TypeOK'
    BY <1>0, <1>8, <2>1 DEF BeginRewind, RewindEnd, TypeOK, dispenserVars
  <2>3. UNCHANGED <<cursor, reader, dispenserVars>>
    BY <1>8 DEF BeginRewind, RewindEnd
  <2> QED BY <1>00, <2>2, <2>3, HandedOutStutters DEF IInv, ClaimIsForward, At, dispenserVars
<1>9. CASE RewindCursor
  <2>1. /\ cursor' = Start /\ claimed' = [r \in Readers |-> {}] /\ round' = round + 1
        /\ UNCHANGED end /\ holder' = Unlocked /\ rewinding' = FALSE
        /\ reader' = [r \in Readers |-> IF At(r, "finished") THEN Idle ELSE reader[r]]
    BY <1>9 DEF RewindCursor, Rewind
  <2>6. reader' \in [Readers -> [at : Places, stride : Nat, cur : Nat, fin : Nat]]
    BY <1>0, <2>1 DEF Idle, Places
  <2>7. Start \in Start .. Limit
    BY BaseAssumption
  <2>8. claimed' \in [Readers -> SUBSET (Start .. (Limit - 1))]
    BY <2>1
  <2>9. round' \in Nat /\ cursor' \in Start .. Limit /\ end' \in Start .. Limit
    BY <1>0, <2>1, <2>7
  <2>2. TypeOK'
    BY <2>1, <2>6, <2>8, <2>9 DEF TypeOK
  <2>3. HandedOut'
    <3>1. Claimed' = {}
      BY <2>1 DEF Claimed
    <3>2. Start .. (Start - 1) = {}
      OBVIOUS
    <3> QED BY <2>1, <3>1, <3>2 DEF HandedOut
  <2>4. ClaimIsForward'
    BY <1>0, <1>00, <2>1 DEF ClaimIsForward, At, Idle
  <2>5. DispenserNext
    BY <1>9 DEF RewindCursor, DispenserNext
  <2> QED BY <2>2, <2>3, <2>4, <2>5 DEF IInv
<1>10. CASE UNCHANGED vars
  <2>1. TypeOK' /\ ClaimIsForward'
    BY <1>0, <1>00, <1>10 DEF vars, dispenserVars, TypeOK, ClaimIsForward, At
  <2> QED BY <1>00, <1>10, <2>1, HandedOutStutters DEF vars, dispenserVars, IInv
<1> QED BY <1>1, <1>2, <1>3, <1>4, <1>5, <1>6, <1>7, <1>8, <1>9, <1>10
        DEF Next, ReserveStep, RewindStep

\* The source's state stays well typed; in particular the cursor and every end
\* stay within the limit.
THEOREM TypeCorrect == Spec => []TypeOK
<1>1. IInv => TypeOK
  BY DEF IInv
<1>2. IInv /\ [Next]_vars => IInv'
  BY NextIInv
<1> QED BY InitIInv, <1>1, <1>2, PTL DEF Spec

\* The extending source implements the promise: every execution of it, seen
\* through what readers were handed, is an execution of the dispenser.
THEOREM Implements == Spec => KeepsPromise
<1>1. Init => DispenserInit
  BY DEF Init
<1>2. IInv /\ [Next]_vars => IInv'
  BY NextIInv
<1>3. IInv /\ [Next]_vars => [DispenserNext]_dispenserVars
  BY NextIInv
<1> QED BY InitIInv, <1>1, <1>2, <1>3, PTL DEF Spec, KeepsPromise, DispenserSpec

\* So no ordinal is handed to two readers in one round.
THEOREM ClaimedAtMostOnce == Spec => []AtMostOnce
BY Implements, HandedAtMostOnce, PTL DEF KeepsPromise

=============================================================================
