------------------------ MODULE Tier1Executor_proofs ------------------------
(***************************************************************************)
(* Theorems about Cursors and Tier1Executor, for any sources, any fibers,  *)
(* any batch sizes and any interleaving of advances, leases, rewinds and   *)
(* bursts.                                                                 *)
(*                                                                         *)
(* The sources: what a round has handed out of a source is what lies       *)
(* between its start and its cursor, cut at its end (IInv).                *)
(*                                                                         *)
(* The stream: the packet in the register holds the scalar values of the   *)
(* lanes it is valid for, and the frontier follows the last value drained  *)
(* (StreamInv); a burst keeps this value by value.                         *)
(*                                                                         *)
(* The books: an ordinal claimed is in one of five places, and every step  *)
(* moves it from one to the next (BooksInv).                               *)
(*                                                                         *)
(* The rows: past the last target that is spent, every ordinal read is in  *)
(* a row or about to be in one (RowsInv).                                  *)
(***************************************************************************)
EXTENDS Tier1Executor, Integers, FiniteSetTheorems, WellFoundedInduction,
        SequenceTheorems, TLAPS

\* What any fiber may do to the sources.
RangeNext ==
    \E s \in Sources :
      \/ RewindForPoll(s)
      \/ \E r \in Readers, stride \in Nat \ {0} : Reserve(s, r, stride)

Handed(s) == UNION {claimed[s][r] : r \in Readers}

\* Where the ordinals handed out end.
Frontier(s) == IF cursor[s] < End[s] THEN cursor[s] ELSE End[s]

CursorInv ==
    /\ cursor \in [Sources -> 0 .. (Modulus - 1)]
    /\ \A s \in Sources : Start[s] <= cursor[s]

ClaimedInv ==
    /\ claimed \in [Sources -> [Readers -> SUBSET Nat]]
    /\ \A s \in Sources : Handed(s) = Start[s] .. (Frontier(s) - 1)

DisjointInv ==
    \A s \in Sources : \A r, q \in Readers : r # q => claimed[s][r] \cap claimed[s][q] = {}

IInv == CursorInv /\ round \in [Sources -> Nat] /\ ClaimedInv /\ DisjointInv

-----------------------------------------------------------------------------

\* Where a source's range lies.
LEMMA Bounds ==
    ASSUME NEW s \in Sources
    PROVE  Start[s] \in Nat /\ End[s] \in 0 .. (Modulus - 1) /\ Start[s] <= End[s]
BY EndAssumption

\* Nothing is handed out at first.
LEMMA InitIInv == RangeInit => IInv
<1> SUFFICES ASSUME RangeInit PROVE IInv
  OBVIOUS
<1>1. CursorInv /\ round \in [Sources -> Nat]
  BY EndAssumption, Bounds DEF RangeInit, CursorInv
<1>2. \A s \in Sources : Handed(s) = {} /\ Start[s] .. (Frontier(s) - 1) = {}
  BY Bounds DEF RangeInit, Handed, Frontier
<1>3. claimed \in [Sources -> [Readers -> SUBSET Nat]] /\ DisjointInv
  BY DEF RangeInit, DisjointInv
<1> QED BY <1>1, <1>2, <1>3 DEF IInv, ClaimedInv

\* What a reservation hands out (`reserve`): what is left of the range from the
\* cursor on, at most the stride.
LEMMA OrdinalsHanded ==
    ASSUME IInv, NEW s \in Sources, NEW stride \in Nat \ {0}, cursor[s] + stride < Modulus
    PROVE  /\ (cursor[s] + stride) % Modulus = cursor[s] + stride
           /\ Ordinals(s, stride) =
                IF cursor[s] < End[s]
                THEN cursor[s] .. ((IF cursor[s] + stride < End[s] THEN cursor[s] + stride
                                    ELSE End[s]) - 1)
                ELSE {}
<1>1. cursor[s] \in Nat /\ cursor[s] + stride \in Nat /\ Modulus \in Nat
  BY EndAssumption DEF IInv, CursorInv
<1>2. (cursor[s] + stride) % Modulus = cursor[s] + stride
  BY <1>1
<1> QED BY <1>2 DEF Ordinals

\* A reservation extends what was handed out to the new cursor (`reserve`).
LEMMA ReserveStep ==
    ASSUME IInv, Wraps = FALSE, NEW s \in Sources, NEW r \in Readers,
           NEW stride \in Nat \ {0}, Reserve(s, r, stride)
    PROVE  /\ IInv'
           /\ claimed'[s] = [claimed[s] EXCEPT ![r] = @ \cup Ordinals(s, stride)]
           /\ \A t \in Sources \ {s} : claimed'[t] = claimed[t]
           /\ round' = round
<1> DEFINE got == Ordinals(s, stride)
<1>1. /\ cursor[s] + stride < Modulus
      /\ cursor' = [cursor EXCEPT ![s] = (@ + stride) % Modulus]
      /\ claimed' = [claimed EXCEPT ![s][r] = @ \cup got] /\ round' = round
  BY DEF Reserve
<1>2. /\ cursor[s] \in Nat /\ Start[s] \in Nat /\ End[s] \in Nat
      /\ Start[s] <= cursor[s] /\ Start[s] <= End[s]
  BY Bounds DEF IInv, CursorInv
<1>3. cursor' = [cursor EXCEPT ![s] = @ + stride]
  BY <1>1, OrdinalsHanded
<1>4. got = IF cursor[s] < End[s]
            THEN cursor[s] .. ((IF cursor[s] + stride < End[s] THEN cursor[s] + stride
                                ELSE End[s]) - 1)
            ELSE {}
  BY <1>1, OrdinalsHanded
<1> HIDE DEF got
<1>5. CursorInv'
  BY <1>1, <1>2, <1>3, EndAssumption DEF IInv, CursorInv
<1>6. got \subseteq Nat /\ got \cap Handed(s) = {}
  BY <1>2, <1>4 DEF IInv, ClaimedInv, Frontier
<1>7. /\ claimed' \in [Sources -> [Readers -> SUBSET Nat]]
      /\ claimed'[s] = [claimed[s] EXCEPT ![r] = @ \cup got]
      /\ \A t \in Sources \ {s} : claimed'[t] = claimed[t]
  BY <1>1, <1>6 DEF IInv, ClaimedInv
<1>8. Handed(s)' = Handed(s) \cup got
  BY <1>7 DEF Handed, IInv, ClaimedInv
<1>9. \A t \in Sources \ {s} : Handed(t)' = Handed(t) /\ Frontier(t)' = Frontier(t)
  BY <1>3, <1>7 DEF Handed, Frontier, IInv, CursorInv
<1>10. Frontier(s)' = IF cursor[s] + stride < End[s] THEN cursor[s] + stride ELSE End[s]
  BY <1>3 DEF Frontier, IInv, CursorInv
<1>11. Handed(s)' = Start[s] .. (Frontier(s)' - 1)
  BY SMTT(20), <1>2, <1>4, <1>8, <1>10 DEF IInv, ClaimedInv, Frontier
<1>12. ClaimedInv'
  BY <1>7, <1>9, <1>11 DEF IInv, ClaimedInv
<1>13. \A q \in Readers : claimed[s][q] \subseteq Handed(s)
  BY DEF Handed
<1>14. DisjointInv'
  BY <1>6, <1>7, <1>13 DEF IInv, DisjointInv, ClaimedInv
<1> QED BY <1>1, <1>5, <1>7, <1>12, <1>14 DEF IInv, got

\* A rewind starts the source over (`rewind_for_poll`).
LEMMA RewindStep ==
    ASSUME IInv, NEW s \in Sources, RewindForPoll(s)
    PROVE  /\ IInv'
           /\ claimed'[s] = [r \in Readers |-> {}] /\ round'[s] = round[s] + 1
           /\ \A t \in Sources \ {s} : claimed'[t] = claimed[t] /\ round'[t] = round[t]
<1>1. /\ cursor' = [cursor EXCEPT ![s] = Start[s]]
      /\ round' = [round EXCEPT ![s] = @ + 1]
      /\ claimed' = [claimed EXCEPT ![s] = [r \in Readers |-> {}]]
  BY DEF RewindForPoll
<1>2. CursorInv' /\ round' \in [Sources -> Nat]
  BY <1>1, Bounds, EndAssumption DEF IInv, CursorInv
<1>3. /\ claimed' \in [Sources -> [Readers -> SUBSET Nat]]
      /\ claimed'[s] = [r \in Readers |-> {}]
      /\ \A t \in Sources \ {s} : claimed'[t] = claimed[t]
  BY <1>1 DEF IInv, ClaimedInv
<1>4. /\ round'[s] = round[s] + 1 /\ \A t \in Sources \ {s} : round'[t] = round[t]
  BY <1>1 DEF IInv
<1>5. \A t \in Sources \ {s} : Handed(t)' = Handed(t) /\ Frontier(t)' = Frontier(t)
  BY <1>1, <1>3 DEF Handed, Frontier, IInv, CursorInv
<1>6. Handed(s)' = {}
  BY <1>3 DEF Handed
<1>7. Start[s] .. (Frontier(s)' - 1) = {}
  BY <1>1, Bounds DEF Frontier, IInv, CursorInv
<1>8. ClaimedInv' /\ DisjointInv'
  BY <1>3, <1>5, <1>6, <1>7 DEF IInv, ClaimedInv, DisjointInv
<1> QED BY <1>2, <1>3, <1>4, <1>8 DEF IInv

\* Every step keeps the invariant.
LEMMA RangeIInv == Wraps = FALSE /\ IInv /\ [RangeNext]_rangeVars => IInv'
<1> SUFFICES ASSUME Wraps = FALSE, IInv, [RangeNext]_rangeVars PROVE IInv'
  OBVIOUS
<1>1. CASE UNCHANGED rangeVars
  BY <1>1 DEF rangeVars, IInv, CursorInv, ClaimedInv, DisjointInv, Handed, Frontier
<1>2. CASE RangeNext
  BY <1>2, ReserveStep, RewindStep DEF RangeNext
<1> QED BY <1>1, <1>2

\* A step of the system is a step of its sources, or leaves them alone: `advance`
\* reserves one ordinal, `reserve_ordinal_batch` as many as are demanded, and
\* what an executor does with its leases touches no source.
LEMMA SystemStep == [Next]_vars => [RangeNext]_rangeVars
<1> SUFFICES ASSUME [Next]_vars PROVE [RangeNext]_rangeVars
  OBVIOUS
<1>1. CASE UNCHANGED vars
  BY <1>1 DEF vars
<1>2. CASE \E f \in Readers, s \in Sources :
             /\ s \in ToSet(targets[f])
             /\ RewindForPoll(s) /\ UNCHANGED <<cursorVars, executorVars>>
  BY <1>2 DEF RangeNext
<1>3. ASSUME NEW f \in Readers, CursorStep(f) PROVE [RangeNext]_rangeVars
  <2>1. CASE \E s \in Sources : AdvanceTarget(f, s)
    BY <2>1 DEF AdvanceTarget, RangeNext
  <2>2. CASE \E s \in Sources, demand \in Demands : ReserveOrdinalBatch(f, s, demand)
    BY <2>2, DemandsAssumption DEF ReserveOrdinalBatch, RangeNext
  <2>3. CASE NewCursors(f)
    BY <2>3 DEF NewCursors
  <2> QED BY <1>3, <2>1, <2>2, <2>3 DEF CursorStep
<1>4. ASSUME NEW f \in Executors, ExecutorStep(f) PROVE [RangeNext]_rangeVars
  BY <1>4 DEF ExecutorStep, BeginLease, ProcessElsewhere, ForceScalarRecovery,
              SetBroadcast, DrainInto
<1> QED BY <1>1, <1>2, <1>3, <1>4 DEF Next

\* Every step of the cursors, the host and the executor preserves the invariant,
\* as long as the range's cursor has not wrapped.
LEMMA NextIInv == Wraps = FALSE /\ IInv /\ [Next]_vars => IInv'
BY RangeIInv, SystemStep

-----------------------------------------------------------------------------

\* The progress a source reports (`global_consumed`) is the number of ordinals
\* handed out of it this round, whatever the strides, and however many
\* reservations found it exhausted.
THEOREM ProgressCorrect ==
    ASSUME Wraps = FALSE
    PROVE  Spec => []ProgressIsWhatWasRead
<1>1. ASSUME IInv PROVE ProgressIsWhatWasRead
  <2> SUFFICES ASSUME NEW s \in Sources
               PROVE GlobalConsumed(s) = Cardinality(Handed(s))
    BY DEF ProgressIsWhatWasRead, Handed
  <2>1. Handed(s) = Start[s] .. (Frontier(s) - 1)
    BY <1>1 DEF IInv, ClaimedInv
  <2>2. /\ cursor[s] \in Nat /\ Start[s] \in Nat /\ End[s] \in Nat
        /\ Start[s] <= cursor[s] /\ Start[s] <= End[s]
    BY <1>1, Bounds DEF IInv, CursorInv
  <2>3. Cardinality(Start[s] .. (Frontier(s) - 1)) =
          IF Start[s] > Frontier(s) - 1 THEN 0 ELSE (Frontier(s) - 1) - Start[s] + 1
    <3>1. Start[s] \in Int /\ Frontier(s) - 1 \in Int
      BY <2>2 DEF Frontier
    <3> QED BY <3>1, FS_Interval
  <2> QED BY <2>1, <2>2, <2>3 DEF GlobalConsumed, Frontier
<1>2. Init => IInv
  BY InitIInv DEF Init, CursorsInit
<1> QED BY <1>1, <1>2, NextIInv, PTL DEF Spec

\* Every step is a step of each source's dispenser, or leaves it alone.
LEMMA NextIsADispenserStep ==
    ASSUME Wraps = FALSE, NEW s \in Sources
    PROVE  IInv /\ [RangeNext]_rangeVars =>
             [Promise(s)!DispenserNext]_(Promise(s)!dispenserVars)
<1> SUFFICES ASSUME IInv, [RangeNext]_rangeVars
             PROVE  \/ Promise(s)!DispenserNext
                    \/ round'[s] = round[s] /\ claimed'[s] = claimed[s]
  BY DEF Promise!dispenserVars
<1>1. CASE UNCHANGED rangeVars
  BY <1>1 DEF rangeVars
<1>2. ASSUME NEW t \in Sources, RewindForPoll(t)
      PROVE  \/ Promise(s)!DispenserNext
             \/ round'[s] = round[s] /\ claimed'[s] = claimed[s]
  <2>1. CASE t = s
    BY <1>2, <2>1, RewindStep DEF Promise!DispenserNext, Promise!Rewind
  <2>2. CASE t # s
    BY <1>2, <2>2, RewindStep
  <2> QED BY <2>1, <2>2
<1>3. ASSUME NEW t \in Sources, NEW r \in Readers, NEW stride \in Nat \ {0},
             Reserve(t, r, stride)
      PROVE  \/ Promise(s)!DispenserNext
             \/ round'[s] = round[s] /\ claimed'[s] = claimed[s]
  <2>1. CASE t # s
    BY <1>3, <2>1, ReserveStep
  <2>2. CASE t = s /\ cursor[s] < End[s]
    <3> DEFINE lo == cursor[s]
               hi == IF cursor[s] + stride < End[s] THEN cursor[s] + stride ELSE End[s]
    <3>1. /\ claimed'[s] = [claimed[s] EXCEPT ![r] = @ \cup Ordinals(s, stride)]
          /\ round' = round
      <4>1. Reserve(s, r, stride)
        BY <1>3, <2>2
      <4> HIDE DEF lo, hi
      <4> QED BY ZenonT(40), <4>1, ReserveStep
    <3>2. cursor[s] + stride < Modulus
      BY <1>3, <2>2 DEF Reserve
    <3>3. Ordinals(s, stride) = lo .. (hi - 1)
      BY <2>2, <3>2, OrdinalsHanded
    <3>4. /\ cursor[s] \in Nat /\ Start[s] \in Nat /\ End[s] \in Nat
          /\ Start[s] <= cursor[s] /\ Start[s] <= End[s]
      BY Bounds DEF IInv, CursorInv
    <3>5. lo \in Start[s] .. End[s] /\ hi \in Start[s] .. End[s] /\ lo < hi
      BY <2>2, <3>4
    <3>6. Handed(s) = Start[s] .. (lo - 1)
      BY <2>2 DEF IInv, ClaimedInv, Frontier
    <3> HIDE DEF lo, hi
    <3>7. Promise(s)!Hand(r, lo, hi)
      BY <3>1, <3>3, <3>5, <3>6 DEF Promise!Hand, Promise!Claimed, Handed
    <3> QED BY <3>5, <3>7 DEF Promise!DispenserNext
  <2>3. CASE t = s /\ ~(cursor[s] < End[s])
    <3>1. Ordinals(s, stride) = {}
      BY <2>3 DEF Ordinals
    <3>2. /\ claimed'[s] = [claimed[s] EXCEPT ![r] = @ \cup Ordinals(s, stride)]
          /\ round' = round /\ claimed[s] \in [Readers -> SUBSET Nat]
      BY <1>3, <2>3, ReserveStep DEF IInv, ClaimedInv
    <3> QED BY <3>1, <3>2
  <2> QED BY <2>1, <2>2, <2>3
<1> QED BY <1>1, <1>2, <1>3 DEF RangeNext

\* Each source implements the abstract data source: in every round its ordinals
\* are handed out from the start on, once each and none left out (`reserve`,
\* `rewind_for_poll`).
THEOREM RangeImplementsDispenser ==
    ASSUME Wraps = FALSE
    PROVE  Spec => SourcesKeepPromise
<1>1. Init => IInv /\ \A s \in Sources : Promise(s)!DispenserInit
  BY InitIInv DEF Init, CursorsInit, RangeInit, Promise!DispenserInit
<1>2. IInv /\ [Next]_vars =>
        [\A s \in Sources :
           [Promise(s)!DispenserNext]_(Promise(s)!dispenserVars)]_rangeVars
  BY NextIsADispenserStep, SystemStep
<1> QED BY <1>1, <1>2, NextIInv, PTL DEF Spec, SourcesKeepPromise

-----------------------------------------------------------------------------
\* The stages of a burst.

\* The naturals in order, for arguments by a least number.
Less == {ss \in Nat \X Nat : ss[1] < ss[2]}

\* A set of naturals that is not empty has a least one.
LEMMA LeastNumber ==
    ASSUME NEW T, T \subseteq Nat, T # {}
    PROVE  \E m \in T : \A k \in T : ~(k < m)
<1>1. IsWellFoundedOn(Less, Nat)
  BY NatLessThanWellFounded, Zenon DEF OpToRel, Less
<1>2. PICK m \in T : \A k \in T : ~(<<k, m>> \in Less)
  BY <1>1, WFMin
<1> QED BY <1>2 DEF Less

\* The state of a burst before its first value.
Stage(f) == [active |-> active[f], drained |-> drained[f], completed |-> 0]

\* The values of a burst, one after another.
IsBurst(f, n, g) ==
    g = [i \in 0 .. n |-> IF i = 0 THEN Stage(f) ELSE DrainOne(f, g[i - 1])]

\* The stages of a burst exist, for every number of values.
LEMMA BurstExists ==
    ASSUME NEW f, NEW n \in Nat
    PROVE  \E g : IsBurst(f, n, g)
<1> DEFINE Bad == {m \in Nat : ~ \E g : IsBurst(f, m, g)}
<1>1. SUFFICES ASSUME Bad # {} PROVE FALSE
  OBVIOUS
<1>2. PICK m \in Bad : \A k \in Bad : ~(k < m)
  <2>1. Bad \subseteq Nat
    OBVIOUS
  <2> HIDE DEF Bad
  <2> QED BY <1>1, <2>1, LeastNumber
<1>3. CASE m = 0
  <2> DEFINE g == [i \in 0 .. 0 |-> Stage(f)]
  <2>1. IsBurst(f, 0, g)
    BY DEF IsBurst
  <2> QED BY <1>3, <2>1
<1>4. CASE m > 0
  <2>1. m - 1 \in Nat /\ m - 1 < m
    BY <1>4
  <2>2. m - 1 \notin Bad
    BY <1>2, <2>1
  <2>3. PICK h : IsBurst(f, m - 1, h)
    BY <2>1, <2>2
  <2> DEFINE g == [i \in 0 .. m |-> IF i = m THEN DrainOne(f, h[m - 1]) ELSE h[i]]
  <2>4. \A i \in 0 .. m :
          g[i] = IF i = 0 THEN Stage(f) ELSE DrainOne(f, g[i - 1])
    <3> TAKE i \in 0 .. m
    <3>1. CASE i = m
      BY <1>4, <3>1, <2>1
    <3>2. CASE i # m
      BY <3>2, <2>3, <2>1 DEF IsBurst
    <3> QED BY <3>1, <3>2
  <2>5. IsBurst(f, m, g)
    BY <2>4 DEF IsBurst
  <2> QED BY <2>5
<1> QED BY <1>3, <1>4

\* `Burst` is the last of the stages.
LEMMA BurstRuns ==
    ASSUME NEW f, NEW n \in Nat
    PROVE  \E g : IsBurst(f, n, g) /\ Burst(f, n) = g[n]
<1> DEFINE Eq(g) ==
             g = [i \in 0 .. n |->
                    IF i = 0 THEN [active |-> active[f], drained |-> drained[f], completed |-> 0]
                    ELSE DrainOne(f, g[i - 1])]
<1>1. \E g : Eq(g)
  BY BurstExists DEF IsBurst, Stage
<1>2. Eq(CHOOSE g : Eq(g))
  <2> HIDE DEF Eq
  <2> QED BY <1>1
<1>3. Burst(f, n) = (CHOOSE g : Eq(g))[n]
  BY DEF Burst
<1> QED BY <1>2, <1>3 DEF IsBurst, Stage

-----------------------------------------------------------------------------

\* Leases of whole intervals of ordinals.
WholeLeases ==
    {lease \in Leases :
       \E lo, hi \in lease.range : lo <= hi /\ lease.range = lo .. hi}

\* What the fibers hold is typed, and what the executors drained.
DrainedValues ==
    [value : (Nat \X Broadcasts) \cup {None}, ordinal : Nat, k : Broadcasts,
     epoch : Epochs, lease : WholeLeases]

\* The types of the cursors' state; every lease held is an interval.
LeaseTypes ==
    /\ cursor \in [Sources -> Nat]
    /\ round \in [Sources -> Nat]
    /\ next_sequence \in [Readers -> Nat]
    /\ held \in [Readers -> Seq(WholeLeases)]

\* The types of the executors' state.
ExecutorTypes ==
    /\ active \in [Readers -> OpenLeases \cup {None}]
    /\ activation \in [Readers -> Epochs \cup {None}]
    /\ expected \in [Readers -> Nat]
    /\ broadcast \in [Readers -> Broadcasts]
    /\ drained \in [Readers -> Seq(DrainedValues)]

\* The values drained so far are in order (DrainedIsTheScalarStream).
InOrder(d) ==
    \A i \in DOMAIN d :
      /\ d[i].value = <<d[i].ordinal, d[i].k>>
      /\ (i = 1 \/ d[i - 1].lease # d[i].lease) => d[i].ordinal = Min(d[i].lease.range)
      /\ i > 1 =>
           \/ /\ d[i - 1].lease = d[i].lease /\ d[i - 1].epoch = d[i].epoch
              /\ d[i].ordinal = d[i - 1].ordinal + 1
           \/ /\ d[i - 1].ordinal = Max(d[i - 1].lease.range)
              /\ \/ d[i - 1].epoch < d[i].epoch
                 \/ /\ d[i - 1].epoch = d[i].epoch
                    /\ d[i - 1].lease.sequence < d[i].lease.sequence

\* The last value drained closed its lease, and the lease came before the n-th
\* of the epoch.
ClosedBefore(d, epoch, n) ==
    d # <<>> =>
      LET c == d[Len(d)] IN
      /\ c.ordinal = Max(c.lease.range)
      /\ epoch # None
      /\ \/ c.epoch < epoch
         \/ c.epoch = epoch /\ c.lease.sequence < n

\* The packet in the register holds the values of the lanes it is valid for.
ReadyHolds(a) ==
    a.ready # None =>
      \A n \in a.ready.valid : a.ready.lanes[n] = <<a.ready.base + n, a.k>>

\* The frontier of an open lease is where what was drained ends.
Resumes(a, d) ==
    /\ a.lease \in WholeLeases
    /\ a.next \in a.lease.range
    /\ IF a.next = Min(a.lease.range)
       THEN ClosedBefore(d, a.epoch, a.lease.sequence)
       ELSE /\ d # <<>>
            /\ LET c == d[Len(d)] IN
               c.lease = a.lease /\ c.epoch = a.epoch /\ c.ordinal = a.next - 1

\* A fiber whose lease, drained values and next sequence number are a, d and n.
StreamAt(f, a, d, n) ==
    /\ a \in OpenLeases \cup {None} /\ d \in Seq(DrainedValues) /\ n \in Nat
    /\ InOrder(d)
    /\ IF a = None THEN ClosedBefore(d, activation[f], n)
       ELSE /\ ReadyHolds(a) /\ Resumes(a, d)
            /\ a.k = broadcast[f] /\ a.epoch = activation[f]
            /\ a.lease.sequence = n

\* Every fiber has drained a stream in order and is where it can go on with it.
StreamInv == \A f \in Readers : StreamAt(f, active[f], drained[f], expected[f])

\* The ends of an interval.
LEMMA IntervalEnds ==
    ASSUME NEW lo \in Nat, NEW hi \in Nat, lo <= hi
    PROVE  Min(lo .. hi) = lo /\ Max(lo .. hi) = hi /\ lo .. hi # {}
<1>1. lo \in lo .. hi /\ hi \in lo .. hi /\ \A y \in lo .. hi : lo <= y /\ hi >= y
  OBVIOUS
<1> HIDE DEF Min, Max
<1>2. Min(lo .. hi) \in lo .. hi /\ \A y \in lo .. hi : Min(lo .. hi) <= y
  BY <1>1 DEF Min
<1>3. Max(lo .. hi) \in lo .. hi /\ \A y \in lo .. hi : Max(lo .. hi) >= y
  BY <1>1 DEF Max
<1> QED BY <1>1, <1>2, <1>3

\* The ends of a lease's range.
LEMMA WholeEnds ==
    ASSUME NEW lease \in WholeLeases
    PROVE  /\ lease \in Leases /\ lease.range \subseteq Nat /\ lease.sequence \in Nat
           /\ Min(lease.range) \in Nat /\ Max(lease.range) \in Nat
           /\ Min(lease.range) <= Max(lease.range)
           /\ lease.range = Min(lease.range) .. Max(lease.range)
<1>1. /\ lease \in Leases /\ lease.range \subseteq Nat /\ lease.sequence \in Nat
  BY DEF WholeLeases, Leases
<1>2. PICK lo \in lease.range, hi \in lease.range : lo <= hi /\ lease.range = lo .. hi
  BY DEF WholeLeases
<1>3. lo \in Nat /\ hi \in Nat
  BY <1>1
<1>4. Min(lease.range) = lo /\ Max(lease.range) = hi
  BY <1>2, <1>3, IntervalEnds
<1> QED BY <1>1, <1>2, <1>3, <1>4

\* The packet at a frontier (`materialize_packet`).
LEMMA PacketHolds ==
    ASSUME NEW a \in OpenLeases, NEW k \in Broadcasts, a.lease \in WholeLeases,
           a.next \in a.lease.range
    PROVE  /\ Packet(a, k) \in Packets
           /\ StampContains(Packet(a, k), a.next)
           /\ \A n \in Packet(a, k).valid :
                 Packet(a, k).lanes[n] = <<Packet(a, k).base + n, k>>
<1> DEFINE base == a.next - (a.next % Lanes)
           valid == {n \in 0 .. (Lanes - 1) :
                       base + n \in a.lease.range /\ base + n >= a.next}
           vector == valid = 0 .. (Lanes - 1) /\ ~a.scalar_only
           lanes == [n \in 0 .. (Lanes - 1) |->
                       IF vector \/ n \in valid THEN <<base + n, k>> ELSE None]
<1>1. Packet(a, k) = [base |-> base, valid |-> valid, lanes |-> lanes]
  BY DEF Packet
<1>2. a.next \in Nat /\ Lanes \in Nat \ {0}
  BY LanesAssumption DEF OpenLeases
<1>3. a.next % Lanes \in 0 .. (Lanes - 1) /\ base \in Nat /\ base + (a.next % Lanes) = a.next
  BY <1>2
<1> HIDE DEF base
<1>4. a.next % Lanes \in valid /\ a.next >= base /\ a.next - base = a.next % Lanes
  BY <1>2, <1>3
<1>5. lanes \in [0 .. (Lanes - 1) -> (Nat \X Broadcasts) \cup {None}]
  BY <1>2, <1>3
<1>6. \A n \in valid : lanes[n] = <<base + n, k>>
  BY <1>2
<1> HIDE DEF valid, lanes
<1>7. valid \subseteq 0 .. (Lanes - 1)
  BY DEF valid
<1>8. Packet(a, k) \in Packets
  BY <1>1, <1>3, <1>5, <1>7 DEF Packets
<1>9. Packet(a, k).base = base /\ Packet(a, k).valid = valid /\ Packet(a, k).lanes = lanes
  BY <1>1
<1> QED BY <1>4, <1>6, <1>8, <1>9 DEF StampContains

\* `None` is no open lease, no epoch and no ordinal.
LEMMA OpenLeasesAreNotNone == None \notin OpenLeases /\ None \notin Epochs /\ None \notin Nat
BY NoneAssumption, EpochsAssumption

\* One more value keeps the order, after the last of a lease or within it.
LEMMA OneMoreInOrder ==
    ASSUME NEW d \in Seq(DrainedValues), InOrder(d), NEW v \in DrainedValues,
           v.value = <<v.ordinal, v.k>>,
           \/ /\ v.ordinal = Min(v.lease.range)
              /\ ClosedBefore(d, v.epoch, v.lease.sequence)
           \/ /\ d # <<>> /\ d[Len(d)].lease = v.lease /\ d[Len(d)].epoch = v.epoch
              /\ v.ordinal = d[Len(d)].ordinal + 1
    PROVE  /\ Append(d, v) \in Seq(DrainedValues)
           /\ InOrder(Append(d, v))
           /\ Append(d, v) # <<>> /\ Append(d, v)[Len(Append(d, v))] = v
<1> DEFINE l == Len(d)
           e == Append(d, v)
<1>1. /\ l \in Nat /\ e \in Seq(DrainedValues) /\ Len(e) = l + 1 /\ DOMAIN e = 1 .. (l + 1)
      /\ e[l + 1] = v /\ \A i \in 1 .. l : e[i] = d[i]
      /\ DOMAIN d = 1 .. l
  OBVIOUS
<1>2. d # <<>> <=> l > 0
  BY <1>1
<1> HIDE DEF l, e
<1>3. ASSUME NEW i \in 1 .. l
      PROVE /\ e[i].value = <<e[i].ordinal, e[i].k>>
            /\ (i = 1 \/ e[i - 1].lease # e[i].lease) => e[i].ordinal = Min(e[i].lease.range)
            /\ i > 1 =>
                 \/ /\ e[i - 1].lease = e[i].lease /\ e[i - 1].epoch = e[i].epoch
                    /\ e[i].ordinal = e[i - 1].ordinal + 1
                 \/ /\ e[i - 1].ordinal = Max(e[i - 1].lease.range)
                    /\ \/ e[i - 1].epoch < e[i].epoch
                       \/ /\ e[i - 1].epoch = e[i].epoch
                          /\ e[i - 1].lease.sequence < e[i].lease.sequence
  <2>1. e[i] = d[i] /\ i \in DOMAIN d /\ (i > 1 => e[i - 1] = d[i - 1])
    BY <1>1
  <2> QED BY <1>1, <2>1 DEF InOrder
<1>4. ASSUME NEW i, i = l + 1
      PROVE /\ e[i].value = <<e[i].ordinal, e[i].k>>
            /\ (i = 1 \/ e[i - 1].lease # e[i].lease) => e[i].ordinal = Min(e[i].lease.range)
            /\ i > 1 =>
                 \/ /\ e[i - 1].lease = e[i].lease /\ e[i - 1].epoch = e[i].epoch
                    /\ e[i].ordinal = e[i - 1].ordinal + 1
                 \/ /\ e[i - 1].ordinal = Max(e[i - 1].lease.range)
                    /\ \/ e[i - 1].epoch < e[i].epoch
                       \/ /\ e[i - 1].epoch = e[i].epoch
                          /\ e[i - 1].lease.sequence < e[i].lease.sequence
  <2>1. e[i] = v /\ (i > 1 => l > 0 /\ e[i - 1] = d[l]) /\ (l > 0 => i > 1)
    <3>1. i > 1 => i - 1 = l /\ l \in 1 .. l
      BY <1>1, <1>4
    <3> QED BY <1>1, <1>4, <3>1
  <2>2. (i = 1) = (l = 0)
    BY <1>1, <1>4
  <2> QED BY <1>1, <1>2, <2>1, <2>2 DEF ClosedBefore, l
<1>5. InOrder(e)
  BY <1>1, <1>3, <1>4 DEF InOrder
<1>6. e # <<>> /\ e[Len(e)] = v
  BY <1>1
<1> QED BY <1>1, <1>5, <1>6 DEF e

\* One value of a burst (`drain_into`).
LEMMA DrainOneKeeps ==
    ASSUME ExecutorTypes, NEW f \in Readers, NEW x, NEW e \in Nat, x.completed \in Nat,
           StreamAt(f, x.active, x.drained, e + x.completed)
    PROVE  /\ DrainOne(f, x).completed \in Nat
           /\ StreamAt(f, DrainOne(f, x).active, DrainOne(f, x).drained,
                       e + DrainOne(f, x).completed)
<1>1. CASE x.active = None
  BY <1>1 DEF DrainOne
<1>2. CASE x.active # None
  <2> DEFINE a == x.active
             d == x.drained
             n == e + x.completed
             packet == IF a.ready # None /\ StampContains(a.ready, a.next) THEN a.ready
                       ELSE Packet(a, broadcast[f])
             next == a.next + 1
             done == next > Max(a.lease.range)
             value == [value |-> packet.lanes[a.next - packet.base], ordinal |-> a.next,
                       k |-> a.k, epoch |-> a.epoch, lease |-> a.lease]
             after == [a EXCEPT !.next = next,
                                !.ready = IF next >= packet.base + Lanes THEN None
                                          ELSE packet]
             y == DrainOne(f, x)
  <2>1. y = [active |-> IF done THEN None ELSE after,
             drained |-> Append(d, value),
             completed |-> x.completed + (IF done THEN 1 ELSE 0)]
    BY <1>2 DEF DrainOne
  <2>2. /\ y.active = IF done THEN None ELSE after
        /\ y.drained = Append(d, value)
        /\ y.completed = x.completed + (IF done THEN 1 ELSE 0)
    <3> HIDE DEF y, after, value, done
    <3> QED BY <2>1
  <2> HIDE DEF y
  <2>3. /\ a \in OpenLeases /\ d \in Seq(DrainedValues) /\ n \in Nat /\ InOrder(d)
        /\ ReadyHolds(a) /\ Resumes(a, d)
        /\ a.k = broadcast[f] /\ a.epoch = activation[f] /\ a.lease.sequence = n
    BY <1>2 DEF StreamAt
  <2> HIDE DEF a, d, n
  <2>4. /\ a.lease \in WholeLeases /\ a.next \in a.lease.range /\ a.next \in Nat
        /\ a.k \in Broadcasts /\ a.epoch \in Epochs /\ broadcast[f] \in Broadcasts
        /\ a.ready \in Packets \cup {None}
    BY <2>3 DEF Resumes, OpenLeases, ExecutorTypes
  <2>5. /\ packet \in Packets /\ StampContains(packet, a.next)
        /\ \A m \in packet.valid : packet.lanes[m] = <<packet.base + m, a.k>>
    <3>1. CASE a.ready # None /\ StampContains(a.ready, a.next)
      BY <3>1, <2>3, <2>4 DEF ReadyHolds
    <3>2. CASE ~(a.ready # None /\ StampContains(a.ready, a.next))
      <4>1. packet = Packet(a, broadcast[f])
        BY <3>2
      <4> QED BY <4>1, <2>3, <2>4, PacketHolds
    <3> QED BY <3>1, <3>2
  <2> HIDE DEF packet
  <2>6. packet.lanes[a.next - packet.base] = <<a.next, a.k>>
    <3>1. packet.base \in Nat /\ a.next - packet.base \in packet.valid
      BY <2>5 DEF StampContains, Packets
    <3>2. packet.base + (a.next - packet.base) = a.next
      BY <3>1, <2>4
    <3> QED BY <2>5, <3>1, <3>2
  <2>7. value \in DrainedValues /\ value.value = <<value.ordinal, value.k>>
    BY <2>4, <2>6 DEF DrainedValues
  <2>8. /\ value.ordinal = a.next /\ value.k = a.k /\ value.epoch = a.epoch
        /\ value.lease = a.lease
    OBVIOUS
  <2> HIDE DEF value
  <2>9. /\ Min(a.lease.range) \in Nat /\ Max(a.lease.range) \in Nat
        /\ Min(a.lease.range) <= a.next /\ a.next <= Max(a.lease.range)
        /\ a.lease.range = Min(a.lease.range) .. Max(a.lease.range)
    BY <2>4, WholeEnds
  <2>10. \/ /\ value.ordinal = Min(value.lease.range)
            /\ ClosedBefore(d, value.epoch, value.lease.sequence)
         \/ /\ d # <<>> /\ d[Len(d)].lease = value.lease /\ d[Len(d)].epoch = value.epoch
            /\ value.ordinal = d[Len(d)].ordinal + 1
    <3>1. CASE a.next = Min(a.lease.range)
      BY <3>1, <2>3, <2>8 DEF Resumes
    <3>2. CASE a.next # Min(a.lease.range)
      <4>1. /\ d # <<>> /\ d[Len(d)].lease = a.lease /\ d[Len(d)].epoch = a.epoch
            /\ d[Len(d)].ordinal = a.next - 1
        BY <3>2, <2>3 DEF Resumes
      <4>2. (a.next - 1) + 1 = a.next
        BY <2>4
      <4> QED BY <4>1, <4>2, <2>8
    <3> QED BY <3>1, <3>2
  <2>11. /\ Append(d, value) \in Seq(DrainedValues)
         /\ InOrder(Append(d, value))
         /\ Append(d, value) # <<>> /\ Append(d, value)[Len(Append(d, value))] = value
    BY <2>3, <2>7, <2>10, OneMoreInOrder
  <2> DEFINE d2 == Append(d, value)
  <2> HIDE DEF d2
  <2>12. CASE done
    <3>1. a.next = Max(a.lease.range)
      BY <2>4, <2>9, <2>12
    <3>2. y.active = None /\ y.completed = x.completed + 1 /\ y.drained = d2
      BY <2>2, <2>12 DEF d2
    <3>3. e + y.completed = n + 1 /\ n < n + 1 /\ n + 1 \in Nat
      <4>1. e + (x.completed + 1) = (e + x.completed) + 1
        OBVIOUS
      <4>2. y.completed = x.completed + 1
        BY <3>2
      <4>3. e + y.completed = n + 1
        BY <4>1, <4>2 DEF n
      <4>4. n \in Nat
        BY <2>3
      <4> QED BY <4>3, <4>4
    <3>4. ClosedBefore(d2, activation[f], n + 1)
      BY <2>3, <2>4, <2>8, <2>11, <3>1, <3>3, OpenLeasesAreNotNone DEF ClosedBefore, d2
    <3> QED BY <3>2, <3>3, <3>4, <2>11 DEF StreamAt, d2, y
  <2>13. CASE ~done
    <3>1. y.active = after /\ y.completed = x.completed /\ y.drained = d2
      BY <2>2, <2>13 DEF d2
    <3>2. next \in a.lease.range /\ next \in Nat /\ next # Min(a.lease.range)
          /\ next - 1 = a.next
      BY <2>4, <2>9, <2>13
    <3>3. /\ after \in OpenLeases /\ after.next = next /\ after.lease = a.lease
          /\ after.k = a.k /\ after.epoch = a.epoch
          /\ after.ready \in {None, packet}
      BY <2>3, <2>5, <3>2 DEF OpenLeases
    <3> HIDE DEF after, next
    <3>4. ReadyHolds(after)
      BY <2>5, <3>3 DEF ReadyHolds
    <3>5. Resumes(after, d2)
      BY <2>4, <2>8, <2>11, <3>2, <3>3 DEF Resumes, d2
    <3>6. e + y.completed = n
      BY <3>1 DEF n
    <3>7. y.completed \in Nat
      BY <3>1
    <3>8. StreamAt(f, after, d2, n)
      BY <2>3, <2>11, <3>3, <3>4, <3>5, OpenLeasesAreNotNone DEF StreamAt, d2
    <3> QED BY <3>1, <3>6, <3>7, <3>8 DEF y
  <2> QED BY <2>12, <2>13
<1> QED BY <1>1, <1>2

\* A burst (`drain_into`).
LEMMA BurstKeeps ==
    ASSUME ExecutorTypes, NEW f \in Readers, NEW n \in Nat, expected[f] \in Nat,
           StreamAt(f, active[f], drained[f], expected[f])
    PROVE  LET end == Burst(f, n) IN
           /\ end.completed \in Nat
           /\ StreamAt(f, end.active, end.drained, expected[f] + end.completed)
<1>1. PICK g : IsBurst(f, n, g) /\ Burst(f, n) = g[n]
  BY BurstRuns
<1> DEFINE Good(i) == /\ g[i].completed \in Nat
                      /\ StreamAt(f, g[i].active, g[i].drained, expected[f] + g[i].completed)
           bad == {i \in 0 .. n : ~Good(i)}
<1>2. SUFFICES ASSUME bad # {} PROVE FALSE
  BY <1>1
<1>3. PICK i \in bad : \A j \in bad : ~(j < i)
  <2>1. bad \subseteq Nat
    OBVIOUS
  <2> HIDE DEF bad
  <2> QED BY <1>2, <2>1, LeastNumber
<1>4. i \in 0 .. n /\ ~Good(i)
  OBVIOUS
<1>5. CASE i = 0
  <2>1. g[0] = Stage(f)
    BY <1>1, <1>4 DEF IsBurst
  <2>2. expected[f] + 0 = expected[f]
    OBVIOUS
  <2> QED BY <1>4, <1>5, <2>1, <2>2 DEF Stage
<1>6. CASE i # 0
  <2>1. PICK j \in 0 .. n : j = i - 1 /\ j < i
    BY <1>4, <1>6
  <2>2. Good(j)
    BY <1>3, <2>1
  <2>3. g[i] = DrainOne(f, g[j])
    BY <1>1, <1>4, <1>6, <2>1 DEF IsBurst
  <2> QED BY <1>4, <2>2, <2>3, DrainOneKeeps
<1> QED BY <1>5, <1>6

\* The ordinals of a reservation are an interval (`reserve`).
LEMMA ReservedInterval ==
    ASSUME LeaseTypes, NEW s \in Sources, NEW stride \in Nat \ {0}
    PROVE  /\ (cursor[s] + stride) % Modulus \in Nat
           /\ Ordinals(s, stride) \subseteq Nat
           /\ Ordinals(s, stride) # {} =>
                \E lo, hi \in Ordinals(s, stride) : lo <= hi /\ Ordinals(s, stride) = lo .. hi
<1>1. /\ cursor[s] \in Nat /\ cursor[s] + stride \in Nat /\ Modulus \in Nat /\ Modulus > 0
      /\ End[s] \in Nat
  BY EndAssumption DEF LeaseTypes
<1>2. (cursor[s] + stride) % Modulus \in Nat
  BY <1>1
<1> DEFINE next == (cursor[s] + stride) % Modulus
           actual_end == IF next < End[s] THEN next ELSE End[s]
<1>3. actual_end \in Nat
  BY <1>1, <1>2
<1>4. Ordinals(s, stride) = IF cursor[s] < End[s] THEN cursor[s] .. (actual_end - 1) ELSE {}
  BY DEF Ordinals
<1> HIDE DEF actual_end
<1>5. ASSUME Ordinals(s, stride) # {}
      PROVE  \E lo, hi \in Ordinals(s, stride) : lo <= hi /\ Ordinals(s, stride) = lo .. hi
  <2>1. Ordinals(s, stride) = cursor[s] .. (actual_end - 1)
    BY <1>4, <1>5
  <2>2. cursor[s] <= actual_end - 1
    BY <1>1, <1>3, <1>5, <2>1
  <2>3. cursor[s] \in Ordinals(s, stride) /\ actual_end - 1 \in Ordinals(s, stride)
    BY <1>1, <1>3, <2>1, <2>2
  <2> QED BY <2>1, <2>2, <2>3
<1> QED BY <1>1, <1>2, <1>3, <1>4, <1>5

\* What is left after one lease is taken out are leases that were there.
LEMMA RemoveAtKeeps ==
    ASSUME NEW S, NEW d \in Seq(S), NEW i \in DOMAIN d
    PROVE  RemoveAt(d, i) \in Seq(S)
<1>1. i \in 1 .. Len(d) /\ Len(d) \in Nat
  OBVIOUS
<1>2. SubSeq(d, 1, i - 1) \in Seq(S) /\ SubSeq(d, i + 1, Len(d)) \in Seq(S)
  BY <1>1, SubSeqProperties
<1> QED BY <1>2, ConcatProperties DEF RemoveAt

\* No fiber has drained anything at first.
LEMMA InitStream == Init => LeaseTypes /\ ExecutorTypes /\ StreamInv
<1> SUFFICES ASSUME Init PROVE LeaseTypes /\ ExecutorTypes /\ StreamInv
  OBVIOUS
<1>1. LeaseTypes
  BY EndAssumption DEF Init, CursorsInit, RangeInit, LeaseTypes
<1>2. Min(Broadcasts) \in Broadcasts
  <2>1. PICK m \in Broadcasts : \A k \in Broadcasts : ~(k < m)
    BY EpochsAssumption, LeastNumber
  <2>2. \A k \in Broadcasts : m <= k
    BY <2>1, EpochsAssumption
  <2> QED BY <2>2 DEF Min
<1>3. ExecutorTypes
  BY <1>2 DEF Init, ExecutorTypes
<1>4. StreamInv
  BY DEF Init, StreamInv, StreamAt, InOrder, ClosedBefore
<1> QED BY <1>1, <1>3, <1>4

\* A step of the cursors leaves the leases typed.
LEMMA CursorTypes ==
    ASSUME LeaseTypes, [Next]_vars PROVE LeaseTypes'
<1>1. CASE UNCHANGED vars
  BY <1>1 DEF vars, rangeVars, cursorVars, LeaseTypes
<1>2. ASSUME NEW s \in Sources, RewindForPoll(s), UNCHANGED cursorVars PROVE LeaseTypes'
  <2>1. /\ cursor' = [cursor EXCEPT ![s] = Start[s]]
        /\ round' = [round EXCEPT ![s] = @ + 1]
        /\ UNCHANGED <<next_sequence, held>> /\ Start[s] \in Nat
    BY <1>2, EndAssumption DEF RewindForPoll, cursorVars
  <2> QED BY <2>1 DEF LeaseTypes
<1>3. ASSUME NEW f \in Readers, NEW s \in Sources, AdvanceTarget(f, s) PROVE LeaseTypes'
  <2>1. cursor' = [cursor EXCEPT ![s] = (@ + 1) % Modulus] /\ round' = round
    BY <1>3 DEF AdvanceTarget, Reserve
  <2>2. (cursor[s] + 1) % Modulus \in Nat
    BY ReservedInterval
  <2>3. UNCHANGED <<next_sequence, held>>
    BY <1>3 DEF AdvanceTarget
  <2> QED BY <2>1, <2>2, <2>3 DEF LeaseTypes
<1>4. ASSUME NEW f \in Readers, NEW s \in Sources, NEW demand \in Demands,
             ReserveOrdinalBatch(f, s, demand)
      PROVE  LeaseTypes'
  <2> DEFINE lease == [source |-> s, sequence |-> next_sequence[f],
                       range |-> Ordinals(s, demand), round |-> round[s]]
  <2>1. demand \in Nat \ {0}
    BY DemandsAssumption
  <2>2. /\ cursor' = [cursor EXCEPT ![s] = (@ + demand) % Modulus] /\ round' = round
    BY <1>4 DEF ReserveOrdinalBatch, Reserve
  <2>3. (cursor[s] + demand) % Modulus \in Nat
    BY <2>1, ReservedInterval
  <2>4. cursor' \in [Sources -> Nat] /\ round' \in [Sources -> Nat]
    BY <2>2, <2>3 DEF LeaseTypes
  <2>5. CASE Ordinals(s, demand) = {}
    BY <1>4, <2>4, <2>5 DEF ReserveOrdinalBatch, LeaseTypes
  <2>6. CASE Ordinals(s, demand) # {}
    <3>1. lease \in Leases
      BY <2>1, ReservedInterval DEF Leases, LeaseTypes
    <3>2. lease \in WholeLeases
      BY <2>1, <2>6, <3>1, ReservedInterval DEF WholeLeases
    <3>3. /\ held' = [held EXCEPT ![f] = Append(@, lease)]
          /\ next_sequence' = [next_sequence EXCEPT ![f] = @ + 1]
      BY <1>4, <2>6 DEF ReserveOrdinalBatch
    <3> HIDE DEF lease
    <3>4. held' \in [Readers -> Seq(WholeLeases)]
      BY <3>2, <3>3 DEF LeaseTypes
    <3>5. next_sequence' \in [Readers -> Nat]
      BY <3>3 DEF LeaseTypes
    <3> QED BY <2>4, <3>4, <3>5 DEF LeaseTypes
  <2> QED BY <2>5, <2>6
<1>5. ASSUME NEW f \in Readers, NewCursors(f) PROVE LeaseTypes'
  BY <1>5 DEF NewCursors, rangeVars, LeaseTypes
<1>6. ASSUME NEW f \in Readers, NEW i \in DOMAIN held[f],
             held' = [held EXCEPT ![f] = RemoveAt(@, i)],
             UNCHANGED <<rangeVars, next_sequence>>
      PROVE  LeaseTypes'
  <2>1. RemoveAt(held[f], i) \in Seq(WholeLeases)
    BY RemoveAtKeeps DEF LeaseTypes
  <2> QED BY <1>6, <2>1 DEF LeaseTypes, rangeVars
<1>7. ASSUME NEW f \in Executors, ExecutorStep(f) PROVE LeaseTypes'
  <2>0. f \in Readers
    BY ExecutorsAssumption
  <2>1. CASE \E epoch \in Epochs : BeginLease(f, epoch)
    BY <2>0, <2>1, <1>6 DEF BeginLease
  <2>2. CASE ProcessElsewhere(f)
    BY <2>0, <2>2, <1>6 DEF ProcessElsewhere
  <2>3. CASE UNCHANGED <<rangeVars, cursorVars>>
    BY <2>3 DEF rangeVars, cursorVars, LeaseTypes
  <2> QED BY <1>7, <2>1, <2>2, <2>3
          DEF ExecutorStep, ForceScalarRecovery, SetBroadcast, DrainInto
<1> QED BY <1>1, <1>2, <1>3, <1>4, <1>5, <1>7, ExecutorsAssumption DEF Next, CursorStep

\* A fiber's stream is as it was when nothing of its executor changed.
LEMMA StreamKept ==
    ASSUME NEW f, StreamAt(f, active[f], drained[f], expected[f]),
           active'[f] = active[f], drained'[f] = drained[f], expected'[f] = expected[f],
           broadcast'[f] = broadcast[f], activation'[f] = activation[f]
    PROVE  StreamAt(f, active[f], drained[f], expected[f])'
BY DEF StreamAt

\* A lease begun comes after what was drained (`begin_lease`).
LEMMA BeginKeeps ==
    ASSUME LeaseTypes, ExecutorTypes, StreamInv, NEW f \in Readers, NEW epoch \in Epochs,
           BeginLease(f, epoch)
    PROVE  ExecutorTypes' /\ StreamInv'
<1>1. PICK i \in DOMAIN held[f] :
        /\ ValidLease(f, held[f][i], epoch)
        /\ active' = [active EXCEPT ![f] = Open(held[f][i], epoch, broadcast[f])]
        /\ activation' = [activation EXCEPT ![f] = epoch]
        /\ expected' = [expected EXCEPT ![f] = IF activation[f] = epoch THEN @ ELSE 0]
        /\ UNCHANGED <<broadcast, drained>>
  BY DEF BeginLease
<1> DEFINE lease == held[f][i]
           a == Open(lease, epoch, broadcast[f])
<1>2. lease \in WholeLeases
  BY DEF LeaseTypes
<1>3. broadcast[f] \in Broadcasts /\ epoch \in Nat /\ expected[f] \in Nat
      /\ activation[f] \in Epochs \cup {None} /\ (activation[f] # None => activation[f] \in Nat)
  BY EpochsAssumption DEF ExecutorTypes
<1> HIDE DEF lease
<1>4. /\ a.lease = lease /\ a.epoch = epoch /\ a.next = Min(lease.range)
      /\ a.ready = None /\ a.k = broadcast[f]
  BY DEF Open
<1>5. a \in OpenLeases
  BY <1>2, <1>3, WholeEnds DEF Open, OpenLeases
<1> HIDE DEF a
<1>6. active[f] = None /\ expected'[f] = lease.sequence
  BY <1>1, <1>3, OpenLeasesAreNotNone DEF ValidLease, ExecutorTypes, lease
<1>7. ClosedBefore(drained[f], activation[f], expected[f]) /\ InOrder(drained[f])
      /\ drained[f] \in Seq(DrainedValues)
  BY <1>6 DEF StreamInv, StreamAt
<1>8. ClosedBefore(drained[f], epoch, lease.sequence)
  <2> SUFFICES ASSUME drained[f] # <<>>
               PROVE  LET c == drained[f][Len(drained[f])] IN
                      /\ c.ordinal = Max(c.lease.range)
                      /\ epoch # None
                      /\ \/ c.epoch < epoch
                         \/ c.epoch = epoch /\ c.lease.sequence < lease.sequence
    BY DEF ClosedBefore
  <2> DEFINE c == drained[f][Len(drained[f])]
  <2>1. /\ c.ordinal = Max(c.lease.range) /\ activation[f] # None
        /\ \/ c.epoch < activation[f]
           \/ c.epoch = activation[f] /\ c.lease.sequence < expected[f]
    BY <1>7 DEF ClosedBefore
  <2>2. c \in DrainedValues
    <3>1. Len(drained[f]) \in 1 .. Len(drained[f])
      BY <1>7
    <3> QED BY <1>7, <3>1
  <2>3. c.epoch \in Nat
    BY <2>2, EpochsAssumption DEF DrainedValues
  <2> HIDE DEF c
  <2>4. \/ epoch > activation[f]
        \/ epoch = activation[f] /\ lease.sequence = expected[f]
    BY <1>1, <2>1 DEF ValidLease, lease
  <2>5. \/ c.epoch < epoch
        \/ c.epoch = epoch /\ c.lease.sequence < lease.sequence
    BY <1>3, <2>1, <2>3, <2>4
  <2> QED BY <2>1, <2>5, OpenLeasesAreNotNone DEF c
<1>9. Resumes(a, drained[f])
  <2>1. Min(lease.range) \in lease.range
    BY <1>2, WholeEnds
  <2> QED BY <1>2, <1>4, <1>8, <2>1 DEF Resumes
<1>10. /\ active' = [active EXCEPT ![f] = a] /\ expected' \in [Readers -> Nat]
       /\ active' \in [Readers -> OpenLeases \cup {None}]
       /\ activation' \in [Readers -> Epochs \cup {None}]
  BY <1>1, <1>3, <1>5 DEF ExecutorTypes, a, lease
<1>11. ExecutorTypes'
  BY <1>1, <1>10 DEF ExecutorTypes
<1>12. StreamAt(f, active[f], drained[f], expected[f])'
  <2>1. active'[f] = a /\ drained'[f] = drained[f] /\ activation'[f] = epoch
        /\ broadcast'[f] = broadcast[f] /\ expected'[f] \in Nat
    BY <1>1, <1>10 DEF ExecutorTypes
  <2>2. a # None /\ ReadyHolds(a)
    BY <1>4, <1>5, OpenLeasesAreNotNone DEF ReadyHolds
  <2> QED BY <1>4, <1>5, <1>6, <1>7, <1>9, <2>1, <2>2 DEF StreamAt
<1>13. ASSUME NEW g \in Readers \ {f}
       PROVE  StreamAt(g, active[g], drained[g], expected[g])'
  BY <1>1, StreamKept DEF StreamInv, ExecutorTypes
<1> QED BY <1>11, <1>12, <1>13 DEF StreamInv

\* A burst (`drain_into`).
LEMMA DrainKeeps ==
    ASSUME ExecutorTypes, StreamInv, NEW f \in Readers, NEW n \in Nat, DrainInto(f, n)
    PROVE  ExecutorTypes' /\ StreamInv'
<1> DEFINE end == Burst(f, n)
<1>1. expected[f] \in Nat
  BY DEF ExecutorTypes
<1>2. /\ end.completed \in Nat
      /\ StreamAt(f, end.active, end.drained, expected[f] + end.completed)
  BY <1>1, BurstKeeps DEF StreamInv
<1>3. /\ active' = [active EXCEPT ![f] = end.active]
      /\ drained' = [drained EXCEPT ![f] = end.drained]
      /\ expected' = [expected EXCEPT ![f] = @ + end.completed]
      /\ UNCHANGED <<activation, broadcast>>
  BY DEF DrainInto
<1> HIDE DEF end
<1>4. end.active \in OpenLeases \cup {None} /\ end.drained \in Seq(DrainedValues)
  BY <1>2 DEF StreamAt
<1>5. ExecutorTypes'
  BY <1>1, <1>2, <1>3, <1>4 DEF ExecutorTypes
<1>6. StreamAt(f, active[f], drained[f], expected[f])'
  <2>1. /\ active'[f] = end.active /\ drained'[f] = end.drained
        /\ expected'[f] = expected[f] + end.completed
    BY <1>3 DEF ExecutorTypes
  <2> QED BY <1>2, <1>3, <2>1 DEF StreamAt
<1>7. ASSUME NEW g \in Readers \ {f}
      PROVE  StreamAt(g, active[g], drained[g], expected[g])'
  BY <1>3, StreamKept DEF StreamInv, ExecutorTypes
<1> QED BY <1>5, <1>6, <1>7 DEF StreamInv

\* The steps that touch neither the drained values nor the sequence numbers.
LEMMA OtherKeeps ==
    ASSUME ExecutorTypes, StreamInv, NEW f \in Readers,
           ProcessElsewhere(f) \/ ForceScalarRecovery(f) \/ SetBroadcast(f)
    PROVE  ExecutorTypes' /\ StreamInv'
<1>1. CASE ProcessElsewhere(f)
  <2>1. UNCHANGED <<active, activation, expected, broadcast, drained>>
    BY <1>1 DEF ProcessElsewhere
  <2> QED BY <2>1, StreamKept DEF ExecutorTypes, StreamInv
<1>2. CASE ForceScalarRecovery(f)
  <2> DEFINE a == [active[f] EXCEPT !.ready = None, !.scalar_only = TRUE]
  <2>1. active[f] # None /\ active' = [active EXCEPT ![f] = a]
        /\ UNCHANGED <<activation, expected, broadcast, drained>>
    BY <1>2 DEF ForceScalarRecovery
  <2>2. active[f] \in OpenLeases
    BY <2>1 DEF ExecutorTypes
  <2>3. /\ a \in OpenLeases /\ a.ready = None /\ a.lease = active[f].lease
        /\ a.next = active[f].next /\ a.epoch = active[f].epoch /\ a.k = active[f].k
    BY <2>2 DEF OpenLeases
  <2> HIDE DEF a
  <2>4. ExecutorTypes'
    BY <2>1, <2>3 DEF ExecutorTypes
  <2>5. StreamAt(f, active[f], drained[f], expected[f])
    BY DEF StreamInv
  <2>6. StreamAt(f, active[f], drained[f], expected[f])'
    <3>1. active'[f] = a
      BY <2>1 DEF ExecutorTypes
    <3>2. ReadyHolds(a) /\ Resumes(a, drained[f])
      BY <2>1, <2>3, <2>5 DEF StreamAt, ReadyHolds, Resumes
    <3> QED BY <2>1, <2>3, <2>5, <3>1, <3>2, OpenLeasesAreNotNone DEF StreamAt
  <2>7. ASSUME NEW g \in Readers \ {f}
        PROVE  StreamAt(g, active[g], drained[g], expected[g])'
    BY <2>1, StreamKept DEF StreamInv, ExecutorTypes
  <2> QED BY <2>4, <2>6, <2>7 DEF StreamInv
<1>3. CASE SetBroadcast(f)
  <2>1. PICK k \in Broadcasts : broadcast' = [broadcast EXCEPT ![f] = k]
    BY <1>3 DEF SetBroadcast
  <2>2. active[f] = None /\ UNCHANGED <<active, activation, expected, drained>>
    BY <1>3 DEF SetBroadcast
  <2>3. ExecutorTypes'
    BY <2>1, <2>2 DEF ExecutorTypes
  <2>4. StreamAt(f, active[f], drained[f], expected[f])'
    BY <2>2 DEF StreamInv, StreamAt
  <2>5. ASSUME NEW g \in Readers \ {f}
        PROVE  StreamAt(g, active[g], drained[g], expected[g])'
    BY <2>1, <2>2, StreamKept DEF StreamInv, ExecutorTypes
  <2> QED BY <2>3, <2>4, <2>5 DEF StreamInv
<1> QED BY <1>1, <1>2, <1>3

\* Every step keeps the streams in order.
LEMMA NextStream ==
    ASSUME LeaseTypes, ExecutorTypes, StreamInv, [Next]_vars
    PROVE  LeaseTypes' /\ ExecutorTypes' /\ StreamInv'
<1>1. LeaseTypes'
  BY CursorTypes
<1>2. CASE UNCHANGED executorVars
  <2>1. UNCHANGED <<active, activation, expected, broadcast, drained>>
    BY <1>2 DEF executorVars
  <2> QED BY <1>1, <2>1, StreamKept DEF ExecutorTypes, StreamInv
<1>3. ASSUME NEW f \in Executors, ExecutorStep(f) PROVE ExecutorTypes' /\ StreamInv'
  <2>1. f \in Readers /\ Bursts \subseteq Nat
    BY ExecutorsAssumption, LanesAssumption
  <2>2. CASE \E epoch \in Epochs : BeginLease(f, epoch)
    BY <2>1, <2>2, BeginKeeps
  <2>3. CASE \E n \in Bursts : DrainInto(f, n)
    BY <2>1, <2>3, DrainKeeps
  <2> QED BY <1>3, <2>1, <2>2, <2>3, OtherKeeps DEF ExecutorStep
<1> QED BY <1>1, <1>2, <1>3 DEF Next, vars

\* Every value drained is the scalar graph's for its ordinal, and values and
\* leases come in order (`drain_into`, `begin_lease`), whatever the bursts, the
\* recoveries and the other fibers do, wrap-around of the cursor included.
THEOREM StreamCorrect == Spec => []DrainedIsTheScalarStream
<1>1. StreamInv => DrainedIsTheScalarStream
  BY DEF StreamInv, StreamAt, InOrder, DrainedIsTheScalarStream
<1> QED BY <1>1, InitStream, NextStream, PTL DEF Spec

-----------------------------------------------------------------------------
\* The books: where each ordinal a fiber claimed has gone.

\* The ordinals of a lease, each with its round.
Pairs(lease) == {<<o, lease.round>> : o \in lease.range}

\* The ordinals of the leases a fiber holds.
Kept(h) == UNION {Pairs(h[i]) : i \in DOMAIN h}

\* No two leases share an ordinal of a round.
Apart(h) == \A i, j \in DOMAIN h : i # j => Pairs(h[i]) \cap Pairs(h[j]) = {}

\* The ordinals an open lease has yet to drain.
Undrained(a) == IF a = None THEN {}
           ELSE {<<o, a.lease.round>> : o \in {o \in a.lease.range : o >= a.next}}

\* The ordinals of the values drained.
Given(d) == {<<d[i].ordinal, d[i].lease.round>> : i \in DOMAIN d}

\* No ordinal of a round is drained twice.
Once(d) ==
    \A i, j \in DOMAIN d :
      i # j => <<d[i].ordinal, d[i].lease.round>> # <<d[j].ordinal, d[j].lease.round>>

\* The books of a fiber on its source: what it claimed in round r, C, is what
\* it handed out, D, holds in leases, K, has yet to drain, T, processed
\* itself, E, or advanced over, A, and these have nothing in common.
Balanced(C, r, D, K, T, E, A) ==
    /\ D \cap (K \cup T \cup E \cup A) = {}
    /\ (K \cup T \cup E) \cap A = {}
    /\ (K \cup T) \cap E = {}
    /\ K \cap T = {}
    /\ \A x \in D \cup K \cup T \cup E \cup A :
         /\ x \in Nat \X Nat /\ x[2] <= r
         /\ x[2] = r => x[1] \in C
    /\ \A o \in C : <<o, r>> \in D \cup K \cup T \cup E \cup A

\* The books of every fiber with one source are balanced.
BooksInv ==
    \A f \in Readers : Len(targets[f]) = 1 =>
      LET s == targets[f][1] IN
      /\ Apart(held[f]) /\ Once(drained[f])
      /\ Balanced(claimed[s][f], round[s], Given(drained[f]), Kept(held[f]),
                  Undrained(active[f]), elsewhere[f], Advanced(f))

\* The types of the readers' state; all fibers have the same sources, each once.
TargetTypes ==
    /\ targets \in [Readers -> Seq(Sources)]
    /\ \A f, g \in Readers : targets[f] = targets[g]
    /\ \A f \in Readers : \A i, j \in DOMAIN targets[f] :
         targets[f][i] = targets[f][j] => i = j
    /\ at \in [Readers -> Nat]
    /\ \A f \in Readers : at[f] \in DOMAIN targets[f] \/ targets[f] = <<>>
    /\ DOMAIN last_items = Readers
    /\ \A f \in Readers : last_items[f] \in [DOMAIN targets[f] -> Nat \cup {None}]
    /\ rows \subseteq Readers \X Seq(Nat \cup {None}) \X Nat
    /\ elsewhere \in [Readers -> SUBSET (Nat \X Nat)]

\* What the loop of `for_fields` has chosen after each input.
Wanted(fields, i, ts) ==
    /\ i \in UNION {InputProvenance[name] : name \in fields}
    /\ InputNames[i] \in Factories /\ InputNames[i] \notin ToSet(ts)

\* What the loop makes of the sources chosen before input i.
Grown(fields, i, ts) ==
    IF Wanted(fields, i, ts) THEN Append(ts, InputNames[i]) ELSE ts

\* The stages of the loop of `for_fields` over the first n inputs.
IsChoice(fields, n, c) ==
    c = [i \in 0 .. n |-> IF i = 0 THEN <<>> ELSE Grown(fields, i, c[i - 1])]

\* The stages of the loop exist, for any number of inputs.
LEMMA ChoiceExists ==
    ASSUME NEW fields, NEW n \in Nat
    PROVE  \E c : IsChoice(fields, n, c)
<1> DEFINE Bad == {m \in Nat : ~ \E c : IsChoice(fields, m, c)}
<1>1. SUFFICES ASSUME Bad # {} PROVE FALSE
  OBVIOUS
<1>2. PICK m \in Bad : \A k \in Bad : ~(k < m)
  <2>1. Bad \subseteq Nat
    OBVIOUS
  <2> HIDE DEF Bad
  <2> QED BY <1>1, <2>1, LeastNumber
<1>3. CASE m = 0
  <2> DEFINE g == [i \in 0 .. 0 |-> <<>>]
  <2>1. IsChoice(fields, 0, g)
    BY DEF IsChoice
  <2> QED BY <1>3, <2>1
<1>4. CASE m > 0
  <2>1. m - 1 \in Nat /\ m - 1 < m
    BY <1>4
  <2>2. m - 1 \notin Bad
    BY <1>2, <2>1
  <2>3. PICK h : IsChoice(fields, m - 1, h)
    BY <2>1, <2>2
  <2> DEFINE g == [i \in 0 .. m |-> IF i = m THEN Grown(fields, m, h[m - 1]) ELSE h[i]]
  <2>4. \A i \in 0 .. m :
          g[i] = IF i = 0 THEN <<>> ELSE Grown(fields, i, g[i - 1])
    <3> TAKE i \in 0 .. m
    <3>1. CASE i = m
      BY <1>4, <3>1, <2>1
    <3>2. CASE i # m
      BY <3>2, <2>3, <2>1 DEF IsChoice
    <3> QED BY <3>1, <3>2
  <2>5. IsChoice(fields, m, g)
    BY <2>4 DEF IsChoice
  <2> QED BY <2>5
<1> QED BY <1>3, <1>4

\* `ForFields` is the last of the stages.
LEMMA ChoiceMade ==
    ASSUME NEW fields
    PROVE  \E c : IsChoice(fields, Len(InputNames), c)
                    /\ ForFields(fields) = c[Len(InputNames)]
<1> DEFINE n == Len(InputNames)
           provenance == UNION {InputProvenance[name] : name \in fields}
           Eq(chosen) ==
             chosen = [i \in 0 .. n |->
               IF i = 0 THEN <<>>
               ELSE IF /\ i \in provenance /\ InputNames[i] \in Factories
                       /\ InputNames[i] \notin ToSet(chosen[i - 1])
                    THEN Append(chosen[i - 1], InputNames[i]) ELSE chosen[i - 1]]
<1>1. n \in Nat
  BY InputsAssumption
<1>2. \E c : Eq(c)
  <2>1. PICK g : IsChoice(fields, n, g)
    <3> HIDE DEF n
    <3> QED BY <1>1, ChoiceExists
  <2>2. Eq(g)
    BY <2>1 DEF IsChoice, Grown, Wanted
  <2> QED BY <2>2
<1>3. Eq(CHOOSE c : Eq(c))
  <2> HIDE DEF Eq
  <2> QED BY <1>2
<1>4. ForFields(fields) = (CHOOSE c : Eq(c))[n]
  BY DEF ForFields
<1> QED BY <1>3, <1>4 DEF IsChoice, Grown, Wanted

\* The targets of a fiber are sources, each of them once (`for_fields`).
LEMMA EachSourceOnce ==
    ASSUME NEW fields
    PROVE  /\ ForFields(fields) \in Seq(Sources)
           /\ \A i, j \in DOMAIN ForFields(fields) :
                ForFields(fields)[i] = ForFields(fields)[j] => i = j
<1>1. PICK c : IsChoice(fields, Len(InputNames), c)
                 /\ ForFields(fields) = c[Len(InputNames)]
  BY ChoiceMade
<1> DEFINE n == Len(InputNames)
           Good(ts) == /\ ts \in Seq(Sources)
                       /\ \A i, j \in DOMAIN ts : ts[i] = ts[j] => i = j
           bad == {i \in 0 .. n : ~Good(c[i])}
<1>2. n \in Nat
  BY InputsAssumption
<1>3. SUFFICES ASSUME bad # {} PROVE FALSE
  <2>1. n \in 0 .. n
    BY <1>2
  <2> QED BY <1>1, <2>1
<1>4. PICK i \in bad : \A j \in bad : ~(j < i)
  <2>1. bad \subseteq Nat
    BY <1>2
  <2> HIDE DEF bad
  <2> QED BY <1>3, <2>1, LeastNumber
<1>5. i \in 0 .. n /\ ~Good(c[i])
  OBVIOUS
<1> HIDE DEF n
<1>6. CASE i = 0
  <2>1. c[i] = <<>>
    BY <1>1, <1>5, <1>6 DEF IsChoice, n
  <2> QED BY <1>5, <2>1
<1>7. CASE i # 0
  <2>1. PICK j \in 0 .. n : j = i - 1 /\ j < i
    BY <1>2, <1>5, <1>7
  <2>2. Good(c[j])
    BY <1>4, <2>1
  <2>3. c[i] = Grown(fields, i, c[j])
    BY <1>1, <1>5, <1>7, <2>1 DEF IsChoice, n
  <2> DEFINE ts == c[j]
             x == InputNames[i]
  <2>4. ASSUME Wanted(fields, i, ts) PROVE Good(Append(ts, x))
    <3>1. x \in Sources /\ x \notin ToSet(ts)
      BY <2>4, InputsAssumption DEF Wanted
    <3>2. \A k \in DOMAIN ts : ts[k] # x
      BY <3>1 DEF ToSet
    <3> HIDE DEF ts, x
    <3>3. ts \in Seq(Sources) /\ \A k, l \in DOMAIN ts : ts[k] = ts[l] => k = l
      BY <2>2 DEF ts
    <3>4. /\ Append(ts, x) \in Seq(Sources) /\ Len(ts) \in Nat
          /\ DOMAIN ts = 1 .. Len(ts)
          /\ DOMAIN Append(ts, x) = 1 .. (Len(ts) + 1)
          /\ Append(ts, x)[Len(ts) + 1] = x
          /\ \A k \in 1 .. Len(ts) : Append(ts, x)[k] = ts[k]
      BY <3>1, <3>3
    <3>5. \A k, l \in DOMAIN Append(ts, x) : Append(ts, x)[k] = Append(ts, x)[l] => k = l
      BY <3>2, <3>3, <3>4
    <3> QED BY <3>4, <3>5
  <2> QED BY <1>5, <2>2, <2>3, <2>4 DEF Grown
<1> QED BY <1>6, <1>7

\* What an `advance` of one target does when there is an ordinal left.
LEMMA AdvanceItems ==
    ASSUME LeaseTypes, TargetTypes, NEW f \in Readers, NEW s \in Sources,
           AdvanceTarget(f, s), Ordinals(s, 1) # {}
    PROVE  \E o \in Ordinals(s, 1), items \in [DOMAIN targets[f] -> Nat \cup {None}] :
             /\ o \in Nat /\ items = [last_items[f] EXCEPT ![at[f]] = o]
             /\ items[at[f]] = o
             /\ last_items' = [last_items EXCEPT ![f] = items]
             /\ at' = [at EXCEPT ![f] = IF at[f] = Len(targets[f]) THEN 1 ELSE at[f] + 1]
             /\ rows' = IF at[f] = Len(targets[f]) THEN rows \cup {<<f, items, round[s]>>}
                        ELSE rows
<1> DEFINE o == CHOOSE o \in Ordinals(s, 1) : TRUE
           items == [last_items[f] EXCEPT ![at[f]] = o]
<1>1. o \in Ordinals(s, 1)
  OBVIOUS
<1>2. o \in Nat
  BY <1>1, ReservedInterval
<1>3. at[f] \in DOMAIN targets[f]
  BY DEF AdvanceTarget
<1>4. /\ last_items' = [last_items EXCEPT ![f] = items]
      /\ at' = [at EXCEPT ![f] = IF at[f] = Len(targets[f]) THEN 1 ELSE at[f] + 1]
      /\ rows' = IF at[f] = Len(targets[f]) THEN rows \cup {<<f, items, round[s]>>}
                 ELSE rows
  BY DEF AdvanceTarget
<1> HIDE DEF o
<1>5. items \in [DOMAIN targets[f] -> Nat \cup {None}] /\ items[at[f]] = o
  BY <1>2, <1>3 DEF TargetTypes
<1> QED BY <1>1, <1>2, <1>4, <1>5

\* A fiber with one target.
LEMMA OneTarget ==
    ASSUME TargetTypes, NEW f \in Readers, Len(targets[f]) = 1
    PROVE  targets[f][1] \in Sources /\ DOMAIN targets[f] = {1} /\ at[f] = 1
<1>1. targets[f] \in Seq(Sources)
  BY DEF TargetTypes
<1>2. DOMAIN targets[f] = 1 .. 1
  BY <1>1
<1>3. 1 \in DOMAIN targets[f] /\ targets[f] # <<>>
  BY <1>2
<1>4. targets[f][1] \in Sources
  BY <1>1, <1>3
<1> QED BY <1>2, <1>3, <1>4 DEF TargetTypes

\* At first every fiber has its sources and its books are empty.
LEMMA InitTargets == Init => TargetTypes /\ BooksInv
<1> SUFFICES ASSUME Init PROVE TargetTypes /\ BooksInv
  OBVIOUS
<1>1. PICK fields \in FieldChoices : targets = [f \in Readers |-> ForFields(fields)]
  BY DEF Init, CursorsInit
<1>2. \A f \in Readers : targets[f] = ForFields(fields)
  BY <1>1
<1>3. at = [f \in Readers |-> 1] /\ last_items = [f \in Readers |-> NoItems(f)]
      /\ rows = {} /\ elsewhere = [f \in Readers |-> {}]
      /\ held = [f \in Readers |-> <<>>] /\ drained = [f \in Readers |-> <<>>]
      /\ active = [f \in Readers |-> None]
      /\ round = [s \in Sources |-> 1]
      /\ claimed = [s \in Sources |-> [r \in Readers |-> {}]]
  BY DEF Init, CursorsInit, RangeInit
<1>4. targets \in [Readers -> Seq(Sources)]
  BY <1>1, <1>2, EachSourceOnce
<1>5. \A f \in Readers : at[f] \in DOMAIN targets[f] \/ targets[f] = <<>>
  BY <1>3, <1>4
<1>6. \A f \in Readers : last_items[f] \in [DOMAIN targets[f] -> Nat \cup {None}]
  BY <1>3 DEF NoItems
<1>7. TargetTypes
  BY <1>1, <1>2, <1>3, <1>4, <1>5, <1>6, EachSourceOnce DEF TargetTypes
<1>8. ASSUME NEW f \in Readers, Len(targets[f]) = 1 PROVE targets[f][1] \in Sources
  BY <1>7, <1>8, OneTarget
<1>9. \A f \in Readers : Given(drained[f]) = {} /\ Kept(held[f]) = {}
        /\ Undrained(active[f]) = {} /\ elsewhere[f] = {} /\ Advanced(f) = {}
  BY <1>3 DEF Given, Kept, Undrained, Advanced
<1>10. \A f \in Readers : Apart(held[f]) /\ Once(drained[f])
  BY <1>3 DEF Apart, Once
<1>11. \A f \in Readers, s \in Sources : claimed[s][f] = {}
  BY <1>3
<1>12. BooksInv
  <2> SUFFICES ASSUME NEW f \in Readers, Len(targets[f]) = 1
               PROVE  LET s == targets[f][1] IN
                      /\ Apart(held[f]) /\ Once(drained[f])
                      /\ Balanced(claimed[s][f], round[s], Given(drained[f]), Kept(held[f]),
                                  Undrained(active[f]), elsewhere[f], Advanced(f))
    BY DEF BooksInv
  <2>1. claimed[targets[f][1]][f] = {}
    BY <1>8, <1>11
  <2>2. \A r : Balanced({}, r, {}, {}, {}, {}, {})
    BY DEF Balanced
  <2> QED BY <1>9, <1>10, <2>1, <2>2
<1> QED BY <1>7, <1>12

\* No step changes a fiber's sources or the types of what it read.
LEMMA NextTargets ==
    ASSUME LeaseTypes, TargetTypes, [Next]_vars PROVE TargetTypes' /\ targets' = targets
<1>1. CASE UNCHANGED vars
  BY <1>1 DEF vars, cursorVars, executorVars, TargetTypes
<1>2. CASE UNCHANGED <<cursorVars, executorVars>>
  BY <1>2 DEF cursorVars, executorVars, TargetTypes
<1>3. ASSUME NEW f \in Readers, NEW s \in Sources, AdvanceTarget(f, s), UNCHANGED executorVars
      PROVE  TargetTypes' /\ targets' = targets
  <2>1. targets' = targets /\ elsewhere' = elsewhere
    BY <1>3 DEF AdvanceTarget, executorVars
  <2>2. at[f] \in DOMAIN targets[f] /\ Len(targets[f]) \in Nat
        /\ DOMAIN targets[f] = 1 .. Len(targets[f])
    BY <1>3 DEF AdvanceTarget, TargetTypes
  <2>3. CASE Ordinals(s, 1) = {}
    <3>1. at' = [at EXCEPT ![f] = 1] /\ UNCHANGED <<last_items, rows>>
      BY <1>3, <2>3 DEF AdvanceTarget
    <3>2. 1 \in DOMAIN targets[f]
      BY <2>2
    <3>3. at' \in [Readers -> Nat]
          /\ \A g \in Readers : at'[g] \in DOMAIN targets[g] \/ targets[g] = <<>>
      BY <3>1, <3>2 DEF TargetTypes
    <3> QED BY <2>1, <3>1, <3>3 DEF TargetTypes
  <2>4. CASE Ordinals(s, 1) # {}
    <3>1. PICK o \in Ordinals(s, 1), items \in [DOMAIN targets[f] -> Nat \cup {None}] :
             /\ o \in Nat
             /\ last_items' = [last_items EXCEPT ![f] = items]
             /\ at' = [at EXCEPT ![f] = IF at[f] = Len(targets[f]) THEN 1 ELSE at[f] + 1]
             /\ rows' = IF at[f] = Len(targets[f]) THEN rows \cup {<<f, items, round[s]>>}
                        ELSE rows
      BY <1>3, <2>4, AdvanceItems
    <3>2. (IF at[f] = Len(targets[f]) THEN 1 ELSE at[f] + 1) \in DOMAIN targets[f]
      BY <2>2
    <3>3. at' \in [Readers -> Nat]
          /\ \A g \in Readers : at'[g] \in DOMAIN targets[g] \/ targets[g] = <<>>
      BY <2>2, <3>1, <3>2 DEF TargetTypes
    <3>4. DOMAIN last_items' = Readers
          /\ \A g \in Readers : last_items'[g] \in [DOMAIN targets[g] -> Nat \cup {None}]
      BY <3>1 DEF TargetTypes
    <3>5. <<f, items, round[s]>> \in Readers \X Seq(Nat \cup {None}) \X Nat
      <4>1. items \in [1 .. Len(targets[f]) -> Nat \cup {None}]
        BY <2>2
      <4>2. items \in Seq(Nat \cup {None})
        BY <4>1, <2>2
      <4> QED BY <4>2 DEF LeaseTypes
    <3>6. rows' \subseteq Readers \X Seq(Nat \cup {None}) \X Nat
      BY <3>1, <3>5 DEF TargetTypes
    <3> QED BY <2>1, <3>3, <3>4, <3>6 DEF TargetTypes
  <2> QED BY <2>3, <2>4
<1>4. ASSUME NEW f \in Readers, NewCursors(f), UNCHANGED executorVars
      PROVE  TargetTypes' /\ targets' = targets
  <2>1. UNCHANGED <<targets, at, rows, elsewhere>>
        /\ last_items' = [last_items EXCEPT ![f] = NoItems(f)]
    BY <1>4 DEF NewCursors, executorVars
  <2>2. NoItems(f) \in [DOMAIN targets[f] -> Nat \cup {None}]
    BY DEF NoItems
  <2> QED BY ZenonT(40), <2>1, <2>2 DEF TargetTypes
<1>5. ASSUME UNCHANGED <<targets, at, last_items, rows, elsewhere>>
      PROVE  TargetTypes' /\ targets' = targets
  BY <1>5 DEF TargetTypes
<1>6. ASSUME NEW f \in Readers, ProcessElsewhere(f)
      PROVE  TargetTypes' /\ targets' = targets
  <2>1. PICK i \in DOMAIN held[f] :
          /\ elsewhere' = [elsewhere EXCEPT ![f] =
                             @ \cup {<<o, held[f][i].round>> : o \in held[f][i].range}]
          /\ UNCHANGED <<targets, at, last_items, rows>>
    BY <1>6 DEF ProcessElsewhere
  <2>2. held[f][i] \in WholeLeases
    BY DEF LeaseTypes
  <2>3. {<<o, held[f][i].round>> : o \in held[f][i].range} \subseteq Nat \X Nat
    BY <2>2 DEF WholeLeases, Leases
  <2>4. elsewhere' \in [Readers -> SUBSET (Nat \X Nat)]
    BY <2>1, <2>3 DEF TargetTypes
  <2> QED BY <2>1, <2>4 DEF TargetTypes
<1>7. ASSUME NEW f \in Readers, CursorStep(f), UNCHANGED executorVars
      PROVE  TargetTypes' /\ targets' = targets
  <2>1. CASE \E s \in Sources, demand \in Demands : ReserveOrdinalBatch(f, s, demand)
    BY <1>5, <1>7, <2>1 DEF ReserveOrdinalBatch, executorVars
  <2> QED BY <1>3, <1>4, <1>7, <2>1 DEF CursorStep
<1>8. ASSUME NEW f \in Executors, ExecutorStep(f)
      PROVE  TargetTypes' /\ targets' = targets
  <2>1. f \in Readers
    BY ExecutorsAssumption
  <2>2. CASE ProcessElsewhere(f)
    BY <1>6, <2>1, <2>2
  <2>3. CASE UNCHANGED <<targets, at, last_items, rows, elsewhere>>
    BY <1>5, <2>3
  <2> QED BY <1>8, <2>2, <2>3
          DEF ExecutorStep, BeginLease, ForceScalarRecovery, SetBroadcast, DrainInto, cursorVars
<1> QED BY <1>1, <1>2, <1>7, <1>8 DEF Next

\* What is left of a sequence after one element is taken out.
LEMMA RemoveAtElements ==
    ASSUME NEW S, NEW d \in Seq(S), NEW i \in DOMAIN d
    PROVE  /\ DOMAIN RemoveAt(d, i) = 1 .. (Len(d) - 1)
           /\ \A j \in 1 .. (Len(d) - 1) : RemoveAt(d, i)[j] = d[IF j < i THEN j ELSE j + 1]
<1> DEFINE n == Len(d)
           a == SubSeq(d, 1, i - 1)
           b == SubSeq(d, i + 1, n)
<1>1. n \in Nat /\ i \in 1 .. n
  OBVIOUS
<1>2. /\ a \in Seq(S) /\ Len(a) = i - 1 /\ \A j \in 1 .. (i - 1) : a[j] = d[j]
  BY <1>1, SubSeqProperties
<1>3. /\ b \in Seq(S) /\ Len(b) = n - i /\ \A j \in 1 .. (n - i) : b[j] = d[i + j]
  <2>1. i < n => i + 1 \in 1 .. n /\ n \in 1 .. n
    BY <1>1
  <2>2. /\ b \in Seq(S) /\ Len(b) = IF i + 1 <= n THEN n - (i + 1) + 1 ELSE 0
        /\ \A j \in 1 .. (n - (i + 1) + 1) : b[j] = d[(i + 1) + j - 1]
    BY <1>1, SubSeqProperties
  <2>3. n - (i + 1) + 1 = n - i /\ (IF i + 1 <= n THEN n - (i + 1) + 1 ELSE 0) = n - i
    BY <1>1
  <2>4. \A j \in 1 .. (n - i) : (i + 1) + j - 1 = i + j
    BY <1>1
  <2> HIDE DEF b, n
  <2> QED BY <2>2, <2>3, <2>4
<1> HIDE DEF a, b, n
<1>4. /\ a \o b \in Seq(S) /\ Len(a \o b) = n - 1
      /\ \A j \in 1 .. (n - 1) : (a \o b)[j] = IF j <= i - 1 THEN a[j] ELSE b[j - (i - 1)]
  <2>1. /\ a \o b \in Seq(S) /\ Len(a \o b) = Len(a) + Len(b)
        /\ \A j \in 1 .. (Len(a) + Len(b)) :
             (a \o b)[j] = IF j <= Len(a) THEN a[j] ELSE b[j - Len(a)]
    BY <1>2, <1>3, ConcatProperties
  <2>2. Len(a) + Len(b) = n - 1
    BY <1>1, <1>2, <1>3
  <2>3. Len(a) = i - 1
    BY <1>2
  <2> QED BY <2>1, <2>2, <2>3
<1>5. DOMAIN (a \o b) = 1 .. (n - 1)
  BY <1>4
<1>6. ASSUME NEW j \in 1 .. (n - 1) PROVE (a \o b)[j] = d[IF j < i THEN j ELSE j + 1]
  <2>1. CASE j < i
    <3>1. j \in 1 .. (i - 1) /\ j <= i - 1
      BY <1>1, <2>1
    <3> QED BY <1>2, <1>4, <2>1, <3>1
  <2>2. CASE ~(j < i)
    <3>1. j - (i - 1) \in 1 .. (n - i) /\ i + (j - (i - 1)) = j + 1 /\ ~(j <= i - 1)
      BY <1>1, <2>2
    <3> QED BY <1>3, <1>4, <2>2, <3>1
  <2> QED BY <2>1, <2>2
<1> QED BY <1>5, <1>6 DEF RemoveAt, a, b, n

\* A lease leaves those held (`begin_lease`, or a refused one).
LEMMA KeptRemoved ==
    ASSUME NEW h \in Seq(WholeLeases), NEW i \in DOMAIN h, Apart(h)
    PROVE  /\ Apart(RemoveAt(h, i)) /\ Pairs(h[i]) \subseteq Kept(h)
           /\ Kept(RemoveAt(h, i)) = Kept(h) \ Pairs(h[i])
<1> DEFINE g == RemoveAt(h, i)
           to(j) == IF j < i THEN j ELSE j + 1
<1>1. Len(h) \in Nat /\ i \in 1 .. Len(h) /\ DOMAIN h = 1 .. Len(h)
  OBVIOUS
<1>2. DOMAIN g = 1 .. (Len(h) - 1) /\ \A j \in 1 .. (Len(h) - 1) : g[j] = h[to(j)]
  BY RemoveAtElements
<1> HIDE DEF g
<1>3. /\ \A j \in DOMAIN g : to(j) \in DOMAIN h /\ to(j) # i
      /\ \A j, k \in DOMAIN g : to(j) = to(k) => j = k
  BY <1>1, <1>2
<1>4. ASSUME NEW k \in DOMAIN h, k # i PROVE \E j \in DOMAIN g : to(j) = k
  <2>1. CASE k < i
    <3>1. k \in DOMAIN g /\ to(k) = k
      BY <1>1, <1>2, <2>1
    <3> QED BY <3>1
  <2>2. CASE ~(k < i)
    <3>1. k - 1 \in DOMAIN g /\ to(k - 1) = k
      BY <1>1, <1>2, <1>4, <2>2
    <3> QED BY <3>1
  <2> QED BY <2>1, <2>2
<1> HIDE DEF to
<1>5. \A j \in DOMAIN g : g[j] = h[to(j)]
  BY <1>2
<1>6. Apart(g)
  BY <1>3, <1>5 DEF Apart
<1>7. Pairs(h[i]) \subseteq Kept(h)
  BY DEF Kept
<1>8. Kept(g) \subseteq Kept(h) \ Pairs(h[i])
  BY <1>3, <1>5 DEF Kept, Apart
<1>9. Kept(h) \ Pairs(h[i]) \subseteq Kept(g)
  <2> SUFFICES ASSUME NEW k \in DOMAIN h, NEW x \in Pairs(h[k]), x \notin Pairs(h[i])
               PROVE  x \in Kept(g)
    BY DEF Kept
  <2>1. k # i
    OBVIOUS
  <2>2. PICK j \in DOMAIN g : to(j) = k
    BY <1>4, <2>1
  <2> QED BY <1>5, <2>2 DEF Kept
<1> QED BY <1>6, <1>7, <1>8, <1>9 DEF g

\* A lease joins those held (`reserve_ordinal_batch`).
LEMMA KeptAppended ==
    ASSUME NEW h \in Seq(WholeLeases), NEW l \in WholeLeases, Apart(h),
           Pairs(l) \cap Kept(h) = {}
    PROVE  /\ Apart(Append(h, l))
           /\ Kept(Append(h, l)) = Kept(h) \cup Pairs(l)
<1> DEFINE g == Append(h, l)
<1>1. /\ Len(h) \in Nat /\ DOMAIN h = 1 .. Len(h) /\ DOMAIN g = 1 .. (Len(h) + 1)
      /\ g[Len(h) + 1] = l /\ \A i \in 1 .. Len(h) : g[i] = h[i]
  OBVIOUS
<1> HIDE DEF g
<1>2. Len(h) + 1 \in DOMAIN g /\ DOMAIN h \subseteq DOMAIN g
      /\ \A i \in DOMAIN g : i \in DOMAIN h \/ i = Len(h) + 1
  BY <1>1
<1>3. \A i \in DOMAIN h : Pairs(h[i]) \subseteq Kept(h)
  BY DEF Kept
<1>4. ASSUME NEW i \in DOMAIN g, NEW j \in DOMAIN g, i # j
      PROVE  Pairs(g[i]) \cap Pairs(g[j]) = {}
  <2>1. CASE i \in DOMAIN h /\ j \in DOMAIN h
    BY <1>1, <1>4, <2>1 DEF Apart
  <2>2. CASE i \in DOMAIN h /\ j = Len(h) + 1
    <3>1. g[i] = h[i] /\ g[j] = l
      BY <1>1, <2>2
    <3> QED BY <1>3, <2>2, <3>1
  <2>3. CASE j \in DOMAIN h /\ i = Len(h) + 1
    <3>1. g[j] = h[j] /\ g[i] = l
      BY <1>1, <2>3
    <3> QED BY <1>3, <2>3, <3>1
  <2> QED BY <1>2, <1>4, <2>1, <2>2, <2>3
<1>5. Apart(g)
  BY <1>4 DEF Apart
<1>6. Kept(g) \subseteq Kept(h) \cup Pairs(l)
  <2> SUFFICES ASSUME NEW i \in DOMAIN g PROVE Pairs(g[i]) \subseteq Kept(h) \cup Pairs(l)
    BY DEF Kept
  <2> QED BY <1>1, <1>2, <1>3
<1>7. Kept(h) \cup Pairs(l) \subseteq Kept(g)
  <2>1. \A i \in DOMAIN g : Pairs(g[i]) \subseteq Kept(g)
    BY DEF Kept
  <2>2. Pairs(l) \subseteq Kept(g)
    BY <1>1, <1>2, <2>1
  <2>3. \A i \in DOMAIN h : Pairs(h[i]) \subseteq Kept(g)
    BY <1>1, <1>2, <2>1
  <2>4. Kept(h) \subseteq Kept(g)
    BY <2>3 DEF Kept
  <2> QED BY <2>2, <2>4
<1> QED BY <1>5, <1>6, <1>7 DEF g

\* Ordinals that pass from one account to another leave the books balanced.
LEMMA Moved ==
    ASSUME NEW C, NEW r, NEW D, NEW K, NEW T, NEW E, NEW A,
           NEW D2, NEW K2, NEW T2, NEW E2, NEW A2,
           Balanced(C, r, D, K, T, E, A),
           D2 \cup K2 \cup T2 \cup E2 \cup A2 = D \cup K \cup T \cup E \cup A,
           D2 \cap (K2 \cup T2 \cup E2 \cup A2) = {},
           (K2 \cup T2 \cup E2) \cap A2 = {}, (K2 \cup T2) \cap E2 = {}, K2 \cap T2 = {}
    PROVE  Balanced(C, r, D2, K2, T2, E2, A2)
BY DEF Balanced

\* A new round claims nothing yet (`rewind_for_poll`).
LEMMA Rewound ==
    ASSUME NEW C, NEW r \in Nat, NEW D, NEW K, NEW T, NEW E, NEW A,
           Balanced(C, r, D, K, T, E, A)
    PROVE  Balanced({}, r + 1, D, K, T, E, A)
<1>1. ASSUME NEW x \in D \cup K \cup T \cup E \cup A
      PROVE  x \in Nat \X Nat /\ x[2] <= r + 1 /\ x[2] # r + 1
  <2>1. x \in Nat \X Nat /\ x[2] <= r
    BY DEF Balanced
  <2>2. x[2] \in Nat
    BY <2>1
  <2> QED BY <2>1, <2>2
<1> QED BY <1>1 DEF Balanced

\* Ordinals claimed anew are in no account.
LEMMA ClaimedAnew ==
    ASSUME NEW C, NEW r, NEW D, NEW K, NEW T, NEW E, NEW A,
           Balanced(C, r, D, K, T, E, A), NEW G, G \cap C = {}
    PROVE  {<<o, r>> : o \in G} \cap (D \cup K \cup T \cup E \cup A) = {}
<1> SUFFICES ASSUME NEW o \in G, <<o, r>> \in D \cup K \cup T \cup E \cup A PROVE FALSE
  OBVIOUS
<1>1. <<o, r>>[2] = r => <<o, r>>[1] \in C
  BY DEF Balanced
<1> QED BY <1>1

\* Ordinals just claimed and put in a lease keep the books balanced.
LEMMA ClaimedToLease ==
    ASSUME NEW C, NEW r \in Nat, NEW D, NEW K, NEW T, NEW E, NEW A,
           Balanced(C, r, D, K, T, E, A), NEW G \in SUBSET Nat, G \cap C = {}
    PROVE  Balanced(C \cup G, r, D, K \cup {<<o, r>> : o \in G}, T, E, A)
<1> DEFINE new == {<<o, r>> : o \in G}
<1>1. new \cap (D \cup K \cup T \cup E \cup A) = {}
  BY ClaimedAnew
<1>2. ASSUME NEW x \in new PROVE x \in Nat \X Nat /\ x[2] <= r /\ x[1] \in C \cup G
  OBVIOUS
<1>3. \A o \in G : <<o, r>> \in new
  OBVIOUS
<1> HIDE DEF new
<1>4. Balanced(C \cup G, r, D, K \cup new, T, E, A)
  BY <1>1, <1>2, <1>3 DEF Balanced
<1> QED BY <1>4 DEF new

\* An ordinal just claimed and put in a row keeps the books balanced.
LEMMA ClaimedToRow ==
    ASSUME NEW C, NEW r \in Nat, NEW D, NEW K, NEW T, NEW E, NEW A,
           Balanced(C, r, D, K, T, E, A), NEW G \in SUBSET Nat, G \cap C = {}
    PROVE  Balanced(C \cup G, r, D, K, T, E, A \cup {<<o, r>> : o \in G})
<1> DEFINE new == {<<o, r>> : o \in G}
<1>1. new \cap (D \cup K \cup T \cup E \cup A) = {}
  BY ClaimedAnew
<1>2. ASSUME NEW x \in new PROVE x \in Nat \X Nat /\ x[2] <= r /\ x[1] \in C \cup G
  OBVIOUS
<1>3. \A o \in G : <<o, r>> \in new
  OBVIOUS
<1> HIDE DEF new
<1>4. Balanced(C \cup G, r, D, K, T, E, A \cup new)
  BY <1>1, <1>2, <1>3 DEF Balanced
<1> QED BY <1>4 DEF new

\* The books of one fiber.
BookOf(f) ==
    Len(targets[f]) = 1 =>
      LET s == targets[f][1] IN
      /\ Apart(held[f]) /\ Once(drained[f])
      /\ Balanced(claimed[s][f], round[s], Given(drained[f]), Kept(held[f]),
                  Undrained(active[f]), elsewhere[f], Advanced(f))

\* A reservation hands out what nobody has (`reserve`).
LEMMA GotIsFresh ==
    ASSUME IInv, LeaseTypes, Wraps = FALSE, NEW s \in Sources, NEW r \in Readers,
           NEW stride \in Nat \ {0}, Reserve(s, r, stride)
    PROVE  /\ Ordinals(s, stride) \in SUBSET Nat
           /\ Ordinals(s, stride) \cap claimed[s][r] = {}
           /\ claimed'[s][r] = claimed[s][r] \cup Ordinals(s, stride)
           /\ \A q \in Readers : q # r => claimed'[s][q] = claimed[s][q]
           /\ \A t \in Sources : t # s => claimed'[t] = claimed[t]
           /\ round' = round
           /\ stride = 1 /\ Ordinals(s, stride) # {} => Ordinals(s, stride) = {cursor[s]}
<1>1. /\ claimed'[s] = [claimed[s] EXCEPT ![r] = @ \cup Ordinals(s, stride)]
      /\ \A t \in Sources \ {s} : claimed'[t] = claimed[t]
      /\ round' = round
  BY ZenonT(40), ReserveStep
<1>2. claimed[s] \in [Readers -> SUBSET Nat]
  BY DEF IInv, ClaimedInv
<1>3. Ordinals(s, stride) \in SUBSET Nat
  BY ReservedInterval
<1>4. Ordinals(s, stride) =
        IF cursor[s] < End[s]
        THEN cursor[s] .. ((IF cursor[s] + stride < End[s] THEN cursor[s] + stride
                            ELSE End[s]) - 1)
        ELSE {}
  BY OrdinalsHanded DEF Reserve
<1>5. cursor[s] \in Nat /\ Start[s] \in Nat /\ End[s] \in Nat
  BY Bounds DEF IInv, CursorInv
<1>6. Ordinals(s, stride) \cap Handed(s) = {}
  BY <1>4, <1>5 DEF IInv, ClaimedInv, Frontier
<1>7. claimed[s][r] \subseteq Handed(s)
  BY DEF Handed
<1>8. ASSUME stride = 1, Ordinals(s, stride) # {} PROVE Ordinals(s, stride) = {cursor[s]}
  <2>1. cursor[s] < End[s]
    BY <1>4, <1>8
  <2>2. (IF cursor[s] + 1 < End[s] THEN cursor[s] + 1 ELSE End[s]) - 1 = cursor[s]
    BY <1>5, <2>1
  <2>3. Ordinals(s, stride) = cursor[s] .. cursor[s]
    BY <1>4, <1>8, <2>1, <2>2
  <2> QED BY <1>5, <2>3
<1> QED BY <1>1, <1>2, <1>3, <1>6, <1>7, <1>8

\* A fiber whose accounts a step leaves alone.
LEMMA BookKept ==
    ASSUME BooksInv, TargetTypes, NEW f \in Readers, targets' = targets,
           \A t \in Sources : claimed'[t][f] = claimed[t][f] /\ round'[t] = round[t],
           held'[f] = held[f], drained'[f] = drained[f], active'[f] = active[f],
           elsewhere'[f] = elsewhere[f], Advanced(f)' = Advanced(f)
    PROVE  BookOf(f)'
<1> SUFFICES ASSUME Len(targets[f]) = 1 PROVE BookOf(f)'
  BY DEF BookOf
<1>1. targets[f][1] \in Sources
  BY OneTarget
<1>2. BookOf(f)
  BY DEF BooksInv, BookOf
<1> QED BY <1>1, <1>2 DEF BookOf

\* A rewind closes the books of the round (`rewind_for_poll`).
LEMMA RewindBooks ==
    ASSUME IInv, LeaseTypes, TargetTypes, BooksInv, NEW s \in Sources, RewindForPoll(s),
           UNCHANGED <<cursorVars, executorVars>>
    PROVE  BooksInv'
<1>1. /\ claimed'[s] = [r \in Readers |-> {}] /\ round'[s] = round[s] + 1
      /\ \A t \in Sources \ {s} : claimed'[t] = claimed[t] /\ round'[t] = round[t]
  BY RewindStep
<1>2. ASSUME NEW f \in Readers PROVE BookOf(f)'
  <2> SUFFICES ASSUME Len(targets[f]) = 1 PROVE BookOf(f)'
    BY DEF BookOf, cursorVars
  <2>1. targets[f][1] \in Sources /\ round[s] \in Nat
    BY OneTarget DEF LeaseTypes
  <2>2. BookOf(f)
    BY DEF BooksInv, BookOf
  <2>3. /\ targets' = targets /\ held' = held /\ drained' = drained /\ active' = active
        /\ elsewhere' = elsewhere /\ Advanced(f)' = Advanced(f)
    BY DEF cursorVars, executorVars, Advanced
  <2>4. CASE targets[f][1] = s
    <3>1. Balanced({}, round[s] + 1, Given(drained[f]), Kept(held[f]),
                   Undrained(active[f]), elsewhere[f], Advanced(f))
      BY <2>1, <2>2, <2>4, Rewound DEF BookOf
    <3>2. claimed'[s][f] = {}
      BY <1>1
    <3> QED BY <1>1, <2>2, <2>3, <2>4, <3>1, <3>2 DEF BookOf
  <2>5. CASE targets[f][1] # s
    BY <1>1, <2>1, <2>2, <2>3, <2>5 DEF BookOf
  <2> QED BY <2>4, <2>5
<1> QED BY <1>2 DEF BooksInv, BookOf

\* A row a fiber completed.
LEMMA AdvancedRow ==
    ASSUME NEW f, NEW items, NEW n, rows' = rows \cup {<<f, items, n>>}
    PROVE  Advanced(f)' = Advanced(f) \cup {<<items[1], n>>}
<1> DEFINE mine == {row \in rows : row[1] = f}
           new == <<f, items, n>>
<1>1. {row \in rows' : row[1] = f} = mine \cup {new}
  OBVIOUS
<1>2. Advanced(f)' = {<<row[2][1], row[3]>> : row \in mine \cup {new}}
  BY <1>1 DEF Advanced
<1>3. new[2][1] = items[1] /\ new[3] = n
  OBVIOUS
<1>4. Advanced(f) = {<<row[2][1], row[3]>> : row \in mine}
  BY DEF Advanced
<1> HIDE DEF mine, new
<1> QED BY <1>2, <1>3, <1>4

\* A step of `advance` keeps the books.
LEMMA AdvanceBooks ==
    ASSUME Wraps = FALSE, IInv, LeaseTypes, TargetTypes, BooksInv, NEW g \in Readers,
           NEW s \in Sources, AdvanceTarget(g, s), UNCHANGED executorVars
    PROVE  BooksInv'
<1>1. Reserve(s, g, 1) /\ UNCHANGED <<targets, held>>
  BY DEF AdvanceTarget
<1>2. /\ UNCHANGED <<drained, active, elsewhere>>
  BY DEF executorVars
<1>3. /\ Ordinals(s, 1) \in SUBSET Nat
      /\ Ordinals(s, 1) \cap claimed[s][g] = {}
      /\ claimed'[s][g] = claimed[s][g] \cup Ordinals(s, 1)
      /\ \A q \in Readers : q # g => claimed'[s][q] = claimed[s][q]
      /\ \A t \in Sources : t # s => claimed'[t] = claimed[t]
      /\ round' = round
      /\ Ordinals(s, 1) # {} => Ordinals(s, 1) = {cursor[s]}
  <2> DEFINE stride == 1
  <2>1. stride \in Nat \ {0} /\ Reserve(s, g, stride)
    BY <1>1
  <2> HIDE DEF stride
  <2>2. /\ Ordinals(s, stride) \in SUBSET Nat
        /\ Ordinals(s, stride) \cap claimed[s][g] = {}
        /\ claimed'[s][g] = claimed[s][g] \cup Ordinals(s, stride)
        /\ \A q \in Readers : q # g => claimed'[s][q] = claimed[s][q]
        /\ \A t \in Sources : t # s => claimed'[t] = claimed[t]
        /\ round' = round
    BY <2>1, GotIsFresh
  <2>3. stride = 1 /\ Ordinals(s, stride) # {} => Ordinals(s, stride) = {cursor[s]}
    BY <2>1, GotIsFresh
  <2> QED BY <2>2, <2>3 DEF stride
<1>4. ASSUME NEW f \in Readers, f # g PROVE BookOf(f)'
  <2>1. Advanced(f)' = Advanced(f)
    <3>1. CASE rows' = rows
      BY <3>1 DEF Advanced
    <3>2. ASSUME NEW items, rows' = rows \cup {<<g, items, round[s]>>}
          PROVE  Advanced(f)' = Advanced(f)
      BY <1>4, <3>2 DEF Advanced
    <3> QED BY <3>1, <3>2 DEF AdvanceTarget
  <2>2. \A t \in Sources : claimed'[t][f] = claimed[t][f] /\ round'[t] = round[t]
    BY <1>3, <1>4
  <2> QED BY <1>1, <1>2, <2>1, <2>2, BookKept
<1>5. BookOf(g)'
  <2> SUFFICES ASSUME Len(targets[g]) = 1 PROVE BookOf(g)'
    BY <1>1 DEF BookOf
  <2>1. BookOf(g)
    BY DEF BooksInv, BookOf
  <2>2. targets[g][1] = s /\ at[g] = 1 /\ DOMAIN targets[g] = {1} /\ round[s] \in Nat
    BY OneTarget DEF AdvanceTarget, LeaseTypes
  <2>3. Balanced(claimed'[s][g], round[s], Given(drained[g]), Kept(held[g]),
                 Undrained(active[g]), elsewhere[g],
                 Advanced(g) \cup {<<o, round[s]>> : o \in Ordinals(s, 1)})
    BY <1>3, <2>1, <2>2, ClaimedToRow DEF BookOf
  <2>4. Advanced(g)' = Advanced(g) \cup {<<o, round[s]>> : o \in Ordinals(s, 1)}
    <3>1. CASE Ordinals(s, 1) = {}
      <4>1. rows' = rows
        BY <3>1 DEF AdvanceTarget
      <4> QED BY <3>1, <4>1 DEF Advanced
    <3>2. CASE Ordinals(s, 1) # {}
      <4>1. PICK o \in Ordinals(s, 1), items \in [DOMAIN targets[g] -> Nat \cup {None}] :
              /\ o \in Nat /\ items = [last_items[g] EXCEPT ![at[g]] = o]
              /\ items[at[g]] = o
              /\ last_items' = [last_items EXCEPT ![g] = items]
              /\ at' = [at EXCEPT ![g] = IF at[g] = Len(targets[g]) THEN 1 ELSE at[g] + 1]
              /\ rows' = IF at[g] = Len(targets[g]) THEN rows \cup {<<g, items, round[s]>>}
                         ELSE rows
        BY <3>2, AdvanceItems
      <4>2. rows' = rows \cup {<<g, items, round[s]>>} /\ items[1] = o
        BY <2>2, <4>1
      <4>3. Ordinals(s, 1) = {o}
        BY <1>3, <3>2
      <4>4. Advanced(g)' = Advanced(g) \cup {<<items[1], round[s]>>}
        <5>1. rows' = rows \cup {<<g, items, round[s]>>}
          BY <4>2
        <5> QED BY <5>1, AdvancedRow
      <4> QED BY <4>2, <4>3, <4>4
    <3> QED BY <3>1, <3>2
  <2> QED BY <1>1, <1>2, <1>3, <2>1, <2>2, <2>3, <2>4 DEF BookOf
<1> QED BY <1>4, <1>5 DEF BooksInv, BookOf

\* A lease is entered in the books (`reserve_ordinal_batch`).
LEMMA ReserveBooks ==
    ASSUME Wraps = FALSE, IInv, LeaseTypes, TargetTypes, BooksInv, NEW g \in Readers,
           NEW s \in Sources, NEW demand \in Demands, ReserveOrdinalBatch(g, s, demand),
           UNCHANGED executorVars
    PROVE  BooksInv'
<1> DEFINE got == Ordinals(s, demand)
           lease == [source |-> s, sequence |-> next_sequence[g], range |-> got,
                     round |-> round[s]]
<1>0. demand \in Nat \ {0}
  BY DemandsAssumption
<1>1. Reserve(s, g, demand) /\ UNCHANGED <<targets, rows>> /\ targets[g] = <<s>>
  BY DEF ReserveOrdinalBatch
<1>2. /\ UNCHANGED <<drained, active, elsewhere>>
      /\ \A f \in Readers : Advanced(f)' = Advanced(f)
  BY <1>1 DEF executorVars, Advanced
<1>3. /\ got \in SUBSET Nat
      /\ got \cap claimed[s][g] = {}
      /\ claimed'[s][g] = claimed[s][g] \cup got
      /\ \A q \in Readers : q # g => claimed'[s][q] = claimed[s][q]
      /\ \A t \in Sources : t # s => claimed'[t] = claimed[t]
      /\ round' = round
  BY <1>0, <1>1, GotIsFresh
<1>4. /\ got = {} => held' = held
      /\ got # {} => held' = [held EXCEPT ![g] = Append(@, lease)]
  BY DEF ReserveOrdinalBatch
<1>5. got # {} => lease \in WholeLeases
  <2> SUFFICES ASSUME got # {} PROVE lease \in WholeLeases
    OBVIOUS
  <2>1. lease \in Leases
    BY <1>3 DEF Leases, LeaseTypes
  <2> QED BY <1>0, <2>1, ReservedInterval DEF WholeLeases
<1>6. Pairs(lease) = {<<o, round[s]>> : o \in got}
  BY DEF Pairs
<1> HIDE DEF got, lease
<1>7. ASSUME NEW f \in Readers, f # g PROVE BookOf(f)'
  <2>1. \A t \in Sources : claimed'[t][f] = claimed[t][f] /\ round'[t] = round[t]
    BY <1>3, <1>7
  <2>2. held'[f] = held[f]
    BY <1>4, <1>7 DEF LeaseTypes
  <2> QED BY <1>1, <1>2, <2>1, <2>2, BookKept
<1>8. BookOf(g)'
  <2>1. Len(targets[g]) = 1 /\ targets[g][1] = s
    BY <1>1
  <2>2. /\ Apart(held[g]) /\ Once(drained[g])
        /\ Balanced(claimed[s][g], round[s], Given(drained[g]), Kept(held[g]),
                    Undrained(active[g]), elsewhere[g], Advanced(g))
    BY <2>1 DEF BooksInv
  <2>3. round[s] \in Nat
    BY DEF LeaseTypes
  <2>4. Balanced(claimed'[s][g], round[s], Given(drained[g]), Kept(held[g]) \cup Pairs(lease),
                 Undrained(active[g]), elsewhere[g], Advanced(g))
    BY <1>3, <1>6, <2>2, <2>3, ClaimedToLease
  <2>5. CASE got = {}
    <3>1. Kept(held[g]) \cup Pairs(lease) = Kept(held[g])
      BY <1>6, <2>5
    <3> QED BY <1>1, <1>2, <1>3, <1>4, <2>1, <2>2, <2>4, <2>5, <3>1 DEF BookOf
  <2>6. CASE got # {}
    <3>1. held'[g] = Append(held[g], lease) /\ held[g] \in Seq(WholeLeases)
      BY <1>4, <2>6 DEF LeaseTypes
    <3>2. Pairs(lease) \cap (Given(drained[g]) \cup Kept(held[g]) \cup Undrained(active[g])
                               \cup elsewhere[g] \cup Advanced(g)) = {}
      BY <1>3, <1>6, <2>2, ClaimedAnew
    <3>3. Apart(held'[g]) /\ Kept(held'[g]) = Kept(held[g]) \cup Pairs(lease)
      BY <1>5, <2>2, <2>6, <3>1, <3>2, KeptAppended
    <3> QED BY <1>1, <1>2, <1>3, <2>1, <2>2, <2>4, <3>3 DEF BookOf
  <2> QED BY <2>5, <2>6
<1> QED BY <1>7, <1>8 DEF BooksInv, BookOf

\* Steps of an executor touch no source and complete no row.
LEMMA ExecutorLeaves ==
    ASSUME NEW f, ExecutorStep(f)
    PROVE  UNCHANGED <<rangeVars, targets, rows>>
BY DEF ExecutorStep, BeginLease, ProcessElsewhere, ForceScalarRecovery, SetBroadcast,
       DrainInto, cursorVars

\* What it leaves of the other fibers.
LEMMA OtherBooks ==
    ASSUME TargetTypes, BooksInv, NEW f \in Readers, NEW g \in Readers,
           UNCHANGED <<rangeVars, targets, rows>>,
           held'[g] = held[g], drained'[g] = drained[g], active'[g] = active[g],
           elsewhere'[g] = elsewhere[g]
    PROVE  BookOf(g)'
<1>1. Advanced(g)' = Advanced(g)
  BY DEF Advanced
<1>2. \A t \in Sources : claimed'[t][g] = claimed[t][g] /\ round'[t] = round[t]
  BY DEF rangeVars
<1> QED BY <1>1, <1>2, BookKept

\* An accepted lease moves from those held to the open one (`begin_lease`).
LEMMA BeginBooks ==
    ASSUME LeaseTypes, ExecutorTypes, TargetTypes, BooksInv, NEW f \in Readers,
           NEW epoch \in Epochs, BeginLease(f, epoch), UNCHANGED <<rangeVars, targets, rows>>
    PROVE  BooksInv'
<1>1. PICK i \in DOMAIN held[f] :
        /\ ValidLease(f, held[f][i], epoch)
        /\ active' = [active EXCEPT ![f] = Open(held[f][i], epoch, broadcast[f])]
        /\ held' = [held EXCEPT ![f] = RemoveAt(@, i)]
        /\ UNCHANGED <<drained, elsewhere>>
  BY DEF BeginLease
<1> DEFINE lease == held[f][i]
           a == Open(lease, epoch, broadcast[f])
<1>2. held[f] \in Seq(WholeLeases) /\ lease \in WholeLeases
  BY DEF LeaseTypes
<1>3. ASSUME NEW g \in Readers, g # f PROVE BookOf(g)'
  <2>1. held'[g] = held[g] /\ drained'[g] = drained[g] /\ active'[g] = active[g]
        /\ elsewhere'[g] = elsewhere[g]
    BY <1>1, <1>3 DEF LeaseTypes, ExecutorTypes
  <2> QED BY <2>1, OtherBooks
<1>4. BookOf(f)'
  <2> SUFFICES ASSUME Len(targets[f]) = 1 PROVE BookOf(f)'
    BY DEF BookOf
  <2> DEFINE s == targets[f][1]
  <2>1. /\ Apart(held[f]) /\ Once(drained[f])
        /\ Balanced(claimed[s][f], round[s], Given(drained[f]), Kept(held[f]),
                    Undrained(active[f]), elsewhere[f], Advanced(f))
    BY DEF BooksInv
  <2>2. /\ active'[f] = a /\ held'[f] = RemoveAt(held[f], i)
        /\ drained'[f] = drained[f] /\ elsewhere'[f] = elsewhere[f]
    BY <1>1 DEF LeaseTypes, ExecutorTypes
  <2>3. Undrained(active[f]) = {}
    BY <1>1 DEF ValidLease, Undrained
  <2>4. /\ Apart(held'[f]) /\ Pairs(lease) \subseteq Kept(held[f])
        /\ Kept(held'[f]) = Kept(held[f]) \ Pairs(lease)
    BY <1>2, <2>1, <2>2, KeptRemoved
  <2>5. Undrained(a) = Pairs(lease)
    <3>1. /\ a.lease = lease /\ a.next = Min(lease.range)
          /\ a \in OpenLeases
      <4>1. broadcast[f] \in Broadcasts
        BY DEF ExecutorTypes
      <4> HIDE DEF lease
      <4> QED BY <1>2, <4>1, WholeEnds DEF Open, OpenLeases
    <3>2. \A o \in lease.range : o >= Min(lease.range)
      <4> HIDE DEF lease
      <4> QED BY <1>2, WholeEnds
    <3> HIDE DEF a, lease
    <3>3. a # None
      BY <3>1, OpenLeasesAreNotNone
    <3>4. {o \in a.lease.range : o >= a.next} = lease.range
      BY <3>1, <3>2
    <3> QED BY <3>1, <3>3, <3>4 DEF Undrained, Pairs
  <2>6. Advanced(f)' = Advanced(f)
    BY DEF Advanced
  <2> HIDE DEF lease, a
  <2>7. Balanced(claimed[s][f], round[s], Given(drained[f]), Kept(held[f]) \ Pairs(lease),
                 Pairs(lease), elsewhere[f], Advanced(f))
    <3> DEFINE C == claimed[s][f]
               D == Given(drained[f])
               K == Kept(held[f])
               P == Pairs(lease)
               E == elsewhere[f]
               A == Advanced(f)
    <3>1. Balanced(C, round[s], D, K, {}, E, A) /\ P \subseteq K
      BY <2>1, <2>3, <2>4
    <3> HIDE DEF C, D, K, P, E, A
    <3>2. D \cap (K \cup {} \cup E \cup A) = {} /\ (K \cup {} \cup E) \cap A = {}
          /\ (K \cup {}) \cap E = {}
      BY <3>1 DEF Balanced
    <3>3. D \cup (K \ P) \cup P \cup E \cup A = D \cup K \cup {} \cup E \cup A
      BY <3>1
    <3>4. /\ D \cap ((K \ P) \cup P \cup E \cup A) = {}
          /\ ((K \ P) \cup P \cup E) \cap A = {} /\ ((K \ P) \cup P) \cap E = {}
          /\ (K \ P) \cap P = {}
      BY <3>1, <3>2
    <3>5. Balanced(C, round[s], D, K \ P, P, E, A)
      BY <3>1, <3>3, <3>4, Moved
    <3> QED BY <3>5 DEF C, D, K, P, E, A
  <2> QED BY <2>1, <2>2, <2>4, <2>5, <2>6, <2>7 DEF BookOf, rangeVars
<1> QED BY <1>3, <1>4 DEF BooksInv, BookOf

\* A lease the host processes itself moves to `elsewhere`.
LEMMA ElsewhereBooks ==
    ASSUME LeaseTypes, TargetTypes, BooksInv, NEW f \in Readers,
           ProcessElsewhere(f), UNCHANGED <<rangeVars, targets, rows>>
    PROVE  BooksInv'
<1>1. PICK i \in DOMAIN held[f] :
        /\ elsewhere' = [elsewhere EXCEPT ![f] =
                           @ \cup {<<o, held[f][i].round>> : o \in held[f][i].range}]
        /\ held' = [held EXCEPT ![f] = RemoveAt(@, i)]
        /\ UNCHANGED <<drained, active>>
  BY DEF ProcessElsewhere
<1> DEFINE lease == held[f][i]
<1>2. held[f] \in Seq(WholeLeases)
  BY DEF LeaseTypes
<1>3. ASSUME NEW g \in Readers, g # f PROVE BookOf(g)'
  <2>1. held'[g] = held[g] /\ drained'[g] = drained[g] /\ active'[g] = active[g]
        /\ elsewhere'[g] = elsewhere[g]
    BY <1>1, <1>3 DEF LeaseTypes, TargetTypes
  <2> QED BY <2>1, OtherBooks
<1>4. BookOf(f)'
  <2> SUFFICES ASSUME Len(targets[f]) = 1 PROVE BookOf(f)'
    BY DEF BookOf
  <2> DEFINE s == targets[f][1]
  <2>1. /\ Apart(held[f]) /\ Once(drained[f])
        /\ Balanced(claimed[s][f], round[s], Given(drained[f]), Kept(held[f]),
                    Undrained(active[f]), elsewhere[f], Advanced(f))
    BY DEF BooksInv
  <2>2. /\ held'[f] = RemoveAt(held[f], i) /\ elsewhere'[f] = elsewhere[f] \cup Pairs(lease)
        /\ drained'[f] = drained[f] /\ active'[f] = active[f]
    BY <1>1 DEF LeaseTypes, TargetTypes, Pairs
  <2>3. /\ Apart(held'[f]) /\ Pairs(lease) \subseteq Kept(held[f])
        /\ Kept(held'[f]) = Kept(held[f]) \ Pairs(lease)
    BY <1>2, <2>1, <2>2, KeptRemoved
  <2>4. Advanced(f)' = Advanced(f)
    BY DEF Advanced
  <2> HIDE DEF lease
  <2>5. Balanced(claimed[s][f], round[s], Given(drained[f]), Kept(held[f]) \ Pairs(lease),
                 Undrained(active[f]), elsewhere[f] \cup Pairs(lease), Advanced(f))
    <3> DEFINE C == claimed[s][f]
               D == Given(drained[f])
               K == Kept(held[f])
               T == Undrained(active[f])
               P == Pairs(lease)
               E == elsewhere[f]
               A == Advanced(f)
    <3>1. Balanced(C, round[s], D, K, T, E, A) /\ P \subseteq K
      BY <2>1, <2>3
    <3> HIDE DEF C, D, K, T, P, E, A
    <3>2. /\ D \cap (K \cup T \cup E \cup A) = {} /\ (K \cup T \cup E) \cap A = {}
          /\ (K \cup T) \cap E = {} /\ K \cap T = {}
      BY <3>1 DEF Balanced
    <3>3. D \cup (K \ P) \cup T \cup (E \cup P) \cup A = D \cup K \cup T \cup E \cup A
      BY <3>1
    <3>4. /\ D \cap ((K \ P) \cup T \cup (E \cup P) \cup A) = {}
          /\ ((K \ P) \cup T \cup (E \cup P)) \cap A = {}
          /\ ((K \ P) \cup T) \cap (E \cup P) = {} /\ (K \ P) \cap T = {}
      BY <3>1, <3>2
    <3>5. Balanced(C, round[s], D, K \ P, T, E \cup P, A)
      BY <3>1, <3>3, <3>4, Moved
    <3> QED BY <3>5 DEF C, D, K, T, P, E, A
  <2> QED BY <2>1, <2>2, <2>3, <2>4, <2>5 DEF BookOf, rangeVars
<1> QED BY <1>3, <1>4 DEF BooksInv, BookOf

\* Recovery drops the packet and leaves the frontier (`force_scalar_recovery`).
LEMMA RecoveryBooks ==
    ASSUME ExecutorTypes, TargetTypes, BooksInv, NEW f \in Readers,
           ForceScalarRecovery(f), UNCHANGED <<rangeVars, targets, rows>>
    PROVE  BooksInv'
<1> DEFINE a == [active[f] EXCEPT !.ready = None, !.scalar_only = TRUE]
<1>1. active[f] # None /\ active' = [active EXCEPT ![f] = a]
      /\ UNCHANGED <<held, drained, elsewhere>>
  BY DEF ForceScalarRecovery, cursorVars
<1>2. active[f] \in OpenLeases
  BY <1>1 DEF ExecutorTypes
<1>3. a \in OpenLeases /\ a.lease = active[f].lease /\ a.next = active[f].next
  BY <1>2 DEF OpenLeases
<1> HIDE DEF a
<1>4. Undrained(a) = Undrained(active[f]) /\ active'[f] = a
  BY <1>1, <1>3, OpenLeasesAreNotNone DEF Undrained, ExecutorTypes
<1>5. ASSUME NEW g \in Readers, g # f PROVE BookOf(g)'
  <2>1. held'[g] = held[g] /\ drained'[g] = drained[g] /\ active'[g] = active[g]
        /\ elsewhere'[g] = elsewhere[g]
    BY <1>1, <1>5 DEF ExecutorTypes
  <2> QED BY <2>1, OtherBooks
<1>6. Advanced(f)' = Advanced(f)
  BY DEF Advanced
<1>7. BookOf(f)'
  BY <1>1, <1>4, <1>6 DEF BooksInv, BookOf, rangeVars
<1> QED BY <1>5, <1>7 DEF BooksInv, BookOf

\* What one value of a burst takes from the lease (`drain_into`).
LEMMA DrainOneTakes ==
    ASSUME ExecutorTypes, NEW f \in Readers, NEW x, NEW e,
           StreamAt(f, x.active, x.drained, e), x.active # None
    PROVE  LET a == x.active
               y == DrainOne(f, x)
           IN \E v :
                /\ y.drained = Append(x.drained, v)
                /\ v.ordinal = a.next /\ v.lease = a.lease
                /\ \/ y.active = None /\ a.next = Max(a.lease.range)
                   \/ /\ y.active # None /\ a.next # Max(a.lease.range)
                      /\ y.active.lease = a.lease /\ y.active.next = a.next + 1
<1> DEFINE a == x.active
           packet == IF a.ready # None /\ StampContains(a.ready, a.next) THEN a.ready
                     ELSE Packet(a, broadcast[f])
           next == a.next + 1
           done == next > Max(a.lease.range)
           value == [value |-> packet.lanes[a.next - packet.base], ordinal |-> a.next,
                     k |-> a.k, epoch |-> a.epoch, lease |-> a.lease]
           after == [a EXCEPT !.next = next,
                              !.ready = IF next >= packet.base + Lanes THEN None ELSE packet]
           y == DrainOne(f, x)
<1>1. /\ y.active = (IF done THEN None ELSE after)
      /\ y.drained = Append(x.drained, value)
  BY DEF DrainOne
<1> HIDE DEF y
<1>2. /\ a \in OpenLeases /\ a.lease \in WholeLeases /\ a.next \in a.lease.range
      /\ ReadyHolds(a) /\ a.k = broadcast[f]
  BY DEF StreamAt, Resumes
<1>3. /\ value.ordinal = a.next /\ value.lease = a.lease
  OBVIOUS
<1> HIDE DEF a, value
<1>4. packet \in Packets
  <2>1. broadcast[f] \in Broadcasts /\ a.ready \in Packets \cup {None}
    BY <1>2 DEF ExecutorTypes, OpenLeases
  <2>2. Packet(a, broadcast[f]) \in Packets
    BY <1>2, <2>1, PacketHolds
  <2> QED BY <2>1, <2>2
<1> HIDE DEF packet
<1>5. /\ Min(a.lease.range) \in Nat /\ Max(a.lease.range) \in Nat /\ a.next \in Nat
      /\ a.next <= Max(a.lease.range)
  BY <1>2, WholeEnds DEF OpenLeases
<1>6. CASE done
  <2>1. a.next = Max(a.lease.range)
    BY <1>5, <1>6
  <2> QED BY <1>1, <1>3, <1>6, <2>1 DEF a, y
<1>7. CASE ~done
  <2>1. a.next # Max(a.lease.range)
    BY <1>5, <1>7
  <2>2. /\ after \in OpenLeases /\ after.lease = a.lease /\ after.next = a.next + 1
    <3> DEFINE ready == IF next >= packet.base + Lanes THEN None ELSE packet
    <3>1. next \in Nat /\ ready \in Packets \cup {None}
      BY <1>4, <1>5
    <3>2. after = [a EXCEPT !.next = next, !.ready = ready]
      OBVIOUS
    <3> HIDE DEF next, ready, after
    <3>3. after \in OpenLeases /\ after.lease = a.lease /\ after.next = next
      BY <1>2, <3>1, <3>2 DEF OpenLeases
    <3> QED BY <3>3 DEF next
  <2> HIDE DEF after
  <2>3. y.active = after /\ after # None
    BY <1>1, <1>7, <2>2, OpenLeasesAreNotNone
  <2> QED BY <1>1, <1>3, <2>1, <2>2, <2>3 DEF a, y
<1> QED BY <1>6, <1>7

\* One more value drained is one more ordinal given.
LEMMA GivenAppended ==
    ASSUME NEW S, NEW d \in Seq(S), NEW v
    PROVE  /\ Given(Append(d, v)) = Given(d) \cup {<<v.ordinal, v.lease.round>>}
           /\ Once(d) /\ <<v.ordinal, v.lease.round>> \notin Given(d) => Once(Append(d, v))
<1> DEFINE e == Append(d, v)
           at_(c) == <<c.ordinal, c.lease.round>>
<1>1. /\ Len(d) \in Nat /\ DOMAIN d = 1 .. Len(d) /\ DOMAIN e = 1 .. (Len(d) + 1)
      /\ e[Len(d) + 1] = v /\ \A i \in 1 .. Len(d) : e[i] = d[i]
  OBVIOUS
<1> HIDE DEF e
<1>2. Len(d) + 1 \in DOMAIN e /\ DOMAIN d \subseteq DOMAIN e
      /\ \A i \in DOMAIN e : i \in DOMAIN d \/ i = Len(d) + 1
  BY <1>1
<1>3. /\ Given(d) = {at_(d[i]) : i \in DOMAIN d} /\ Given(e) = {at_(e[i]) : i \in DOMAIN e}
      /\ Once(d) = (\A i, j \in DOMAIN d : i # j => at_(d[i]) # at_(d[j]))
      /\ Once(e) = (\A i, j \in DOMAIN e : i # j => at_(e[i]) # at_(e[j]))
  BY DEF Given, Once
<1>4. at_(v) = <<v.ordinal, v.lease.round>>
  OBVIOUS
<1> HIDE DEF at_
<1>5. Given(e) = Given(d) \cup {at_(v)}
  BY <1>1, <1>2, <1>3
<1>6. ASSUME Once(d), at_(v) \notin Given(d) PROVE Once(e)
  BY <1>1, <1>2, <1>3, <1>6
<1> QED BY <1>4, <1>5, <1>6 DEF e

\* One value of a burst moves one ordinal from what is left to what was given.
LEMMA DrainOneMoves ==
    ASSUME ExecutorTypes, NEW f \in Readers, NEW x, NEW e,
           StreamAt(f, x.active, x.drained, e), Once(x.drained),
           Given(x.drained) \cap Undrained(x.active) = {}
    PROVE  LET y == DrainOne(f, x) IN
           /\ Given(y.drained) \cup Undrained(y.active) = Given(x.drained) \cup Undrained(x.active)
           /\ Given(y.drained) \cap Undrained(y.active) = {}
           /\ Once(y.drained)
<1>1. CASE x.active = None
  BY <1>1 DEF DrainOne
<1>2. CASE x.active # None
  <2> DEFINE a == x.active
             d == x.drained
             y == DrainOne(f, x)
  <2>1. PICK v : /\ y.drained = Append(d, v)
                 /\ v.ordinal = a.next /\ v.lease = a.lease
                 /\ \/ y.active = None /\ a.next = Max(a.lease.range)
                    \/ /\ y.active # None /\ a.next # Max(a.lease.range)
                       /\ y.active.lease = a.lease /\ y.active.next = a.next + 1
    BY <1>2, DrainOneTakes
  <2>2. /\ a \in OpenLeases /\ a.lease \in WholeLeases /\ a.next \in a.lease.range
        /\ d \in Seq(DrainedValues)
    BY <1>2 DEF StreamAt, Resumes
  <2>3. a # None /\ Once(d) /\ Given(d) \cap Undrained(a) = {}
    BY <1>2
  <2> HIDE DEF a, d, y
  <2>4. /\ a.lease.range \subseteq Nat /\ Max(a.lease.range) \in Nat /\ a.next \in Nat
        /\ \A o \in a.lease.range : o <= Max(a.lease.range)
    BY <2>2, WholeEnds DEF OpenLeases
  <2> DEFINE p == <<a.next, a.lease.round>>
  <2>5. Undrained(a) = {<<o, a.lease.round>> : o \in {o \in a.lease.range : o >= a.next}}
    BY <2>3 DEF Undrained
  <2>6. p \in Undrained(a)
    BY <2>2, <2>4, <2>5
  <2>7. Undrained(y.active) = Undrained(a) \ {p}
    <3>1. CASE y.active = None /\ a.next = Max(a.lease.range)
      <4>1. {o \in a.lease.range : o >= a.next} = {a.next}
        BY <2>2, <2>4, <3>1
      <4>2. Undrained(a) = {p}
        BY <2>5, <4>1
      <4> QED BY <3>1, <4>2 DEF Undrained
    <3>2. CASE /\ y.active # None /\ y.active.lease = a.lease /\ y.active.next = a.next + 1
      <4>1. Undrained(y.active) =
              {<<o, a.lease.round>> : o \in {o \in a.lease.range : o >= a.next + 1}}
        BY <3>2 DEF Undrained
      <4>2. {o \in a.lease.range : o >= a.next + 1}
              = {o \in a.lease.range : o >= a.next} \ {a.next}
        BY <2>4
      <4> QED BY <2>5, <4>1, <4>2
    <3> QED BY <2>1, <3>1, <3>2
  <2>8. Given(y.drained) = Given(d) \cup {p} /\ (Once(d) /\ p \notin Given(d) => Once(y.drained))
    BY <2>1, <2>2, GivenAppended
  <2> HIDE DEF p
  <2>9. p \notin Given(d)
    BY <2>3, <2>6
  <2>10. /\ Given(y.drained) \cup Undrained(y.active) = Given(d) \cup Undrained(a)
         /\ Given(y.drained) \cap Undrained(y.active) = {}
         /\ Once(y.drained)
    BY <2>3, <2>6, <2>7, <2>8, <2>9
  <2> QED BY <2>10 DEF a, d, y
<1> QED BY <1>1, <1>2

\* So does a burst.
LEMMA BurstMoves ==
    ASSUME ExecutorTypes, StreamInv, NEW f \in Readers, NEW n \in Nat, Once(drained[f]),
           Given(drained[f]) \cap Undrained(active[f]) = {}
    PROVE  LET end == Burst(f, n) IN
           /\ Given(end.drained) \cup Undrained(end.active)
                = Given(drained[f]) \cup Undrained(active[f])
           /\ Given(end.drained) \cap Undrained(end.active) = {}
           /\ Once(end.drained)
<1>1. PICK g : IsBurst(f, n, g) /\ Burst(f, n) = g[n]
  BY BurstRuns
<1> DEFINE all == Given(drained[f]) \cup Undrained(active[f])
           Fine(x) == /\ x.completed \in Nat
                      /\ StreamAt(f, x.active, x.drained, expected[f] + x.completed)
                      /\ Given(x.drained) \cup Undrained(x.active) = all
                      /\ Given(x.drained) \cap Undrained(x.active) = {}
                      /\ Once(x.drained)
           bad == {i \in 0 .. n : ~Fine(g[i])}
<1>2. SUFFICES ASSUME bad # {} PROVE FALSE
  <2>1. n \in 0 .. n
    OBVIOUS
  <2>2. Fine(g[n])
    BY <1>2, <2>1
  <2> QED BY <1>1, <2>2
<1>3. PICK i \in bad : \A j \in bad : ~(j < i)
  <2>1. bad \subseteq Nat
    OBVIOUS
  <2> HIDE DEF bad
  <2> QED BY <1>2, <2>1, LeastNumber
<1>4. i \in 0 .. n /\ ~Fine(g[i])
  OBVIOUS
<1>5. expected[f] \in Nat
  BY DEF ExecutorTypes
<1>6. CASE i = 0
  <2>1. g[0] = Stage(f)
    BY <1>1, <1>4 DEF IsBurst
  <2>2. /\ Stage(f).completed = 0 /\ Stage(f).active = active[f]
        /\ Stage(f).drained = drained[f]
    BY DEF Stage
  <2>3. expected[f] + 0 = expected[f]
    BY <1>5
  <2>4. StreamAt(f, active[f], drained[f], expected[f])
    BY DEF StreamInv
  <2>5. Fine(Stage(f))
    BY <2>2, <2>3, <2>4
  <2> QED BY <1>4, <1>6, <2>1, <2>5
<1>7. CASE i # 0
  <2>1. PICK j \in 0 .. n : j = i - 1 /\ j < i
    BY <1>4, <1>7
  <2>2. Fine(g[j])
    BY <1>3, <2>1
  <2>3. g[i] = DrainOne(f, g[j])
    BY <1>1, <1>4, <1>7, <2>1 DEF IsBurst
  <2>4. /\ DrainOne(f, g[j]).completed \in Nat
        /\ StreamAt(f, DrainOne(f, g[j]).active, DrainOne(f, g[j]).drained,
                    expected[f] + DrainOne(f, g[j]).completed)
    BY <1>5, <2>2, DrainOneKeeps
  <2>5. /\ Given(DrainOne(f, g[j]).drained) \cup Undrained(DrainOne(f, g[j]).active)
             = Given(g[j].drained) \cup Undrained(g[j].active)
        /\ Given(DrainOne(f, g[j]).drained) \cap Undrained(DrainOne(f, g[j]).active) = {}
        /\ Once(DrainOne(f, g[j]).drained)
    BY <2>2, DrainOneMoves
  <2>6. Fine(DrainOne(f, g[j]))
    BY <2>2, <2>4, <2>5
  <2> QED BY <1>4, <2>3, <2>6
<1> QED BY <1>6, <1>7

\* A burst moves ordinals from the open lease to those given (`drain_into`).
LEMMA DrainBooks ==
    ASSUME ExecutorTypes, StreamInv, TargetTypes, BooksInv, NEW f \in Readers, NEW n \in Nat,
           DrainInto(f, n), UNCHANGED <<rangeVars, targets, rows>>
    PROVE  BooksInv'
<1> DEFINE end == Burst(f, n)
<1>1. /\ active' = [active EXCEPT ![f] = end.active]
      /\ drained' = [drained EXCEPT ![f] = end.drained]
      /\ UNCHANGED <<held, elsewhere>>
  BY DEF DrainInto, cursorVars
<1>2. active'[f] = end.active /\ drained'[f] = end.drained
  BY <1>1 DEF ExecutorTypes
<1>3. ASSUME NEW g \in Readers, g # f PROVE BookOf(g)'
  <2>1. held'[g] = held[g] /\ drained'[g] = drained[g] /\ active'[g] = active[g]
        /\ elsewhere'[g] = elsewhere[g]
    BY <1>1, <1>3 DEF ExecutorTypes
  <2> QED BY <2>1, OtherBooks
<1>4. BookOf(f)'
  <2> SUFFICES ASSUME Len(targets[f]) = 1 PROVE BookOf(f)'
    BY DEF BookOf
  <2> DEFINE s == targets[f][1]
             C == claimed[s][f]
             D == Given(drained[f])
             K == Kept(held[f])
             T == Undrained(active[f])
             E == elsewhere[f]
             A == Advanced(f)
             D2 == Given(end.drained)
             T2 == Undrained(end.active)
  <2>1. Apart(held[f]) /\ Once(drained[f]) /\ Balanced(C, round[s], D, K, T, E, A)
    BY DEF BooksInv
  <2>2. D \cap (K \cup T \cup E \cup A) = {} /\ (K \cup T \cup E) \cap A = {}
        /\ (K \cup T) \cap E = {} /\ K \cap T = {}
    <3> HIDE DEF C, D, K, T, E, A
    <3> QED BY <2>1 DEF Balanced
  <2>3. Given(drained[f]) \cap Undrained(active[f]) = {}
    BY <2>2
  <2>4. D2 \cup T2 = D \cup T /\ D2 \cap T2 = {} /\ Once(end.drained)
    <3> HIDE DEF end
    <3> QED BY <2>1, <2>3, BurstMoves DEF end
  <2>5. Advanced(f)' = Advanced(f)
    BY DEF Advanced
  <2>6. Balanced(C, round[s], D2, K, T2, E, A)
    <3> HIDE DEF C, D, K, T, E, A, D2, T2
    <3>1. D2 \cup K \cup T2 \cup E \cup A = D \cup K \cup T \cup E \cup A
      BY <2>4
    <3>2. /\ D2 \cap (K \cup T2 \cup E \cup A) = {} /\ (K \cup T2 \cup E) \cap A = {}
          /\ (K \cup T2) \cap E = {} /\ K \cap T2 = {}
      BY <2>2, <2>4
    <3> QED BY <2>1, <3>1, <3>2, Moved
  <2> HIDE DEF end
  <2> QED BY <1>1, <1>2, <2>1, <2>4, <2>5, <2>6 DEF BookOf, rangeVars
<1> QED BY <1>3, <1>4 DEF BooksInv, BookOf

\* Every step keeps the books balanced.
LEMMA NextBooks ==
    ASSUME Wraps = FALSE, IInv, LeaseTypes, ExecutorTypes, StreamInv, TargetTypes, BooksInv,
           [Next]_vars
    PROVE  BooksInv'
<1>1. ASSUME UNCHANGED <<rangeVars, targets, rows, held, drained, active, elsewhere>>
      PROVE  BooksInv'
  <2>1. \A f \in Readers : BookOf(f)'
    BY <1>1, OtherBooks
  <2> QED BY <2>1 DEF BooksInv, BookOf
<1>2. CASE UNCHANGED vars
  BY <1>1, <1>2 DEF vars, cursorVars, executorVars
<1>3. ASSUME NEW s \in Sources, RewindForPoll(s), UNCHANGED <<cursorVars, executorVars>>
      PROVE  BooksInv'
  BY <1>3, RewindBooks
<1>4. ASSUME NEW f \in Readers, CursorStep(f), UNCHANGED executorVars PROVE BooksInv'
  <2>1. ASSUME NEW s \in Sources, AdvanceTarget(f, s) PROVE BooksInv'
    BY <1>4, <2>1, AdvanceBooks
  <2>2. ASSUME NEW s \in Sources, NEW demand \in Demands, ReserveOrdinalBatch(f, s, demand)
        PROVE  BooksInv'
    BY <1>4, <2>2, ReserveBooks
  <2>3. CASE NewCursors(f)
    BY <1>1, <1>4, <2>3 DEF NewCursors, executorVars
  <2> QED BY <1>4, <2>1, <2>2, <2>3 DEF CursorStep
<1>5. ASSUME NEW f \in Executors, ExecutorStep(f) PROVE BooksInv'
  <2>0. f \in Readers /\ Bursts \subseteq Nat
    BY ExecutorsAssumption, LanesAssumption
  <2>1. UNCHANGED <<rangeVars, targets, rows>>
    BY <1>5, ExecutorLeaves
  <2>2. ASSUME NEW epoch \in Epochs, BeginLease(f, epoch) PROVE BooksInv'
    BY <2>0, <2>1, <2>2, BeginBooks
  <2>3. CASE ProcessElsewhere(f)
    BY <2>0, <2>1, <2>3, ElsewhereBooks
  <2>4. CASE ForceScalarRecovery(f)
    BY <2>0, <2>1, <2>4, RecoveryBooks
  <2>5. CASE SetBroadcast(f)
    BY <1>1, <2>5 DEF SetBroadcast, cursorVars
  <2>6. ASSUME NEW n \in Bursts, DrainInto(f, n) PROVE BooksInv'
    BY <2>0, <2>1, <2>6, DrainBooks
  <2> QED BY <1>5, <2>2, <2>3, <2>4, <2>5, <2>6 DEF ExecutorStep
<1> QED BY <1>2, <1>3, <1>4, <1>5 DEF Next

\* Values drained once each are as many as their ordinals.
LEMMA OnceCounts ==
    ASSUME NEW S, NEW d \in Seq(S), Once(d)
    PROVE  Cardinality(Given(d)) = Len(d)
<1> DEFINE n == Len(d)
           m == [i \in 1 .. n |-> <<d[i].ordinal, d[i].lease.round>>]
<1>1. n \in Nat /\ DOMAIN d = 1 .. n
  OBVIOUS
<1>2. m \in [1 .. n -> Given(d)]
  BY <1>1 DEF Given
<1>3. \A i, j \in 1 .. n : m[i] = m[j] => i = j
  BY <1>1 DEF Once
<1>4. \A x \in Given(d) : \E i \in 1 .. n : m[i] = x
  BY <1>1 DEF Given
<1> HIDE DEF m, n
<1>5. m \in Bijection(1 .. n, Given(d))
  BY <1>2, <1>3, <1>4 DEF Bijection, Injection, Surjection, IsInjective
<1>6. ExistsBijection(1 .. n, Given(d))
  BY <1>5 DEF ExistsBijection
<1> QED BY <1>1, <1>6, FS_CountingElements DEF n

\* Balanced books lose no ordinal.
LEMMA BooksShow ==
    ASSUME LeaseTypes, ExecutorTypes, TargetTypes, BooksInv
    PROVE  NoOrdinalLost
<1> SUFFICES ASSUME NEW f \in Readers, Len(targets[f]) = 1
             PROVE  LET s == targets[f][1] IN
                    /\ Cardinality(Delivered(f)) = Len(drained[f])
                    /\ Delivered(f) \cap (Remaining(f) \cup elsewhere[f] \cup Advanced(f)) = {}
                    /\ (Remaining(f) \cup elsewhere[f]) \cap Advanced(f) = {}
                    /\ Remaining(f) \cap elsewhere[f] = {}
                    /\ {<<o, round[s]>> : o \in claimed[s][f]} =
                         {x \in Delivered(f) \cup Remaining(f) \cup elsewhere[f] \cup Advanced(f) :
                            x[2] = round[s]}
  BY DEF NoOrdinalLost
<1> DEFINE s == targets[f][1]
           C == claimed[s][f]
           r == round[s]
           D == Given(drained[f])
           K == Kept(held[f])
           T == Undrained(active[f])
           E == elsewhere[f]
           A == Advanced(f)
<1>1. Once(drained[f]) /\ Balanced(C, r, D, K, T, E, A)
  BY DEF BooksInv
<1>2. Delivered(f) = D
  BY DEF Delivered, Given, ToSet
<1>3. Remaining(f) = K \cup T
  <2> DEFINE k == UNION {{<<o, held[f][i].round>> : o \in held[f][i].range} :
                           i \in DOMAIN held[f]}
             t == IF active[f] = None THEN {}
                  ELSE {<<o, active[f].lease.round>> :
                          o \in {o \in active[f].lease.range : o >= active[f].next}}
  <2>1. K = k
    BY DEF Kept, Pairs
  <2>2. T = t
    BY DEF Undrained
  <2>3. Remaining(f) = k \cup t
    BY DEF Remaining
  <2> HIDE DEF K, T, k, t
  <2> QED BY <2>1, <2>2, <2>3
<1>4. Cardinality(Delivered(f)) = Len(drained[f])
  <2>1. drained[f] \in Seq(DrainedValues)
    BY DEF ExecutorTypes
  <2>2. Cardinality(Given(drained[f])) = Len(drained[f])
    BY <1>1, <2>1, OnceCounts
  <2> QED BY <1>2, <2>2
<1> HIDE DEF C, r, D, K, T, E, A
<1>5. /\ D \cap ((K \cup T) \cup E \cup A) = {} /\ ((K \cup T) \cup E) \cap A = {}
      /\ (K \cup T) \cap E = {}
      /\ \A x \in D \cup K \cup T \cup E \cup A :
           x \in Nat \X Nat /\ (x[2] = r => x[1] \in C)
      /\ \A o \in C : <<o, r>> \in D \cup K \cup T \cup E \cup A
  BY <1>1 DEF Balanced
<1>6. {<<o, r>> : o \in C} = {x \in D \cup (K \cup T) \cup E \cup A : x[2] = r}
  <2>1. ASSUME NEW o \in C PROVE <<o, r>> \in {x \in D \cup (K \cup T) \cup E \cup A : x[2] = r}
    BY <1>5
  <2>2. ASSUME NEW x \in D \cup (K \cup T) \cup E \cup A, x[2] = r
        PROVE  x \in {<<o, r>> : o \in C}
    <3>1. x \in Nat \X Nat /\ x[1] \in C
      BY <1>5, <2>2
    <3>2. x = <<x[1], r>>
      BY <2>2, <3>1
    <3> QED BY <3>1, <3>2
  <2> QED BY <2>1, <2>2
<1> QED BY <1>2, <1>3, <1>4, <1>5, <1>6 DEF C, r, E, A

\* No ordinal a fiber leased is lost or used twice: it is drained, in a lease the
\* fiber holds, processed by the host or in a row (`reserve_ordinal_batch`,
\* `begin_lease`, `drain_into`).
THEOREM OrdinalsKept ==
    ASSUME Wraps = FALSE
    PROVE  Spec => []NoOrdinalLost
<1> DEFINE Inv == IInv /\ LeaseTypes /\ ExecutorTypes /\ StreamInv /\ TargetTypes /\ BooksInv
<1>1. Init => Inv
  BY InitIInv, InitStream, InitTargets DEF Init, CursorsInit
<1>2. Inv /\ [Next]_vars => Inv'
  BY NextIInv, NextStream, NextTargets, NextBooks
<1>3. Inv => NoOrdinalLost
  BY BooksShow
<1> QED BY <1>1, <1>2, <1>3, PTL DEF Spec

-----------------------------------------------------------------------------
\* The rows: what several fibers advancing over the same targets complete.

\* The targets of a fiber, in the first round of all of them.
FirstRound(ts) == \A i \in DOMAIN ts : round[ts[i]] = 1

\* A source has no ordinal left.
Spent(s) == End[s] <= cursor[s]

\* A row took an ordinal of every target, and no other row took it.
RowsApart(ts) ==
    /\ \A row \in rows : \A i \in DOMAIN ts : row[2][i] \in Handed(ts[i])
    /\ \A p, q \in rows : p # q => \A i \in DOMAIN ts : p[2][i] # q[2][i]

\* The ordinals a fiber has read for the row it is at are its own.
ReadsApart(ts) ==
    \A f \in Readers : \A i \in DOMAIN ts : i < at[f] =>
      /\ last_items[f][i] \in Handed(ts[i])
      /\ \A row \in rows : row[2][i] # last_items[f][i]
      /\ \A g \in Readers : g # f /\ i < at[g] => last_items[g][i] # last_items[f][i]

\* Past the last target that is spent, no ordinal is dropped.
NoneDropped(ts) ==
    \A i \in DOMAIN ts :
      (\A j \in DOMAIN ts : j > i => ~Spent(ts[j]))
      => \A o \in Handed(ts[i]) :
           \/ \E row \in rows : row[2][i] = o
           \/ \E f \in Readers : i < at[f] /\ last_items[f][i] = o

\* A fiber that found a target exhausted is not past it, or is past another.
ExhaustedBehind(ts) ==
    \A f \in Readers : exhausted[f] => \E t \in DOMAIN ts : at[f] <= t /\ Spent(ts[t])

\* What is known of the rows of fibers with several targets.
RowsInv ==
    /\ \A s \in Sources : round[s] >= 1
    /\ DOMAIN exhausted = Readers
    /\ \A h \in Readers :
         Len(targets[h]) > 1 /\ FirstRound(targets[h]) =>
           /\ RowsApart(targets[h]) /\ ReadsApart(targets[h])
           /\ NoneDropped(targets[h]) /\ ExhaustedBehind(targets[h])

\* What a source hands out, as the cursor shows it.
LEMMA HandedOut ==
    ASSUME IInv, NEW s \in Sources
    PROVE  /\ Handed(s) = Start[s] .. (Frontier(s) - 1) /\ Frontier(s) \in Nat
           /\ Start[s] \in Nat /\ End[s] \in Nat /\ cursor[s] \in Nat
           /\ Start[s] <= cursor[s] /\ Start[s] <= End[s]
           /\ Handed(s) \subseteq Nat
BY Bounds DEF IInv, CursorInv, ClaimedInv, Frontier

\* A first read of a target in a step of `advance`.
LEMMA ReadStep ==
    ASSUME IInv, LeaseTypes, Wraps = FALSE, NEW s \in Sources, NEW r \in Readers,
           Reserve(s, r, 1)
    PROVE  /\ cursor'[s] = cursor[s] + 1
           /\ \A t \in Sources : t # s => cursor'[t] = cursor[t] /\ Handed(t)' = Handed(t)
           /\ Handed(s)' = Handed(s) \cup Ordinals(s, 1)
           /\ Ordinals(s, 1) = {} <=> Spent(s)
           /\ ~Spent(s) => Ordinals(s, 1) = {cursor[s]} /\ cursor[s] \notin Handed(s)
           /\ round' = round
<1> DEFINE one == 1
<1>0. one \in Nat \ {0} /\ Reserve(s, r, one)
  OBVIOUS
<1> HIDE DEF one
<1>1. /\ claimed'[s] = [claimed[s] EXCEPT ![r] = @ \cup Ordinals(s, one)]
      /\ \A t \in Sources \ {s} : claimed'[t] = claimed[t]
      /\ round' = round
  BY ZenonT(40), <1>0, ReserveStep
<1>2. /\ cursor[s] + one < Modulus /\ cursor' = [cursor EXCEPT ![s] = (@ + one) % Modulus]
  BY <1>0 DEF Reserve
<1>3. (cursor[s] + one) % Modulus = cursor[s] + one
  BY <1>0, <1>2, OrdinalsHanded
<1>4. /\ cursor'[s] = cursor[s] + one
      /\ \A t \in Sources : t # s => cursor'[t] = cursor[t]
  BY <1>2, <1>3 DEF LeaseTypes
<1>5. Ordinals(s, one) = IF cursor[s] < End[s]
                         THEN cursor[s] .. ((IF cursor[s] + one < End[s] THEN cursor[s] + one
                                             ELSE End[s]) - 1)
                         ELSE {}
  BY <1>0, <1>2, OrdinalsHanded
<1>6. /\ \A t \in Sources : t # s => Handed(t)' = Handed(t)
      /\ Handed(s)' = Handed(s) \cup Ordinals(s, one)
  <2>1. \A t \in Sources : t # s => Handed(t)' = Handed(t)
    BY <1>1 DEF Handed
  <2>2. Handed(s)' = Handed(s) \cup Ordinals(s, one)
    BY <1>1 DEF Handed, IInv, ClaimedInv
  <2> QED BY <2>1, <2>2
<1>7. /\ cursor[s] \in Nat /\ End[s] \in Nat
      /\ Handed(s) = Start[s] .. (Frontier(s) - 1) /\ Start[s] \in Nat
  BY HandedOut
<1>8. CASE Spent(s)
  <2>1. ~(cursor[s] < End[s])
    BY <1>7, <1>8 DEF Spent
  <2>2. Ordinals(s, one) = {}
    BY <1>5, <2>1
  <2> QED BY <1>1, <1>4, <1>6, <1>8, <2>2 DEF one
<1>9. CASE ~Spent(s)
  <2>1. cursor[s] < End[s]
    BY <1>7, <1>9 DEF Spent
  <2>2. (IF cursor[s] + one < End[s] THEN cursor[s] + one ELSE End[s]) - 1 = cursor[s]
    BY <1>7, <2>1 DEF one
  <2>3. Ordinals(s, one) = {cursor[s]}
    BY <1>5, <1>7, <2>1, <2>2
  <2>4. cursor[s] \notin Handed(s)
    BY <1>7, <2>1 DEF Frontier
  <2> QED BY <1>1, <1>4, <1>6, <1>9, <2>3, <2>4 DEF one
<1> QED BY <1>8, <1>9

\* No row has been read at first.
LEMMA InitRows == Init => RowsInv
<1> SUFFICES ASSUME Init PROVE RowsInv
  OBVIOUS
<1>1. /\ rows = {} /\ DOMAIN exhausted = Readers
      /\ \A f \in Readers : at[f] = 1 /\ exhausted[f] = FALSE
      /\ \A s \in Sources : round[s] = 1
      /\ \A s \in Sources, r \in Readers : claimed[s][r] = {}
  BY DEF Init, CursorsInit, RangeInit
<1>2. ASSUME NEW h \in Readers
      PROVE  /\ RowsApart(targets[h]) /\ ReadsApart(targets[h])
             /\ NoneDropped(targets[h]) /\ ExhaustedBehind(targets[h])
  <2>1. TargetTypes
    BY InitTargets
  <2>2. targets[h] \in Seq(Sources) /\ DOMAIN targets[h] \subseteq Nat \ {0}
    BY <2>1 DEF TargetTypes
  <2>3. \A i \in DOMAIN targets[h] : ~(i < 1)
    BY <2>2
  <2>4. \A i \in DOMAIN targets[h] : Handed(targets[h][i]) = {}
    BY <1>1, <2>2 DEF Handed
  <2>5. RowsApart(targets[h]) /\ ReadsApart(targets[h])
    BY <1>1, <2>3 DEF RowsApart, ReadsApart
  <2>6. NoneDropped(targets[h])
    BY <2>4 DEF NoneDropped
  <2>7. ExhaustedBehind(targets[h])
    BY <1>1 DEF ExhaustedBehind
  <2> QED BY <2>5, <2>6, <2>7
<1> QED BY <1>1, <1>2 DEF RowsInv

\* A fiber's step over one target, in the first round (`advance`).
LEMMA AdvanceRows ==
    ASSUME Wraps = FALSE, IInv, LeaseTypes, TargetTypes, DOMAIN exhausted = Readers,
           NEW f \in Readers, NEW s \in Sources, AdvanceTarget(f, s),
           NEW ts, ts = targets[f],
           RowsApart(ts), ReadsApart(ts), NoneDropped(ts), ExhaustedBehind(ts)
    PROVE  RowsApart(ts)' /\ ReadsApart(ts)' /\ NoneDropped(ts)' /\ ExhaustedBehind(ts)'
<1> DEFINE n == Len(ts)
           j == at[f]
           o == cursor[s]
<1>1. Reserve(s, f, 1) /\ j \in DOMAIN ts /\ ts[j] = s
  BY DEF AdvanceTarget
<1>2. /\ n \in Nat /\ DOMAIN ts = 1 .. n
      /\ \A i \in DOMAIN ts : ts[i] \in Sources /\ (i # j => ts[i] # s)
      /\ \A g \in Readers : at[g] \in Nat
  BY <1>1 DEF TargetTypes
<1>3. /\ cursor'[s] = cursor[s] + 1
      /\ \A t \in Sources : t # s => cursor'[t] = cursor[t] /\ Handed(t)' = Handed(t)
      /\ Handed(s)' = Handed(s) \cup Ordinals(s, 1)
      /\ Ordinals(s, 1) = {} <=> Spent(s)
      /\ ~Spent(s) => Ordinals(s, 1) = {cursor[s]} /\ cursor[s] \notin Handed(s)
  BY <1>1, ReadStep
<1>4. \A i \in DOMAIN ts : Spent(ts[i]) => Spent(ts[i])'
  <2>1. \A t \in Sources : cursor[t] \in Nat /\ End[t] \in Nat
    BY HandedOut
  <2>2. \A t \in Sources : cursor[t] <= cursor'[t] /\ cursor'[t] \in Nat
    BY <1>3, <2>1
  <2> QED BY <1>2, <2>1, <2>2 DEF Spent
<1>5. \A i \in DOMAIN ts : i # j => Handed(ts[i])' = Handed(ts[i])
  BY <1>2, <1>3
<1> HIDE DEF n
<1>6. CASE Spent(s)
  <2>1. Ordinals(s, 1) = {}
    BY <1>3, <1>6
  <2>2. /\ at' = [at EXCEPT ![f] = 1] /\ exhausted' = [exhausted EXCEPT ![f] = TRUE]
        /\ last_items' = last_items /\ rows' = rows
    BY <2>1 DEF AdvanceTarget
  <2>3. \A i \in DOMAIN ts : Handed(ts[i])' = Handed(ts[i])
    <3>1. Handed(s)' = Handed(s)
      BY <1>3, <2>1
    <3> QED BY <1>1, <1>5, <3>1
  <2>4. /\ at'[f] = 1 /\ \A g \in Readers : g # f => at'[g] = at[g]
        /\ \A g \in Readers : g # f => exhausted'[g] = exhausted[g]
    BY <2>2 DEF TargetTypes
  <2>5. RowsApart(ts)'
    BY <2>2, <2>3 DEF RowsApart
  <2>6. \A g \in Readers, i \in DOMAIN ts : i < at'[g] => g # f /\ i < at[g]
    BY <1>2, <2>4
  <2>7. ReadsApart(ts)'
    BY <2>2, <2>3, <2>6 DEF ReadsApart
  <2>8. NoneDropped(ts)'
    <3> SUFFICES ASSUME NEW i \in DOMAIN ts,
                        \A k \in DOMAIN ts : k > i => ~Spent(ts[k])',
                        NEW x \in Handed(ts[i])'
                 PROVE  \/ \E row \in rows' : row[2][i] = x
                        \/ \E g \in Readers : i < at'[g] /\ last_items'[g][i] = x
      BY DEF NoneDropped
    <3>1. \A k \in DOMAIN ts : k > i => ~Spent(ts[k])
      BY <1>4
    <3>2. \/ \E row \in rows : row[2][i] = x
          \/ \E g \in Readers : i < at[g] /\ last_items[g][i] = x
      BY <2>3, <3>1 DEF NoneDropped
    <3>3. ~(i < j)
      BY <1>1, <1>2, <1>6, <3>1
    <3>4. \A g \in Readers : i < at[g] => g # f
      BY <3>3
    <3> QED BY <2>2, <2>4, <3>2, <3>4
  <2>9. ExhaustedBehind(ts)'
    <3> SUFFICES ASSUME NEW g \in Readers, exhausted'[g]
                 PROVE  \E t \in DOMAIN ts : at'[g] <= t /\ Spent(ts[t])'
      BY DEF ExhaustedBehind
    <3>1. CASE g = f
      <4>1. PICK t \in DOMAIN ts : t = j
        BY <1>1
      <4>2. Spent(ts[t])'
        BY <1>1, <1>4, <1>6, <4>1
      <4>3. at'[g] <= t
        BY <1>1, <1>2, <2>4, <3>1, <4>1
      <4> QED BY <4>2, <4>3
    <3>2. CASE g # f
      <4>1. PICK t \in DOMAIN ts : at[g] <= t /\ Spent(ts[t])
        BY <2>4, <3>2 DEF ExhaustedBehind
      <4> QED BY <1>4, <2>4, <3>2, <4>1
    <3> QED BY <3>1, <3>2
  <2> QED BY <2>5, <2>7, <2>8, <2>9
<1>7. CASE ~Spent(s)
  <2>1. Ordinals(s, 1) # {} /\ Ordinals(s, 1) = {o} /\ o \notin Handed(s)
    BY <1>3, <1>7
  <2>2. exhausted' = exhausted
    BY <2>1 DEF AdvanceTarget
  <2>3. PICK o2 \in Ordinals(s, 1), items \in [DOMAIN targets[f] -> Nat \cup {None}] :
          /\ o2 \in Nat /\ items = [last_items[f] EXCEPT ![at[f]] = o2]
          /\ items[at[f]] = o2
          /\ last_items' = [last_items EXCEPT ![f] = items]
          /\ at' = [at EXCEPT ![f] = IF at[f] = Len(targets[f]) THEN 1 ELSE at[f] + 1]
          /\ rows' = IF at[f] = Len(targets[f]) THEN rows \cup {<<f, items, round[s]>>}
                     ELSE rows
    BY <2>1, AdvanceItems
  <2>4. /\ items[j] = o /\ \A i \in DOMAIN ts : i # j => items[i] = last_items[f][i]
    <3>1. o2 = o
      BY <2>1, <2>3
    <3>2. DOMAIN last_items[f] = DOMAIN ts
      BY DEF TargetTypes
    <3> QED BY <2>3, <3>1, <3>2
  <2>5. /\ last_items'[f] = items
        /\ \A g \in Readers : g # f => last_items'[g] = last_items[g] /\ at'[g] = at[g]
        /\ at'[f] = IF j = n THEN 1 ELSE j + 1
        /\ rows' = IF j = n THEN rows \cup {<<f, items, round[s]>>} ELSE rows
    BY <2>3 DEF TargetTypes, n
  <2> DEFINE new == <<f, items, round[s]>>
  <2>6. new[2] = items
    OBVIOUS
  <2> HIDE DEF new
  <2>7. rows' = IF j = n THEN rows \cup {new} ELSE rows
    BY <2>5 DEF new
  <2>8. \A i \in DOMAIN ts :
          /\ Handed(ts[i]) \subseteq Handed(ts[i])'
          /\ i = j => Handed(ts[i])' = Handed(ts[i]) \cup {o} /\ o \notin Handed(ts[i])
    <3>1. Handed(s)' = Handed(s) \cup {o} /\ o \notin Handed(s)
      BY <1>3, <2>1
    <3>2. ASSUME NEW i \in DOMAIN ts, i = j
          PROVE  Handed(ts[i])' = Handed(ts[i]) \cup {o} /\ o \notin Handed(ts[i])
      BY <1>1, <3>1, <3>2
    <3> QED BY <1>5, <3>2
  <2>9. ASSUME NEW i \in DOMAIN ts, i < j \/ j = n
        PROVE  /\ items[i] \in Handed(ts[i])'
               /\ \A row \in rows : row[2][i] # items[i]
               /\ \A g \in Readers : g # f /\ i < at[g] => last_items[g][i] # items[i]
    <3>1. CASE i = j
      <4>1. \A row \in rows : row[2][i] \in Handed(ts[i])
        BY DEF RowsApart
      <4>2. \A g \in Readers : i < at[g] => last_items[g][i] \in Handed(ts[i])
        BY DEF ReadsApart
      <4> QED BY <2>4, <2>8, <3>1, <4>1, <4>2
    <3>2. CASE i # j
      <4>1. i < j
        BY <1>1, <1>2, <2>9, <3>2
      <4>2. /\ last_items[f][i] \in Handed(ts[i])
            /\ \A row \in rows : row[2][i] # last_items[f][i]
            /\ \A g \in Readers : g # f /\ i < at[g] => last_items[g][i] # last_items[f][i]
        BY <4>1 DEF ReadsApart
      <4> QED BY <2>4, <2>8, <3>2, <4>2
    <3> QED BY <3>1, <3>2
  <2>10. RowsApart(ts)'
    <3>1. CASE j # n
      BY <2>7, <2>8, <3>1 DEF RowsApart
    <3>2. CASE j = n
      <4>1. \A row \in rows' : \A i \in DOMAIN ts : row[2][i] \in Handed(ts[i])'
        BY <2>6, <2>7, <2>8, <2>9, <3>2 DEF RowsApart
      <4>2. \A p, q \in rows' : p # q => \A i \in DOMAIN ts : p[2][i] # q[2][i]
        BY <2>6, <2>7, <2>9, <3>2 DEF RowsApart
      <4> QED BY <4>1, <4>2 DEF RowsApart
    <3> QED BY <3>1, <3>2
  <2>11. ReadsApart(ts)'
    <3> SUFFICES ASSUME NEW g \in Readers, NEW i \in DOMAIN ts, i < at'[g]
                 PROVE  /\ last_items'[g][i] \in Handed(ts[i])'
                        /\ \A row \in rows' : row[2][i] # last_items'[g][i]
                        /\ \A h \in Readers : h # g /\ i < at'[h] =>
                             last_items'[h][i] # last_items'[g][i]
      BY DEF ReadsApart
    <3>1. CASE g = f
      <4>1. j # n /\ i < j + 1 /\ rows' = rows
        BY <1>2, <2>5, <2>7, <3>1
      <4>2. last_items'[g][i] = items[i]
        BY <2>5, <3>1
      <4>3. CASE i = j
        <5>1. \A row \in rows : row[2][i] \in Handed(ts[i])
          BY DEF RowsApart
        <5>2. \A h \in Readers : i < at[h] => last_items[h][i] \in Handed(ts[i])
          BY DEF ReadsApart
        <5>3. items[i] = o /\ o \in Handed(ts[i])' /\ o \notin Handed(ts[i])
          BY <2>4, <2>8, <4>3
        <5>4. \A row \in rows' : row[2][i] # items[i]
          BY <4>1, <5>1, <5>3
        <5>5. \A h \in Readers : h # g /\ i < at'[h] => last_items'[h][i] # items[i]
          BY <2>5, <3>1, <5>2, <5>3
        <5>6. last_items'[g][i] \in Handed(ts[i])'
          BY <4>2, <5>3
        <5> QED BY <4>2, <5>4, <5>5, <5>6
      <4>4. CASE i # j
        <5>1. i < j
          BY <1>1, <1>2, <4>1, <4>4
        <5> QED BY <2>5, <2>9, <3>1, <4>1, <4>2, <5>1
      <4> QED BY <4>3, <4>4
    <3>2. CASE g # f
      <4>1. last_items'[g] = last_items[g] /\ i < at[g]
        BY <2>5, <3>2
      <4>2. /\ last_items[g][i] \in Handed(ts[i])
            /\ \A row \in rows : row[2][i] # last_items[g][i]
            /\ \A h \in Readers : h # g /\ i < at[h] => last_items[h][i] # last_items[g][i]
        BY <4>1 DEF ReadsApart
      <4>3. \A row \in rows' : row[2][i] # last_items'[g][i]
        BY <2>6, <2>7, <2>9, <3>2, <4>1, <4>2
      <4>4. i < at'[f] => items[i] # last_items[g][i]
        <5> SUFFICES ASSUME i < at'[f] PROVE items[i] # last_items[g][i]
          OBVIOUS
        <5>1. j # n /\ i < j + 1
          BY <1>2, <2>5
        <5>2. CASE i = j
          BY <2>4, <2>8, <4>2, <5>2
        <5>3. CASE i # j
          <6>1. i < j
            BY <1>1, <1>2, <5>1, <5>3
          <6> QED BY <2>9, <3>2, <4>1, <6>1
        <5> QED BY <5>2, <5>3
      <4>5. \A h \in Readers : h # g /\ i < at'[h] => last_items'[h][i] # last_items'[g][i]
        BY <2>5, <4>1, <4>2, <4>4
      <4> QED BY <2>8, <4>1, <4>2, <4>3, <4>5
    <3> QED BY <3>1, <3>2
  <2>12. NoneDropped(ts)'
    <3> SUFFICES ASSUME NEW i \in DOMAIN ts,
                        \A k \in DOMAIN ts : k > i => ~Spent(ts[k])',
                        NEW x \in Handed(ts[i])'
                 PROVE  \/ \E row \in rows' : row[2][i] = x
                        \/ \E g \in Readers : i < at'[g] /\ last_items'[g][i] = x
      BY DEF NoneDropped
    <3>1. \A k \in DOMAIN ts : k > i => ~Spent(ts[k])
      BY <1>4
    <3>2. ASSUME x = items[i], i < j \/ i = j
          PROVE  \/ \E row \in rows' : row[2][i] = x
                 \/ \E g \in Readers : i < at'[g] /\ last_items'[g][i] = x
      <4>1. CASE j = n
        <5>1. new \in rows' /\ new[2][i] = x
          BY <2>6, <2>7, <3>2, <4>1
        <5> QED BY <5>1
      <4>2. CASE j # n
        <5>1. i < at'[f] /\ last_items'[f][i] = x
          BY <1>1, <1>2, <2>5, <3>2, <4>2
        <5> QED BY <5>1
      <4> QED BY <4>1, <4>2
    <3>3. CASE i = j /\ x = o
      BY <2>4, <3>2, <3>3
    <3>4. CASE ~(i = j /\ x = o)
      <4>1. x \in Handed(ts[i])
        BY <1>5, <2>8, <3>4
      <4>2. \/ \E row \in rows : row[2][i] = x
            \/ \E g \in Readers : i < at[g] /\ last_items[g][i] = x
        BY <3>1, <4>1 DEF NoneDropped
      <4>3. CASE \E row \in rows : row[2][i] = x
        BY <2>7, <4>3
      <4>4. CASE \E g \in Readers : i < at[g] /\ last_items[g][i] = x
        <5>1. PICK g \in Readers : i < at[g] /\ last_items[g][i] = x
          BY <4>4
        <5>2. CASE g = f
          <6>1. i # j /\ i < j
            BY <1>1, <1>2, <5>1, <5>2
          <6>2. x = items[i]
            BY <2>4, <5>1, <5>2, <6>1
          <6> QED BY <3>2, <6>1, <6>2
        <5>3. CASE g # f
          BY <2>5, <5>1, <5>3
        <5> QED BY <5>2, <5>3
      <4> QED BY <4>2, <4>3, <4>4
    <3> QED BY <3>3, <3>4
  <2>13. ExhaustedBehind(ts)'
    <3> SUFFICES ASSUME NEW g \in Readers, exhausted[g]
                 PROVE  \E t \in DOMAIN ts : at'[g] <= t /\ Spent(ts[t])'
      BY <2>2 DEF ExhaustedBehind
    <3>1. PICK t \in DOMAIN ts : at[g] <= t /\ Spent(ts[t])
      BY DEF ExhaustedBehind
    <3>2. CASE g = f
      <4>1. t # j
        BY <1>1, <1>7, <3>1
      <4>2. at'[f] <= t
        BY <1>1, <1>2, <2>5, <3>1, <3>2, <4>1
      <4> QED BY <1>4, <3>1, <3>2, <4>2
    <3>3. CASE g # f
      BY <1>4, <2>5, <3>1, <3>3
    <3> QED BY <3>2, <3>3
  <2> QED BY <2>10, <2>11, <2>12, <2>13
<1> QED BY <1>6, <1>7

\* Steps that leave the sources and the readers alone keep the facts about rows.
LEMMA SameRows ==
    ASSUME RowsInv, UNCHANGED <<rangeVars, targets, at, last_items, exhausted, rows>>
    PROVE  RowsInv'
BY SMTT(20) DEF RowsInv, FirstRound, RowsApart, ReadsApart, NoneDropped, ExhaustedBehind, Handed,
       Spent, rangeVars

\* A rewind ends the first round of its source (`rewind_for_poll`).
LEMMA RewindRows ==
    ASSUME LeaseTypes, TargetTypes, RowsInv, NEW f \in Readers, NEW s \in Sources,
           s \in ToSet(targets[f]), RewindForPoll(s), UNCHANGED <<cursorVars, executorVars>>
    PROVE  RowsInv'
<1>1. /\ targets' = targets /\ exhausted' = exhausted
      /\ round' = [round EXCEPT ![s] = @ + 1] /\ round \in [Sources -> Nat]
  BY DEF cursorVars, RewindForPoll, LeaseTypes
<1>2. \A t \in Sources : round[t] >= 1 /\ round[t] \in Nat
  BY <1>1 DEF RowsInv
<1>3. (\A t \in Sources : round'[t] >= 1) /\ round'[s] # 1
  BY <1>1, <1>2
<1>4. ASSUME NEW h \in Readers PROVE ~FirstRound(targets[h])'
  <2>1. PICK i \in DOMAIN targets[f] : targets[f][i] = s
    BY DEF ToSet
  <2>2. targets'[h] = targets[f]
    BY <1>1 DEF TargetTypes
  <2> QED BY <1>3, <2>1, <2>2 DEF FirstRound
<1> QED BY <1>1, <1>3, <1>4 DEF RowsInv

\* A fresh set of cursors is built between rows.
LEMMA FreshRows ==
    ASSUME TargetTypes, RowsInv, NEW f \in Readers, NewCursors(f)
    PROVE  RowsInv'
<1>1. /\ at[f] = 1 /\ last_items' = [last_items EXCEPT ![f] = NoItems(f)]
      /\ UNCHANGED <<cursor, round, claimed, targets, at, exhausted, rows>>
  BY DEF NewCursors, rangeVars
<1>2. \A g \in Readers : g # f => last_items'[g] = last_items[g]
  BY <1>1 DEF TargetTypes
<1>3. ASSUME NEW h \in Readers PROVE \A i \in DOMAIN targets[h] : ~(i < at[f])
  <2>1. DOMAIN targets[h] \subseteq Nat \ {0}
    BY DEF TargetTypes
  <2> QED BY <1>1, <2>1
<1>4. ASSUME NEW h \in Readers, ReadsApart(targets[h]) PROVE ReadsApart(targets[h])'
  <2> SUFFICES ASSUME NEW g \in Readers, NEW i \in DOMAIN targets[h], i < at[g]
               PROVE  /\ last_items'[g][i] \in Handed(targets[h][i])
                      /\ \A row \in rows : row[2][i] # last_items'[g][i]
                      /\ \A q \in Readers : q # g /\ i < at[q] =>
                           last_items'[q][i] # last_items'[g][i]
    BY <1>1 DEF ReadsApart, Handed
  <2>1. g # f /\ \A q \in Readers : i < at[q] => q # f
    BY <1>3
  <2>2. last_items'[g] = last_items[g]
        /\ \A q \in Readers : i < at[q] => last_items'[q] = last_items[q]
    BY <1>2, <2>1
  <2> QED BY <1>4, <2>2 DEF ReadsApart
<1>5. ASSUME NEW h \in Readers, NoneDropped(targets[h]) PROVE NoneDropped(targets[h])'
  <2> SUFFICES ASSUME NEW i \in DOMAIN targets[h],
                      \A j \in DOMAIN targets[h] : j > i => ~Spent(targets[h][j]),
                      NEW o \in Handed(targets[h][i])
               PROVE  \/ \E row \in rows : row[2][i] = o
                      \/ \E g \in Readers : i < at[g] /\ last_items'[g][i] = o
    BY <1>1 DEF NoneDropped, Handed, Spent
  <2>1. \/ \E row \in rows : row[2][i] = o
        \/ \E g \in Readers : i < at[g] /\ last_items[g][i] = o
    BY <1>5 DEF NoneDropped
  <2>2. \A g \in Readers : i < at[g] => g # f
    BY <1>3
  <2> QED BY <1>2, <2>1, <2>2
<1>6. ASSUME NEW h \in Readers
      PROVE  /\ RowsApart(targets[h]) => RowsApart(targets[h])'
             /\ ExhaustedBehind(targets[h]) => ExhaustedBehind(targets[h])'
             /\ FirstRound(targets[h])' => FirstRound(targets[h])
  BY <1>1 DEF RowsApart, ExhaustedBehind, FirstRound, Handed, Spent
<1> QED BY <1>1, <1>4, <1>5, <1>6 DEF RowsInv

\* A lease is of a fiber with one target.
LEMMA LeaseRows ==
    ASSUME TargetTypes, RowsInv, NEW f \in Readers, NEW s \in Sources, NEW demand,
           ReserveOrdinalBatch(f, s, demand)
    PROVE  RowsInv'
<1>1. targets[f] = <<s>> /\ targets' = targets /\ exhausted' = exhausted /\ round' = round
  BY DEF ReserveOrdinalBatch, Reserve
<1>2. \A h \in Readers : ~(Len(targets'[h]) > 1)
  <2> TAKE h \in Readers
  <2>1. targets'[h] = <<s>>
    BY <1>1 DEF TargetTypes
  <2>2. Len(<<s>>) = 1
    OBVIOUS
  <2> QED BY <2>1, <2>2
<1> QED BY <1>1, <1>2 DEF RowsInv

\* Every step keeps the facts about rows.
LEMMA NextRows ==
    ASSUME Wraps = FALSE, IInv, LeaseTypes, TargetTypes, RowsInv, [Next]_vars
    PROVE  RowsInv'
<1>1. CASE UNCHANGED vars
  BY <1>1, SameRows DEF vars, cursorVars, executorVars
<1>2. ASSUME NEW f \in Readers, NEW s \in Sources, s \in ToSet(targets[f]), RewindForPoll(s),
             UNCHANGED <<cursorVars, executorVars>>
      PROVE  RowsInv'
  BY <1>2, RewindRows
<1>3. ASSUME NEW f \in Readers, NEW s \in Sources, AdvanceTarget(f, s) PROVE RowsInv'
  <2>1. /\ targets' = targets /\ round' = round
        /\ DOMAIN exhausted' = Readers /\ DOMAIN exhausted = Readers
    BY <1>3 DEF AdvanceTarget, Reserve, RowsInv
  <2>2. ASSUME NEW h \in Readers, Len(targets'[h]) > 1, FirstRound(targets[h])'
        PROVE  /\ RowsApart(targets[h])' /\ ReadsApart(targets[h])'
               /\ NoneDropped(targets[h])' /\ ExhaustedBehind(targets[h])'
    <3>1. PICK ts : ts = targets[h] /\ ts = targets[f] /\ ts = targets'[h]
      BY <2>1 DEF TargetTypes
    <3>2. FirstRound(targets[h])
      BY <2>1, <2>2 DEF FirstRound
    <3>3. RowsApart(ts) /\ ReadsApart(ts) /\ NoneDropped(ts) /\ ExhaustedBehind(ts)
      BY <2>1, <2>2, <3>1, <3>2 DEF RowsInv
    <3>4. RowsApart(ts)' /\ ReadsApart(ts)' /\ NoneDropped(ts)' /\ ExhaustedBehind(ts)'
      BY <1>3, <2>1, <3>1, <3>3, AdvanceRows
    <3>5. /\ RowsApart(targets[h])' /\ ReadsApart(targets[h])'
      BY <3>1, <3>4 DEF RowsApart, ReadsApart
    <3>6. /\ NoneDropped(targets[h])' /\ ExhaustedBehind(targets[h])'
      BY <3>1, <3>4 DEF NoneDropped, ExhaustedBehind
    <3> QED BY <3>5, <3>6
  <2> QED BY <2>1, <2>2 DEF RowsInv
<1>4. ASSUME NEW f \in Readers, CursorStep(f) PROVE RowsInv'
  <2>1. CASE NewCursors(f)
    BY <2>1, FreshRows
  <2>2. ASSUME NEW s \in Sources, NEW demand \in Demands, ReserveOrdinalBatch(f, s, demand)
        PROVE  RowsInv'
    BY <2>2, LeaseRows
  <2> QED BY <1>3, <1>4, <2>1, <2>2 DEF CursorStep
<1>5. ASSUME NEW f \in Executors, ExecutorStep(f) PROVE RowsInv'
  <2>1. UNCHANGED <<rangeVars, targets, at, last_items, exhausted, rows>>
    BY <1>5 DEF ExecutorStep, BeginLease, ProcessElsewhere, ForceScalarRecovery, SetBroadcast,
                DrainInto, cursorVars
  <2> QED BY <2>1, SameRows
<1> QED BY <1>1, <1>2, <1>4, <1>5 DEF Next

\* A set of positions that is not empty has a last one.
LEMMA LastOf ==
    ASSUME NEW n \in Nat, NEW S, S \subseteq 1 .. n, S # {}
    PROVE  \E t \in S : \A i \in S : i <= t
<1> DEFINE T == {n - i : i \in S}
<1>1. T \subseteq Nat /\ T # {}
  <2>1. \A i \in S : n - i \in Nat
    OBVIOUS
  <2>2. PICK i \in S : TRUE
    OBVIOUS
  <2>3. n - i \in T
    OBVIOUS
  <2> QED BY <2>1, <2>3
<1>2. PICK m \in T : \A k \in T : ~(k < m)
  <2> HIDE DEF T
  <2> QED BY <1>1, LeastNumber
<1>3. PICK t \in S : m = n - t
  OBVIOUS
<1>4. \A i \in S : ~(n - i < n - t)
  BY <1>2, <1>3
<1>5. t \in 1 .. n
  OBVIOUS
<1>6. \A i \in S : i <= t
  BY <1>4, <1>5
<1> QED BY <1>6

\* The rows are no more than the ordinals of a target, and as many as those it
\* has when each of them is in a row.
LEMMA RowsPerTarget ==
    ASSUME IInv, TargetTypes, NEW f \in Readers, RowsApart(targets[f]),
           NEW i \in DOMAIN targets[f]
    PROVE  LET s == targets[f][i] IN
           /\ Cardinality(rows) <= End[s] - Start[s]
           /\ Spent(s) /\ (\A o \in Handed(s) : \E row \in rows : row[2][i] = o)
                => Cardinality(rows) = End[s] - Start[s]
<1> DEFINE s == targets[f][i]
           m == [row \in rows |-> row[2][i]]
<1>1. s \in Sources
  BY DEF TargetTypes
<1> HIDE DEF s
<1>2. /\ Handed(s) = Start[s] .. (Frontier(s) - 1) /\ Frontier(s) \in Nat
      /\ Start[s] \in Nat /\ End[s] \in Nat /\ cursor[s] \in Nat
      /\ Start[s] <= cursor[s] /\ Start[s] <= End[s]
  BY <1>1, HandedOut
<1>3. Frontier(s) <= End[s] /\ Start[s] <= Frontier(s) /\ (Spent(s) => Frontier(s) = End[s])
  BY <1>2 DEF Frontier, Spent
<1>4. IsFiniteSet(Handed(s)) /\ Cardinality(Handed(s)) = Frontier(s) - Start[s]
  <2>1. IsFiniteSet(Start[s] .. (Frontier(s) - 1))
        /\ Cardinality(Start[s] .. (Frontier(s) - 1)) =
             IF Start[s] > Frontier(s) - 1 THEN 0 ELSE (Frontier(s) - 1) - Start[s] + 1
    BY <1>2, FS_Interval
  <2> QED BY <1>2, <1>3, <2>1
<1>5. m \in Injection(rows, Handed(s))
  BY DEF Injection, IsInjective, RowsApart, s
<1>6. /\ IsFiniteSet(rows) /\ Cardinality(rows) <= Cardinality(Handed(s))
      /\ Cardinality(rows) = Cardinality(Handed(s)) <=> m \in Surjection(rows, Handed(s))
  BY <1>4, <1>5, FS_Injection
<1>7. Cardinality(rows) \in Nat
  BY <1>6, FS_CardinalityType
<1>8. Cardinality(rows) <= End[s] - Start[s]
  BY <1>2, <1>3, <1>4, <1>6, <1>7
<1>9. ASSUME Spent(s), \A o \in Handed(s) : \E row \in rows : row[2][i] = o
      PROVE  Cardinality(rows) = End[s] - Start[s]
  <2>1. m \in Surjection(rows, Handed(s))
    BY <1>5, <1>9 DEF Surjection, Injection
  <2> QED BY <1>3, <1>4, <1>6, <1>9, <2>1
<1> QED BY <1>8, <1>9 DEF s

\* When every fiber has found a target exhausted, the rows are the ordinals of the
\* last target that is spent.
LEMMA RowsShow ==
    ASSUME IInv, LeaseTypes, TargetTypes, RowsInv
    PROVE  RowsMeetTheExtent
<1> SUFFICES ASSUME NEW f \in Readers, Len(targets[f]) > 1,
                    \A g \in Readers : exhausted[g],
                    \A s \in ToSet(targets[f]) : round[s] = 1
             PROVE  Cardinality(rows) = Extent(f)
  BY DEF RowsMeetTheExtent
<1> DEFINE ts == targets[f]
           n == Len(ts)
           spent == {i \in DOMAIN ts : Spent(ts[i])}
           size(i) == End[ts[i]] - Start[ts[i]]
<1>1. FirstRound(ts)
  BY DEF FirstRound, ToSet
<1>2. /\ RowsApart(ts) /\ ReadsApart(ts) /\ NoneDropped(ts) /\ ExhaustedBehind(ts)
  BY <1>1 DEF RowsInv
<1>3. /\ n \in Nat /\ DOMAIN ts = 1 .. n
      /\ \A i \in DOMAIN ts : ts[i] \in Sources
      /\ \A g \in Readers : at[g] \in Nat
  BY DEF TargetTypes
<1>4. \A g \in Readers : \E t \in spent : at[g] <= t
  BY <1>2 DEF ExhaustedBehind
<1>5. PICK t \in spent : \A i \in spent : i <= t
  <2>1. spent \subseteq 1 .. n /\ spent # {}
    BY <1>3, <1>4
  <2> HIDE DEF spent, n
  <2> QED BY <1>3, <2>1, LastOf
<1>6. \A g \in Readers : ~(t < at[g])
  <2> TAKE g \in Readers
  <2>1. PICK k \in spent : at[g] <= k
    BY <1>4
  <2>2. k <= t /\ k \in Nat /\ t \in Nat
    BY <1>3, <1>5
  <2> QED BY <1>3, <2>1, <2>2
<1>7. \A j \in DOMAIN ts : j > t => ~Spent(ts[j])
  <2> SUFFICES ASSUME NEW j \in DOMAIN ts, j > t, Spent(ts[j]) PROVE FALSE
    OBVIOUS
  <2>1. j <= t /\ j \in Nat /\ t \in Nat
    BY <1>3, <1>5
  <2> QED BY <2>1
<1>8. \A o \in Handed(ts[t]) : \E row \in rows : row[2][t] = o
  BY <1>2, <1>6, <1>7 DEF NoneDropped
<1>9. Cardinality(rows) = size(t) /\ \A i \in DOMAIN ts : Cardinality(rows) <= size(i)
  BY <1>2, <1>8, RowsPerTarget
<1>10. Extent(f) = Min({size(i) : i \in DOMAIN ts})
  BY DEF Extent
<1>11. \A i \in DOMAIN ts : size(i) \in Int
  <2> TAKE i \in DOMAIN ts
  <2>1. End[ts[i]] \in Nat /\ Start[ts[i]] \in Nat
    BY <1>3, HandedOut
  <2> QED BY <2>1
<1> DEFINE S == {size(i) : i \in DOMAIN ts}
           c == Cardinality(rows)
<1>12. c \in S /\ (\A x \in S : c <= x) /\ \A x \in S : x \in Int
  BY <1>9, <1>11
<1> HIDE DEF S, c
<1>13. Min(S) = c
  <2>1. Min(S) \in S /\ \A y \in S : Min(S) <= y
    BY <1>12 DEF Min
  <2> QED BY <1>12, <2>1
<1> QED BY <1>10, <1>13 DEF S, c

\* Once every fiber has found one of the cursors exhausted, the rows completed are
\* as many as the extent the set reports (`advance`, `extent`), for any number of
\* cursors and fibers and any interleaving of their reservations.
THEOREM RowsCounted ==
    ASSUME Wraps = FALSE
    PROVE  Spec => []RowsMeetTheExtent
<1> DEFINE Inv == IInv /\ LeaseTypes /\ ExecutorTypes /\ StreamInv /\ TargetTypes /\ RowsInv
<1>1. Init => Inv
  BY InitIInv, InitStream, InitTargets, InitRows DEF Init, CursorsInit
<1>2. Inv /\ [Next]_vars => Inv'
  BY NextIInv, NextStream, NextTargets, NextRows
<1>3. Inv => RowsMeetTheExtent
  BY RowsShow
<1> QED BY <1>1, <1>2, <1>3, PTL DEF Spec

=============================================================================
