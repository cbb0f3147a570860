------------------------ MODULE OrdinalStream_proofs ------------------------
(***************************************************************************)
(* Theorems about OrdinalStream, for any lane count, leases, burst sizes,  *)
(* dependency epochs and crashes: the consumer takes the lease's values in *)
(* order, and no lane is evaluated twice.                                  *)
(*                                                                         *)
(* Neither property is inductive.  What carries the first is that the      *)
(* packet in the register was computed under the dependencies in force and *)
(* holds the frontier's lane; what carries the second is that the register *)
(* is only ever empty at a packet's boundary, or when nothing was          *)
(* evaluated since it was reset.                                           *)
(***************************************************************************)
EXTENDS OrdinalStream, Integers, TLAPS

Values == [value : Nat \X DependencyEpochs, epoch : DependencyEpochs]

FrontierInv ==
    /\ lease \in [lo : Nat, hi : Nat] /\ lease.lo <= lease.hi
    /\ dependency_epoch \in DependencyEpochs
    /\ next_ordinal \in Nat /\ lease.lo <= next_ordinal
    /\ left \in Nat /\ next_ordinal + left <= lease.hi
    /\ saved # None =>
         saved.next \in Nat /\ lease.lo <= saved.next /\ saved.next <= next_ordinal

OutputInv ==
    /\ output \in Seq(Values)
    /\ OutputIsTheLease

\* A packet as `ensure_ready` builds it, that holds the frontier.
Serves(packet, ordinal) ==
    /\ packet.base \in Nat /\ packet.base % Lanes = 0
    /\ packet.base <= ordinal /\ ordinal < packet.base + Lanes
    /\ packet.valid = ValidMask(packet.base)
    /\ packet.epoch = dependency_epoch
    /\ \A n \in packet.valid : packet.lanes[n] = <<packet.base + n, dependency_epoch>>

RegisterInv ==
    \A packet \in ready : Serves(packet, next_ordinal) /\ next_ordinal < lease.hi

EvaluatedInv ==
    /\ repeated = FALSE
    /\ \A v \in evaluated : v[1] \in Nat
    /\ fragment_policy = "Scalarize" => \A v \in evaluated : Owned(v[1])
    /\ \A packet \in ready : \A v \in evaluated : v[1] < packet.base + Lanes
    /\ ready = {} /\ next_ordinal < lease.hi /\ evaluated # {} =>
         /\ next_ordinal % Lanes = 0
         /\ \A v \in evaluated : v[1] < next_ordinal

IInv == FrontierInv /\ OutputInv /\ RegisterInv /\ EvaluatedInv

-----------------------------------------------------------------------------

\* `packet_base` (simd_ordinal.rs): an ordinal is its packet's number times the
\* lanes, and its lane.
LEMMA Division ==
    ASSUME NEW o \in Nat
    PROVE  /\ o = (o \div Lanes) * Lanes + (o % Lanes)
           /\ o \div Lanes \in Nat /\ o % Lanes \in 0 .. (Lanes - 1)
BY LanesAssumption, SMT

\* A whole number of packets begins at a lane 0 (`packet_base`).
LEMMA Multiple ==
    ASSUME NEW q \in Nat
    PROVE  (q * Lanes) % Lanes = 0
<1>1. q * Lanes \in Nat /\ (q * Lanes) \div Lanes = q
  BY LanesAssumption, SMT
<1> QED BY <1>1, Division, LanesAssumption

\* The packet after an aligned one is aligned (`packet_base`).
LEMMA NextPacketIsAligned ==
    ASSUME NEW o \in Nat, o % Lanes = 0
    PROVE  (o + Lanes) % Lanes = 0
<1> DEFINE q == o \div Lanes
<1>1. o = q * Lanes /\ q \in Nat
  BY Division, LanesAssumption
<1>2. o + Lanes = (q + 1) * Lanes /\ q + 1 \in Nat
  BY <1>1, LanesAssumption
<1> HIDE DEF q
<1>3. ((q + 1) * Lanes) % Lanes = 0
  BY <1>2, Multiple
<1> QED BY <1>2, <1>3, Zenon

\* A packet's base is aligned and within a packet of the ordinal (`packet_base`).
LEMMA BaseOfPacket ==
    ASSUME NEW o \in Nat
    PROVE  /\ PacketBase(o) \in Nat /\ PacketBase(o) % Lanes = 0
           /\ PacketBase(o) <= o /\ o < PacketBase(o) + Lanes
           /\ o % Lanes = 0 => PacketBase(o) = o
<1> DEFINE q == o \div Lanes
           lane == o % Lanes
<1>1. o = q * Lanes + lane /\ q \in Nat /\ lane \in 0 .. (Lanes - 1)
  BY Division
<1>2. PacketBase(o) = o - lane
  BY DEF PacketBase
<1> HIDE DEF q, lane
<1>3. q * Lanes \in Nat
  BY <1>1, LanesAssumption
<1>4. PacketBase(o) = q * Lanes
  BY <1>1, <1>2, <1>3, LanesAssumption
<1>5. PacketBase(o) % Lanes = 0
  BY <1>1, <1>4, Multiple
<1>6. lane = 0 => PacketBase(o) = o
  BY <1>1, <1>2
<1> QED BY <1>1, <1>3, <1>4, <1>5, <1>6, LanesAssumption DEF lane

\* What `ensure_ready` materializes serves the frontier, and holds its lane.
LEMMA NewPacketServes ==
    ASSUME FrontierInv, left > 0
    PROVE  Serves(NewPacket(next_ordinal), next_ordinal)
<1> DEFINE packet == NewPacket(next_ordinal)
<1>1. /\ packet.base = PacketBase(next_ordinal) /\ packet.valid = ValidMask(packet.base)
      /\ packet.epoch = dependency_epoch
  BY DEF NewPacket
<1>2. /\ packet.base \in Nat /\ packet.base % Lanes = 0
      /\ packet.base <= next_ordinal /\ next_ordinal < packet.base + Lanes
  BY <1>1, BaseOfPacket DEF FrontierInv
<1>3. packet.valid \subseteq 0 .. (Lanes - 1) /\ packet.valid \subseteq ComputedLanes(packet.valid)
  BY <1>1 DEF ValidMask, ComputedLanes
<1>4. \A n \in packet.valid : packet.lanes[n] = <<packet.base + n, dependency_epoch>>
  BY <1>1, <1>3 DEF NewPacket
<1> HIDE DEF packet
<1> QED BY <1>1, <1>2, <1>4 DEF Serves, packet

\* The frontier's lane of a packet that serves it (`drain_into`).
LEMMA LaneIsValid ==
    ASSUME FrontierInv, left > 0, NEW packet, Serves(packet, next_ordinal)
    PROVE  /\ Lane(packet) \in packet.valid
           /\ packet.lanes[Lane(packet)] = <<next_ordinal, dependency_epoch>>
<1>1. Lane(packet) \in 0 .. (Lanes - 1) /\ packet.base + Lane(packet) = next_ordinal
  BY LanesAssumption DEF Serves, FrontierInv, Lane
<1>2. Owned(next_ordinal)
  BY DEF FrontierInv, Owned
<1> QED BY <1>1, <1>2 DEF Serves, ValidMask

\* Keeping the values before a frontier keeps them right (`restore_checkpoint`).
LEMMA KeptOutput ==
    ASSUME IInv, NEW next \in Nat, lease.lo <= next, next <= next_ordinal
    PROVE  /\ KeptUpTo(next) \in Seq(Values)
           /\ Len(KeptUpTo(next)) = next - lease.lo
           /\ \A i \in 1 .. (next - lease.lo) :
                KeptUpTo(next)[i].value = <<lease.lo + i - 1, KeptUpTo(next)[i].epoch>>
<1>1. Len(output) = next_ordinal - lease.lo /\ output \in Seq(Values)
  BY DEF IInv, OutputInv, OutputIsTheLease
<1>2. next - lease.lo \in 0 .. Len(output)
  BY <1>1 DEF IInv, FrontierInv
<1>3. /\ KeptUpTo(next) \in Seq(Values)
      /\ Len(KeptUpTo(next)) = next - lease.lo
      /\ \A i \in 1 .. (next - lease.lo) : KeptUpTo(next)[i] = output[i]
  BY <1>1, <1>2 DEF KeptUpTo
<1>4. \A i \in 1 .. (next - lease.lo) : i \in DOMAIN output
  BY <1>1, <1>2
<1> QED BY <1>3, <1>4 DEF IInv, OutputInv, OutputIsTheLease

\* One turn of `drain_into`'s loop, with either packet.
LEMMA TakeStep ==
    ASSUME IInv, left > 0, NEW packet, Serves(packet, next_ordinal), Take(packet)
    PROVE  FrontierInv' /\ OutputInv' /\ RegisterInv'
<1>1. FrontierInv'
  BY DEF Take, IInv, FrontierInv
<1>2. OutputInv'
  <2> DEFINE taken == [value |-> packet.lanes[Lane(packet)], epoch |-> dependency_epoch]
  <2>1. taken.value = <<next_ordinal, dependency_epoch>> /\ taken.epoch = dependency_epoch
    BY LaneIsValid DEF IInv
  <2>2. taken \in Values
    <3>1. <<next_ordinal, dependency_epoch>> \in Nat \X DependencyEpochs
      BY DEF IInv, FrontierInv
    <3>2. packet.lanes[Lane(packet)] \in Nat \X DependencyEpochs
      BY <2>1, <3>1, Zenon
    <3>3. dependency_epoch \in DependencyEpochs
      BY DEF IInv, FrontierInv
    <3> QED BY <3>2, <3>3 DEF Values
  <2>3. output \in Seq(Values) /\ output' = Append(output, taken)
    BY DEF IInv, OutputInv, Take
  <2> HIDE DEF taken
  <2>4. /\ output' \in Seq(Values) /\ Len(output') = Len(output) + 1
        /\ \A i \in 1 .. Len(output) : output'[i] = output[i]
        /\ output'[Len(output) + 1] = taken
    BY <2>2, <2>3
  <2>5. Len(output) = next_ordinal - lease.lo
    BY DEF IInv, OutputInv, OutputIsTheLease
  <2>6. Len(output') = next_ordinal' - lease'.lo
    BY <2>4, <2>5 DEF Take, IInv, FrontierInv
  <2>7. ASSUME NEW i \in DOMAIN output'
        PROVE output'[i].value = <<lease'.lo + i - 1, output'[i].epoch>>
    <3>1. i \in 1 .. Len(output) \/ i = Len(output) + 1
      BY <2>3, <2>4
    <3>2. CASE i \in 1 .. Len(output)
      BY <2>4, <3>2 DEF IInv, OutputInv, OutputIsTheLease, Take
    <3>3. CASE i = Len(output) + 1
      <4>1. lease'.lo + i - 1 = next_ordinal
        BY <2>5, <3>3 DEF Take, IInv, FrontierInv
      <4> QED BY <2>1, <2>4, <3>3, <4>1
    <3> QED BY <3>1, <3>2, <3>3
  <2> QED BY <2>4, <2>6, <2>7 DEF OutputInv, OutputIsTheLease
<1>3. RegisterInv'
  <2> SUFFICES ASSUME ready' = {packet}
               PROVE Serves(packet, next_ordinal)' /\ next_ordinal' < lease'.hi
    BY DEF RegisterInv, Serves, ValidMask, Owned, Take, Kept
  <2>1. /\ next_ordinal' = next_ordinal + 1
        /\ ~(next_ordinal + 1 >= packet.base + Lanes) /\ ~(next_ordinal + 1 >= lease.hi)
    BY DEF Take, Kept
  <2> QED BY <2>1, LanesAssumption DEF Serves, ValidMask, Owned, Take, IInv, FrontierInv
<1> QED BY <1>1, <1>2, <1>3

\* The register gives a packet up, before the lease's end, only when the frontier
\* leaves it, for the next one's first lane (`drain_into`).
LEMMA SpentPacket ==
    ASSUME IInv, left > 0, NEW packet, Serves(packet, next_ordinal), Take(packet),
           ready' = {}, next_ordinal' < lease'.hi
    PROVE  next_ordinal' = packet.base + Lanes /\ next_ordinal' % Lanes = 0
<1>1. next_ordinal' = packet.base + Lanes
  <2>1. /\ next_ordinal' = next_ordinal + 1 /\ lease' = lease
        /\ next_ordinal + 1 >= packet.base + Lanes \/ next_ordinal + 1 >= lease.hi
    BY DEF Take, Kept
  <2>2. /\ packet.base \in Nat /\ next_ordinal < packet.base + Lanes
        /\ next_ordinal \in Nat /\ lease.hi \in Nat
    BY DEF Serves, IInv, FrontierInv
  <2> QED BY <2>1, <2>2, LanesAssumption
<1>2. (packet.base + Lanes) % Lanes = 0
  BY NextPacketIsAligned DEF Serves
<1> QED BY <1>1, <1>2, Zenon

\* A turn that uses the packet in the register (`drain_into`, `ensure_ready`'s
\* early return).
LEMMA DrainReadyStep == IInv /\ DrainReady => IInv'
<1> SUFFICES ASSUME IInv, DrainReady PROVE IInv'
  OBVIOUS
<1>1. PICK packet \in ready : IsReady(packet, next_ordinal) /\ Take(packet)
  BY DEF DrainReady
<1>2. left > 0 /\ Serves(packet, next_ordinal)
  BY <1>1 DEF DrainReady, IInv, RegisterInv
<1>3. FrontierInv' /\ OutputInv' /\ RegisterInv'
  BY <1>1, <1>2, TakeStep
<1>4. EvaluatedInv'
  <2>1. /\ evaluated' = evaluated /\ repeated' = FALSE
        /\ fragment_policy' = fragment_policy /\ lease' = lease
    BY <1>1 DEF DrainReady, Take, IInv, EvaluatedInv
  <2>2. \A v \in evaluated : v[1] \in Nat /\ v[1] < packet.base + Lanes
    BY <1>1 DEF IInv, EvaluatedInv
  <2>3. \A p \in ready' : \A v \in evaluated' : v[1] < p.base + Lanes
    BY <2>1, <2>2, <1>1 DEF Take, Kept
  <2>4. ASSUME ready' = {}, next_ordinal' < lease'.hi
        PROVE next_ordinal' % Lanes = 0 /\ \A v \in evaluated' : v[1] < next_ordinal'
    BY <1>1, <1>2, <2>1, <2>2, <2>4, SpentPacket
  <2>5. fragment_policy' = "Scalarize" => \A v \in evaluated' : Owned(v[1])'
    BY <2>1 DEF IInv, EvaluatedInv, Owned
  <2> QED BY <2>1, <2>2, <2>3, <2>4, <2>5 DEF EvaluatedInv
<1> QED BY <1>3, <1>4 DEF IInv

\* A turn that materializes a packet (`drain_into`, `ensure_ready`).
LEMMA DrainFreshStep == IInv /\ DrainFresh => IInv'
<1> SUFFICES ASSUME IInv, DrainFresh PROVE IInv'
  OBVIOUS
<1> DEFINE packet == NewPacket(next_ordinal)
           computed == {packet.lanes[n] : n \in ComputedLanes(packet.valid)}
<1>1. /\ left > 0 /\ Take(packet)
      /\ evaluated' = evaluated \cup computed
      /\ repeated' = (repeated \/ evaluated \cap computed # {})
  BY DEF DrainFresh
<1>2. Serves(packet, next_ordinal)
  BY <1>1, NewPacketServes DEF IInv
<1>3. ready = {}
  <2> SUFFICES ASSUME NEW held \in ready PROVE FALSE
    OBVIOUS
  <2>1. Serves(held, next_ordinal) /\ ~IsReady(held, next_ordinal)
    BY <1>1 DEF DrainFresh, IInv, RegisterInv
  <2>2. next_ordinal - held.base \in held.valid
    BY <1>1, <2>1, LaneIsValid DEF IInv, Lane
  <2> QED BY <2>1, <2>2 DEF IsReady, StampContains, Serves, IInv, FrontierInv
<1>4. next_ordinal \in Nat /\ next_ordinal < lease.hi /\ lease.hi \in Nat /\ lease.lo \in Nat
  BY <1>1 DEF IInv, FrontierInv
<1>5. FrontierInv' /\ OutputInv' /\ RegisterInv'
  <2> HIDE DEF packet
  <2> QED BY <1>1, <1>2, TakeStep
<1>6. ASSUME NEW v \in computed
      PROVE /\ v[1] \in Nat /\ packet.base <= v[1] /\ v[1] < packet.base + Lanes
            /\ fragment_policy = "Scalarize" => Owned(v[1])
  <2>1. PICK n \in ComputedLanes(packet.valid) : v = packet.lanes[n]
    BY <1>6
  <2>2. packet.valid \subseteq 0 .. (Lanes - 1) /\ n \in 0 .. (Lanes - 1)
    BY <1>2, <2>1 DEF Serves, ValidMask, ComputedLanes
  <2>3. packet.base = PacketBase(next_ordinal) /\ packet.valid = ValidMask(packet.base)
    BY DEF NewPacket
  <2>4. v = <<packet.base + n, dependency_epoch>>
    BY <2>1, <2>2, <2>3 DEF NewPacket
  <2>5. fragment_policy = "Scalarize" => n \in packet.valid
    BY <2>1, <2>2 DEF ComputedLanes, Vectorizes
  <2>6. n \in packet.valid => Owned(packet.base + n)
    BY <2>3 DEF ValidMask
  <2> HIDE DEF packet
  <2> QED BY <1>2, <2>2, <2>4, <2>5, <2>6, LanesAssumption DEF Serves
<1>7. ASSUME NEW v \in evaluated
      PROVE v[1] \in Nat /\ v[1] < packet.base
  <2>1. next_ordinal % Lanes = 0 /\ v[1] < next_ordinal /\ v[1] \in Nat
    BY <1>3, <1>4, <1>7 DEF IInv, EvaluatedInv
  <2>2. packet.base = next_ordinal
    BY <1>4, <2>1, BaseOfPacket DEF NewPacket
  <2> QED BY <2>1, <2>2
<1> HIDE DEF computed
<1>8. evaluated \cap computed = {}
  <2> SUFFICES ASSUME NEW v \in evaluated, v \in computed PROVE FALSE
    OBVIOUS
  <2>1. v[1] \in Nat /\ v[1] < packet.base /\ packet.base <= v[1] /\ packet.base \in Nat
    BY <1>2, <1>6, <1>7 DEF Serves
  <2> HIDE DEF packet
  <2> QED BY <2>1
<1>9. EvaluatedInv'
  <2>1. repeated' = FALSE /\ fragment_policy' = fragment_policy /\ lease' = lease
    BY <1>1, <1>8 DEF Take, IInv, EvaluatedInv
  <2>2. packet.base \in Nat /\ next_ordinal < packet.base + Lanes /\ packet.base % Lanes = 0
    BY <1>2 DEF Serves
  <2> HIDE DEF packet
  <2>3. \A v \in evaluated' : v[1] \in Nat /\ v[1] < packet.base + Lanes
    BY <1>1, <1>6, <1>7, <2>2, LanesAssumption
  <2>4. fragment_policy' = "Scalarize" => \A v \in evaluated' : Owned(v[1])'
    BY <1>1, <1>6, <2>1 DEF IInv, EvaluatedInv, Owned
  <2>5. \A p \in ready' : \A v \in evaluated' : v[1] < p.base + Lanes
    BY <1>1, <2>3 DEF Take, Kept
  <2>6. ASSUME ready' = {}, next_ordinal' < lease'.hi
        PROVE next_ordinal' % Lanes = 0 /\ \A v \in evaluated' : v[1] < next_ordinal'
    <3>1. next_ordinal' = packet.base + Lanes /\ next_ordinal' % Lanes = 0
      BY <1>1, <1>2, <2>6, SpentPacket
    <3> QED BY <2>3, <3>1
  <2>7. (ready' = {} /\ next_ordinal' < lease'.hi /\ evaluated' # {}) =>
           next_ordinal' % Lanes = 0 /\ \A v \in evaluated' : v[1] < next_ordinal'
    BY <2>6
  <2>8. \A v \in evaluated' : v[1] \in Nat
    BY <2>3
  <2> QED BY <2>1, <2>4, <2>5, <2>7, <2>8, Zenon DEF EvaluatedInv
<1> QED BY <1>5, <1>9 DEF IInv

\* What a rollback leaves (`restore_checkpoint`, and a new stream): the frontier
\* goes back with the output, and nothing is in the register.
LEMMA RollBack ==
    ASSUME IInv, NEW next \in Nat, lease.lo <= next, next <= next_ordinal,
           next_ordinal' = next, output' = KeptUpTo(next), ready' = {}, evaluated' = {},
           left' = 0, lease' = lease, fragment_policy' = fragment_policy,
           repeated' = repeated, dependency_epoch' \in DependencyEpochs,
           saved' # None => saved' = saved /\ saved.next <= next
    PROVE  IInv'
<1>1. FrontierInv'
  BY DEF IInv, FrontierInv
<1>2. OutputInv'
  <2>1. /\ output' \in Seq(Values) /\ Len(output') = next - lease.lo
        /\ \A i \in 1 .. (next - lease.lo) :
             output'[i].value = <<lease.lo + i - 1, output'[i].epoch>>
    BY KeptOutput
  <2>2. DOMAIN output' = 1 .. (next - lease.lo)
    BY <2>1
  <2> QED BY <2>1, <2>2 DEF OutputInv, OutputIsTheLease
<1>3. RegisterInv' /\ EvaluatedInv'
  BY DEF RegisterInv, EvaluatedInv, IInv
<1> QED BY <1>1, <1>2, <1>3 DEF IInv

\* The initial states (`new`).
LEMMA InitIInv == Init => IInv
<1> SUFFICES ASSUME Init PROVE IInv
  OBVIOUS
<1>1. lease \in [lo : Nat, hi : Nat] /\ lease.lo <= lease.hi
  BY LeasesAssumption DEF Init
<1>2. FrontierInv
  BY <1>1 DEF Init, FrontierInv
<1>3. OutputInv
  BY <1>1 DEF Init, OutputInv, OutputIsTheLease
<1>4. RegisterInv /\ EvaluatedInv
  BY DEF Init, RegisterInv, EvaluatedInv
<1> QED BY <1>2, <1>3, <1>4 DEF IInv

\* Every step keeps the invariant: one case per action.
LEMMA NextIInv == IInv /\ [Next]_vars => IInv'
<1> SUFFICES ASSUME IInv, [Next]_vars PROVE IInv'
  OBVIOUS
<1>1. ASSUME NEW n \in Bursts, DrainInto(n) PROVE IInv'
  <2>1. n \in Nat
    BY BurstsAssumption
  <2>2. FrontierInv'
    BY <1>1, <2>1 DEF DrainInto, Min2, IInv, FrontierInv
  <2>3. OutputInv' /\ RegisterInv' /\ EvaluatedInv'
    BY <1>1 DEF DrainInto, IInv, OutputInv, OutputIsTheLease, RegisterInv, Serves,
                ValidMask, EvaluatedInv, Owned
  <2> QED BY <2>2, <2>3 DEF IInv
<1>2. CASE DrainReady
  BY <1>2, DrainReadyStep
<1>3. CASE DrainFresh
  BY <1>3, DrainFreshStep
<1>4. ASSUME NEW epoch \in DependencyEpochs, InvalidateDependencyEpoch(epoch) PROVE IInv'
  <2>1. FrontierInv'
    BY <1>4 DEF InvalidateDependencyEpoch, IInv, FrontierInv
  <2>2. OutputInv'
    BY <1>4 DEF InvalidateDependencyEpoch, IInv, OutputInv, OutputIsTheLease
  <2>3. RegisterInv' /\ EvaluatedInv'
    BY <1>4 DEF InvalidateDependencyEpoch, IInv, RegisterInv, EvaluatedInv
  <2> QED BY <2>1, <2>2, <2>3 DEF IInv
<1>5. ASSUME NEW epoch \in DependencyEpochs, Restart(epoch) PROVE IInv'
  <2> DEFINE from == IF Restores(epoch) THEN saved.next ELSE lease.lo
  <2>1. /\ from \in Nat /\ lease.lo <= from /\ from <= next_ordinal
        /\ saved' # None => saved' = saved /\ saved.next <= from
    BY <1>5 DEF Restart, Restores, IInv, FrontierInv
  <2>2. /\ next_ordinal' = from /\ output' = KeptUpTo(from) /\ ready' = {}
        /\ evaluated' = {} /\ left' = 0 /\ lease' = lease
        /\ fragment_policy' = fragment_policy /\ repeated' = repeated
        /\ dependency_epoch' \in DependencyEpochs
    BY <1>5 DEF Restart
  <2> HIDE DEF from
  <2> QED BY <2>1, <2>2, RollBack
<1>6. CASE Checkpoint
  <2>1. FrontierInv'
    BY <1>6 DEF Checkpoint, IInv, FrontierInv
  <2>2. OutputInv' /\ RegisterInv' /\ EvaluatedInv'
    BY <1>6 DEF Checkpoint, IInv, OutputInv, OutputIsTheLease, RegisterInv, Serves,
                ValidMask, EvaluatedInv, Owned
  <2> QED BY <2>1, <2>2 DEF IInv
<1>7. CASE RestoreCheckpoint
  <2>1. /\ saved.next \in Nat /\ lease.lo <= saved.next /\ saved.next <= next_ordinal
        /\ saved' # None => saved' = saved /\ saved.next <= saved.next
    BY <1>7 DEF RestoreCheckpoint, Restores, IInv, FrontierInv
  <2>2. /\ next_ordinal' = saved.next /\ output' = KeptUpTo(saved.next) /\ ready' = {}
        /\ evaluated' = {} /\ left' = 0 /\ lease' = lease
        /\ fragment_policy' = fragment_policy /\ repeated' = repeated
        /\ dependency_epoch' \in DependencyEpochs
    BY <1>7 DEF RestoreCheckpoint, IInv, FrontierInv
  <2> QED BY <2>1, <2>2, RollBack
<1>8. CASE UNCHANGED vars
  BY <1>8 DEF vars, IInv, FrontierInv, OutputInv, OutputIsTheLease, RegisterInv, Serves,
              ValidMask, EvaluatedInv, Owned
<1> QED BY <1>1, <1>2, <1>3, <1>4, <1>5, <1>6, <1>7, <1>8 DEF Next

-----------------------------------------------------------------------------

\* The consumer has taken the lease's values up to its frontier, in order, none
\* missing and none twice, each computed under the dependencies in force
\* (`drain_into`, `restore_checkpoint`, `invalidate_dependency_epoch`).
THEOREM OutputCorrect == Spec => []OutputIsTheLease
<1>1. IInv => OutputIsTheLease
  BY DEF IInv, OutputInv
<1> QED BY <1>1, InitIInv, NextIInv, PTL DEF Spec

\* No lane is evaluated twice while the register holds it, and under the safe
\* policy none outside the lease (`ensure_ready`).
THEOREM EvaluationCorrect == Spec => []OwnedLanesAreEvaluatedOnce
<1>1. IInv => OwnedLanesAreEvaluatedOnce
  BY DEF IInv, EvaluatedInv, OwnedLanesAreEvaluatedOnce
<1> QED BY <1>1, InitIInv, NextIInv, PTL DEF Spec

=============================================================================
