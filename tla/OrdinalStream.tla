--------------------------- MODULE OrdinalStream ---------------------------
(***************************************************************************)
(* `OrdinalSimdStream` (iteration/simd_ordinal.rs): one ordered consumer   *)
(* drains the values of a leased range of ordinals, computed a packet of   *)
(* `Lanes` at a time, while what the values depend on changes and the      *)
(* process crashes, inside a call or between two, and resumes from a       *)
(* checkpoint.  A value stands for what the pipeline computes from an      *)
(* ordinal and the state of its dependencies.                              *)
(***************************************************************************)
EXTENDS Naturals, Sequences

CONSTANTS
    Lanes,          \* lanes of a packet
    Leases,         \* the leases explored: records lo, hi
    DependencyEpochs,  \* the states of the dependencies
    FragmentPolicies,  \* the policies explored: Scalarize, PadAndVectorize
    Bursts,         \* the sizes of a consumer's buffer
    None

ASSUME LanesAssumption == Lanes \in Nat \ {0}
ASSUME LeasesAssumption == Leases \subseteq {l \in [lo : Nat, hi : Nat] : l.lo <= l.hi}
ASSUME BurstsAssumption == Bursts \subseteq Nat

VARIABLES
    lease,             \* the ordinals owned, lo .. hi - 1
    fragment_policy,   \* how a packet owned in part is evaluated
    dependency_epoch,  \* the dependency epoch
    next_ordinal,      \* the consumer's frontier
    ready,             \* the packets in the register: one, or none
    left,              \* the room left in the buffer of the call in progress
    output,            \* the values the consumer took: records value, epoch
    saved,             \* the checkpoint the host stored last, or None
    evaluated,         \* <<ordinal, epoch>> evaluated since the register was reset
    repeated           \* whether one of them was evaluated again

vars == <<lease, fragment_policy, dependency_epoch, next_ordinal, ready, left, output,
          saved, evaluated, repeated>>

\* `new`, then `with_fragment_policy`.
Init ==
    /\ lease \in Leases
    /\ fragment_policy \in FragmentPolicies
    /\ dependency_epoch \in DependencyEpochs
    /\ next_ordinal = lease.lo
    /\ ready = {}
    /\ left = 0
    /\ output = <<>>
    /\ saved = None
    /\ evaluated = {}
    /\ repeated = FALSE

Owned(ordinal) == lease.lo <= ordinal /\ ordinal < lease.hi

\* `packet_base`, `valid_mask`.
PacketBase(ordinal) == ordinal - (ordinal % Lanes)
ValidMask(base) == {n \in 0 .. (Lanes - 1) : Owned(base + n)}

\* `OrdinalPacketStamp::contains`.
StampContains(packet, ordinal) ==
    ordinal >= packet.base /\ ordinal - packet.base \in packet.valid

\* Whether the packet goes through the vector pipeline.
Vectorizes(valid) ==
    valid = 0 .. (Lanes - 1) \/ fragment_policy = "PadAndVectorize"

\* The lanes a packet is evaluated in.
ComputedLanes(valid) == IF Vectorizes(valid) THEN 0 .. (Lanes - 1) ELSE valid

\* The guard of `ensure_ready`: the packet in the register serves the frontier.
IsReady(packet, ordinal) ==
    /\ StampContains(packet, ordinal)
    /\ packet.epoch = dependency_epoch

\* `ensure_ready`, when it materializes a packet.
NewPacket(ordinal) ==
    LET base == PacketBase(ordinal)
        valid == ValidMask(base)
    IN [base |-> base, valid |-> valid, epoch |-> dependency_epoch,
        lanes |-> [n \in 0 .. (Lanes - 1) |->
                     IF n \in ComputedLanes(valid) THEN <<base + n, dependency_epoch>> ELSE None]]

Min2(a, b) == IF a < b THEN a ELSE b

\* Mutant of DrainInto: the register does not outlive the call.
DrainIntoAfresh(n) ==
    /\ left = 0 /\ next_ordinal < lease.hi
    /\ left' = Min2(n, lease.hi - next_ordinal)
    /\ ready' = {}
    /\ UNCHANGED <<lease, fragment_policy, dependency_epoch, next_ordinal, output,
                   saved, evaluated, repeated>>

\* `drain_into` a buffer of n values, which may be more than the lease has left.
DrainInto(n) ==
    /\ left = 0 /\ next_ordinal < lease.hi
    /\ left' = Min2(n, lease.hi - next_ordinal)
    /\ UNCHANGED <<lease, fragment_policy, dependency_epoch, next_ordinal, ready, output,
                   saved, evaluated, repeated>>

\* Mutant of Lane: the lane is counted from the lease's start.
LaneFromStart(packet) == (next_ordinal - lease.lo) % Lanes

\* The frontier's lane of its packet.
Lane(packet) == next_ordinal - packet.base

\* What the register keeps of a packet once the frontier has moved to next.
Kept(packet, next) ==
    IF next >= packet.base + Lanes \/ next >= lease.hi THEN {} ELSE {packet}

\* Take the frontier's value from a packet.
Take(packet) ==
    /\ output' = Append(output, [value |-> packet.lanes[Lane(packet)],
                                 epoch |-> dependency_epoch])
    /\ next_ordinal' = next_ordinal + 1
    /\ ready' = Kept(packet, next_ordinal + 1)
    /\ left' = left - 1
    /\ UNCHANGED <<lease, fragment_policy, dependency_epoch, saved>>

\* One turn of its loop, with the packet in the register.
DrainReady ==
    /\ left > 0
    /\ \E packet \in ready : IsReady(packet, next_ordinal) /\ Take(packet)
    /\ UNCHANGED <<evaluated, repeated>>

\* One turn of its loop that materializes the frontier's packet.
DrainFresh ==
    LET packet == NewPacket(next_ordinal)
        computed == {packet.lanes[n] : n \in ComputedLanes(packet.valid)}
    IN
    /\ left > 0 /\ \A held \in ready : ~IsReady(held, next_ordinal)
    /\ Take(packet)
    /\ evaluated' = evaluated \cup computed
    /\ repeated' = (repeated \/ evaluated \cap computed # {})

\* `invalidate_dependency_epoch`, when the dependencies change.
InvalidateDependencyEpoch(epoch) ==
    /\ left = 0 /\ epoch # dependency_epoch
    /\ dependency_epoch' = epoch
    /\ ready' = {}
    /\ evaluated' = {}
    /\ UNCHANGED <<lease, fragment_policy, next_ordinal, left, output, saved, repeated>>

\* `checkpoint`, stored by the host with what the consumer has taken.
Checkpoint ==
    /\ left = 0
    /\ saved' = [epoch |-> dependency_epoch, next |-> next_ordinal]
    /\ UNCHANGED <<lease, fragment_policy, dependency_epoch, next_ordinal, ready,
                   left, output, evaluated, repeated>>

\* Whether `restore_checkpoint` accepts the stored checkpoint.
Restores(epoch) == saved # None /\ saved.epoch = epoch

\* The values the consumer keeps: those taken before a frontier.
KeptUpTo(next) == SubSeq(output, 1, next - lease.lo)

\* `restore_checkpoint` on the running stream: the frontier goes back, and the
\* host drops what the consumer took after the checkpoint.
RestoreCheckpoint ==
    /\ left = 0 /\ Restores(dependency_epoch)
    /\ next_ordinal' = saved.next
    /\ output' = KeptUpTo(saved.next)
    /\ ready' = {}
    /\ evaluated' = {}
    /\ UNCHANGED <<lease, fragment_policy, dependency_epoch, saved, left, repeated>>

\* The process ends, inside a call or not, and a new one opens a stream on the
\* same lease, under the dependencies it finds, and restores the checkpoint;
\* refused, the host starts the lease over, and forgets the checkpoint.
Restart(epoch) ==
    LET from == IF Restores(epoch) THEN saved.next ELSE lease.lo IN
    /\ dependency_epoch' = epoch
    /\ next_ordinal' = from
    /\ output' = KeptUpTo(from)
    /\ ready' = {}
    /\ left' = 0
    /\ evaluated' = {}
    /\ saved' = IF Restores(epoch) THEN saved ELSE None
    /\ UNCHANGED <<lease, fragment_policy, repeated>>

Next ==
    \/ \E n \in Bursts : DrainInto(n)
    \/ DrainReady
    \/ DrainFresh
    \/ \E epoch \in DependencyEpochs : InvalidateDependencyEpoch(epoch) \/ Restart(epoch)
    \/ Checkpoint
    \/ RestoreCheckpoint

Spec == Init /\ [][Next]_vars

-----------------------------------------------------------------------------

\* The consumer has taken the lease's values up to the frontier, in order,
\* none missing and none twice, and each is what the pipeline computes under
\* the dependencies in force when it was taken: through bursts, invalidations,
\* rollbacks, crashes and fragments of either policy.
OutputIsTheLease ==
    /\ Len(output) = next_ordinal - lease.lo
    /\ \A i \in DOMAIN output :
         output[i].value = <<lease.lo + i - 1, output[i].epoch>>

\* Under the safe policy no ordinal outside the lease is evaluated, and none is
\* evaluated again while the register holds it: a packet outlives the call that
\* left it partly drained.
OwnedLanesAreEvaluatedOnce ==
    /\ ~repeated
    /\ fragment_policy = "Scalarize" => \A v \in evaluated : Owned(v[1])

=============================================================================
