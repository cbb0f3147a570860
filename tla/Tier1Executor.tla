--------------------------- MODULE Tier1Executor ---------------------------
(***************************************************************************)
(* `Tier1SimdExecutor` (compile/simd_tier1.rs): each fiber evaluates the   *)
(* ordinals it leased, whole packets of `Lanes` through the vector graph   *)
(* and the rest one at a time, and drains the values in bursts of any      *)
(* size.  A value stands for what the graph computes from an ordinal and   *)
(* the broadcast input.                                                    *)
(***************************************************************************)
EXTENDS Cursors

CONSTANTS
    Executors,      \* the fibers that lease batches; the others advance
    Lanes,          \* lanes of a packet
    Broadcasts,     \* the values of the broadcast input
    Epochs,         \* activation epochs, an initial part of Nat
    Bursts          \* the sizes of a consumer's buffer

ASSUME LanesAssumption == Lanes \in Nat \ {0} /\ Bursts \subseteq Nat \ {0}
ASSUME ExecutorsAssumption == Executors \subseteq Readers
ASSUME EpochsAssumption ==
    Epochs \subseteq Nat /\ Broadcasts \subseteq Nat /\ Broadcasts # {}

\* A packet in the register: what each lane holds, and the lanes it was
\* evaluated for.
Packets ==
    [base : Nat, valid : SUBSET (0 .. (Lanes - 1)),
     lanes : [0 .. (Lanes - 1) -> (Nat \X Broadcasts) \cup {None}]]

\* `ActiveLease`.
OpenLeases ==
    [lease : Leases, epoch : Epochs, next : Nat, scalar_only : BOOLEAN,
     ready : Packets \cup {None}, k : Broadcasts]

ASSUME NoneAssumption == None \notin Nat \cup OpenLeases

VARIABLES
    active,         \* active[f]: the open lease, its frontier and packet; or None
    activation,     \* activation[f]: the epoch of the last lease; or None
    expected,       \* expected[f]: the sequence number the next lease must have
    stream,         \* stream[f]: the source of the epoch's leases; or None
    broadcast,      \* broadcast[f]: the frozen broadcast input
    drained,        \* drained[f]: the values handed out, oldest first
    elsewhere       \* elsewhere[f]: ordinals of leases the host processed itself

executorVars == <<active, activation, expected, stream, broadcast, drained, elsewhere>>
vars == <<rangeVars, cursorVars, executorVars>>

Init ==
    /\ CursorsInit
    /\ active = [f \in Readers |-> None]
    /\ activation = [f \in Readers |-> None]
    /\ expected = [f \in Readers |-> 0]
    /\ stream = [f \in Readers |-> None]
    /\ broadcast = [f \in Readers |-> Min(Broadcasts)]
    /\ drained = [f \in Readers |-> <<>>]
    /\ elsewhere = [f \in Readers |-> {}]

\* Mutant of ValidLease: accepted while a lease is open.
ValidLeaseWhileOpen(f, lease, epoch) ==
    IF activation[f] = None THEN lease.sequence = 0
    ELSE \/ epoch > activation[f] /\ lease.sequence = 0
         \/ /\ epoch = activation[f]
            /\ lease.sequence = expected[f] /\ stream[f] \in {None, lease.source}

\* `validate_lease`: none is open, the epoch does not go backwards, and the
\* leases of one epoch come in order from one source.
ValidLease(f, lease, epoch) ==
    /\ active[f] = None
    /\ \/ activation[f] = None /\ lease.sequence = 0
       \/ activation[f] # None /\ epoch > activation[f] /\ lease.sequence = 0
       \/ /\ activation[f] # None /\ epoch = activation[f]
          /\ lease.sequence = expected[f]
          /\ stream[f] \in {None, lease.source}

Open(lease, epoch, k) ==
    [lease |-> lease, epoch |-> epoch, next |-> Min(lease.range),
     scalar_only |-> FALSE, ready |-> None, k |-> k]

\* `begin_lease`, accepted; a refused lease stays with the host.
BeginLease(f, epoch) ==
    \E i \in DOMAIN held[f] :
      LET lease == held[f][i] IN
      /\ ValidLease(f, lease, epoch)
      /\ active' = [active EXCEPT ![f] = Open(lease, epoch, broadcast[f])]
      /\ activation' = [activation EXCEPT ![f] = epoch]
      /\ expected' = [expected EXCEPT ![f] = IF activation[f] = epoch THEN @ ELSE 0]
      /\ stream' = [stream EXCEPT ![f] = lease.source]
      /\ held' = [held EXCEPT ![f] = RemoveAt(@, i)]
      /\ UNCHANGED <<rangeVars, targets, at, last_items, advances, next_sequence,
                     exhausted, rows, broadcast, drained, elsewhere>>

\* The host processes a lease the executor has not taken.
ProcessElsewhere(f) ==
    \E i \in DOMAIN held[f] :
      /\ elsewhere' = [elsewhere EXCEPT ![f] =
           @ \cup {<<o, held[f][i].round>> : o \in held[f][i].range}]
      /\ held' = [held EXCEPT ![f] = RemoveAt(@, i)]
      /\ UNCHANGED <<rangeVars, targets, at, last_items, advances, next_sequence,
                     exhausted, rows, active, activation, expected, stream,
                     broadcast, drained>>

\* `force_scalar_recovery`: the packet is dropped, the frontier stays.
ForceScalarRecovery(f) ==
    /\ active[f] # None
    /\ active' = [active EXCEPT ![f].ready = None, ![f].scalar_only = TRUE]
    /\ UNCHANGED <<rangeVars, cursorVars, activation, expected, stream, broadcast,
                   drained, elsewhere>>

\* `set_broadcast`: refused while a lease is open.
SetBroadcast(f) ==
    /\ active[f] = None
    /\ broadcast' \in {[broadcast EXCEPT ![f] = k] : k \in Broadcasts}
    /\ UNCHANGED <<rangeVars, cursorVars, active, activation, expected, stream,
                   drained, elsewhere>>

-----------------------------------------------------------------------------

\* Mutant of Packet: a fragment is evaluated from the lease's first lane on.
PacketFromZero(a, k) ==
    LET base == a.next - (a.next % Lanes)
        owned == {n \in 0 .. (Lanes - 1) : base + n \in a.lease.range}
    IN [base |-> base, valid |-> owned,
        lanes |-> [n \in 0 .. (Lanes - 1) |-> <<base + Cardinality({m \in owned : m < n}), k>>]]

\* `materialize_packet`: the aligned packet at the frontier.  All of it goes
\* through the vector graph when the lease holds all of it, past the frontier,
\* and recovery is off; else only those lanes are evaluated.
Packet(a, k) ==
    LET base == a.next - (a.next % Lanes)
        valid == {n \in 0 .. (Lanes - 1) :
                    base + n \in a.lease.range /\ base + n >= a.next}
        vector == valid = 0 .. (Lanes - 1) /\ ~a.scalar_only
    IN [base |-> base, valid |-> valid,
        lanes |-> [n \in 0 .. (Lanes - 1) |->
                     IF vector \/ n \in valid THEN <<base + n, k>> ELSE None]]

\* `OrdinalPacketStamp::contains`.
StampContains(packet, ordinal) ==
    ordinal >= packet.base /\ ordinal - packet.base \in packet.valid

\* One value of `drain_into`: from the packet in the register when it holds
\* the frontier, else from the next one.
DrainOne(f, x) ==
    IF x.active = None THEN x ELSE
    LET a == x.active
        packet == IF a.ready # None /\ StampContains(a.ready, a.next) THEN a.ready
                  ELSE Packet(a, broadcast[f])
        next == a.next + 1
        done == next > Max(a.lease.range)
        value == [value |-> packet.lanes[a.next - packet.base], ordinal |-> a.next,
                  k |-> a.k, epoch |-> a.epoch, lease |-> a.lease]
    IN [active |-> IF done THEN None
                   ELSE [a EXCEPT !.next = next,
                                  !.ready = IF next >= packet.base + Lanes THEN None
                                            ELSE packet],
        drained |-> Append(x.drained, value),
        completed |-> x.completed + (IF done THEN 1 ELSE 0)]

\* n values of `drain_into`, one after another.
Burst(f, n) ==
    LET after[i \in 0 .. n] ==
          IF i = 0 THEN [active |-> active[f], drained |-> drained[f], completed |-> 0]
          ELSE DrainOne(f, after[i - 1])
    IN after[n]

\* `drain_into` with a buffer of n values; the frontier, the packet and the
\* lease's completion are the executor's, so a burst may end anywhere.
DrainInto(f, n) ==
    LET end == Burst(f, n) IN
    /\ active[f] # None
    /\ active' = [active EXCEPT ![f] = end.active]
    /\ drained' = [drained EXCEPT ![f] = end.drained]
    /\ expected' = [expected EXCEPT ![f] = @ + end.completed]
    /\ UNCHANGED <<rangeVars, cursorVars, activation, stream, broadcast, elsewhere>>

CursorStep(f) ==
    \/ \E s \in Sources : AdvanceTarget(f, s)
    \/ /\ f \in Executors
       /\ \E s \in Sources, demand \in Demands : ReserveOrdinalBatch(f, s, demand)
    \/ f \in Executors /\ NewCursors(f)

ExecutorStep(f) ==
    \/ \E epoch \in Epochs : BeginLease(f, epoch)
    \/ ProcessElsewhere(f)
    \/ ForceScalarRecovery(f)
    \/ SetBroadcast(f)
    \/ \E n \in Bursts : DrainInto(f, n)

Next ==
    \/ \E f \in Readers, s \in Sources :
         /\ s \in ToSet(targets[f])
         /\ RewindForPoll(s) /\ UNCHANGED <<cursorVars, executorVars>>
    \/ \E f \in Readers : CursorStep(f) /\ UNCHANGED executorVars
    \/ \E f \in Executors : ExecutorStep(f)

Spec == Init /\ [][Next]_vars

-----------------------------------------------------------------------------

\* Every value drained is the one the scalar graph computes for its ordinal
\* under the broadcast its lease began with; the values of a lease come in
\* order from its first ordinal on, and the leases of an epoch in the order
\* they were reserved.  Bursts, recovery and refused leases do not disturb it.
DrainedIsTheScalarStream ==
    \A f \in Readers : \A i \in DOMAIN drained[f] :
      LET d == drained[f][i] IN
      /\ d.value = <<d.ordinal, d.k>>
      /\ (i = 1 \/ drained[f][i - 1].lease # d.lease) => d.ordinal = Min(d.lease.range)
      /\ i > 1 =>
           LET c == drained[f][i - 1] IN
           \/ c.lease = d.lease /\ c.epoch = d.epoch /\ d.ordinal = c.ordinal + 1
           \/ /\ c.ordinal = Max(c.lease.range)
              /\ \/ c.epoch < d.epoch
                 \/ c.epoch = d.epoch /\ c.lease.sequence < d.lease.sequence

\* No ordinal is lost or used twice: what a fiber leased in a source's round
\* and has not handed out or processed itself is in a lease it holds.
Remaining(f) ==
    (UNION {{<<o, held[f][i].round>> : o \in held[f][i].range} : i \in DOMAIN held[f]})
      \cup (IF active[f] = None THEN {}
            ELSE {<<o, active[f].lease.round>> :
                    o \in {o \in active[f].lease.range : o >= active[f].next}})

Delivered(f) == {<<d.ordinal, d.lease.round>> : d \in ToSet(drained[f])}

Advanced(f) == {<<row[2][1], row[3]>> : row \in {row \in rows : row[1] = f}}

NoOrdinalLost ==
    \A f \in Readers : Len(targets[f]) = 1 =>
      LET s == targets[f][1] IN
      /\ Cardinality(Delivered(f)) = Len(drained[f])
      /\ Delivered(f) \cap (Remaining(f) \cup elsewhere[f] \cup Advanced(f)) = {}
      /\ (Remaining(f) \cup elsewhere[f]) \cap Advanced(f) = {}
      /\ Remaining(f) \cap elsewhere[f] = {}
      /\ {<<o, round[s]>> : o \in claimed[s][f]} =
           {x \in Delivered(f) \cup Remaining(f) \cup elsewhere[f] \cup Advanced(f) :
              x[2] = round[s]}

=============================================================================
