------------------------ MODULE CompiledKernel_proofs ------------------------
(***************************************************************************)
(* The compiled kernels, for any program, any builds, any cells and any    *)
(* sequence of writes, attaches, reads and panics.                         *)
(*                                                                         *)
(* Three arguments.  What a step owes (`DebtInv`, `OwedInv`): a write or a *)
(* refresh marks what it reaches, and only a run that completed clears the *)
(* mark.  What is current is right (`MemoInv`): a step skipped by mark, by *)
(* round or by a full evaluation has in its output the value of each       *)
(* register that reaches it, unless a refresh has changed one and the run  *)
(* has not begun.  And what the registers hold: the host's own values      *)
(* (`WantedInv`), and every write that was complete when the read began,   *)
(* whatever is published meanwhile, but for a torn slot (`StampsInv`,      *)
(* `SeenInv`, `FreshInv`).                                                 *)
(*                                                                         *)
(* A theorem that needs a hypothesis names the instance that breaks it     *)
(* without.                                                                *)
(***************************************************************************)
EXTENDS CompiledKernel, WellFoundedInduction, TLAPS

-----------------------------------------------------------------------------
(* What the recursive functions of the model are, and a program's wiring.  *)

\* The slots a source of a step brings to it.
Carried(src) == IF src \in Slots THEN {src} ELSE Provenance[src]

\* What a source of a step brings of slot s, with the outputs `new`.
Brings(new, src, s) ==
    IF src \in Slots THEN (IF src = s THEN {regs[s]} ELSE {}) ELSE new[src][s]

\* The outputs of the steps up to n once those in `steps` have run.
AreOutputs(steps, n, new) ==
    new = [i \in 1 .. n |->
             IF i \notin steps THEN outs[i]
             ELSE [s \in Slots |-> UNION {Brings(new, src, s) : src \in Sources(i)}]]

\* The cones of the steps up to n.
AreCones(n, reach) ==
    reach = [i \in 1 .. n |-> {i} \cup UNION {reach[u] : u \in Upstream(i)}]

\* The naturals in order, for arguments by a least step.
Less == {ss \in Nat \X Nat : ss[1] < ss[2]}

\* A set of naturals that is not empty has a least element.
LEMMA LeastNumber ==
    ASSUME NEW S, S \subseteq Nat, S # {}
    PROVE  \E m \in S : \A k \in S : ~(k < m)
<1>1. IsWellFoundedOn(Less, Nat)
  BY NatLessThanWellFounded, Zenon DEF OpToRel, Less
<1>2. PICK m \in S : \A k \in S : ~(<<k, m>> \in Less)
  BY <1>1, WFMin
<1> QED BY <1>2 DEF Less

\* A step reads slots and earlier steps, and its provenance is what they carry.
LEMMA Wired ==
    ASSUME NEW n \in Nodes
    PROVE  /\ \A src \in Sources(n) : src \notin Slots => src \in Nodes /\ src < n
           /\ Provenance[n] = UNION {Carried(src) : src \in Sources(n)}
<1>1. Wiring[n] \in Seq(Slots \cup Nodes)
  BY WiringAssumption
<1>2. Sources(n) \subseteq Slots \cup Nodes
  BY <1>1 DEF Sources, ToSet
<1>3. \A src \in Sources(n) \ Slots : src < n
  BY WiringAssumption
<1>4. Provenance[n] = UNION {Carried(src) : src \in Sources(n)}
  BY ProvenanceAssumption DEF Carried
<1> QED BY <1>2, <1>3, <1>4

\* Only input slots reach a step.
LEMMA ProvenanceSlots == \A n \in Nodes : Provenance[n] \subseteq Slots
<1> DEFINE Bad == {n \in Nodes : ~(Provenance[n] \subseteq Slots)}
<1>1. SUFFICES ASSUME Bad # {} PROVE FALSE
  OBVIOUS
<1>2. PICK n \in Bad : \A m \in Bad : ~(m < n)
  <2>1. Bad \subseteq Nat
    BY NodeCountAssumption DEF Nodes
  <2> HIDE DEF Bad
  <2> QED BY <1>1, <2>1, LeastNumber
<1>3. \A src \in Sources(n) : Carried(src) \subseteq Slots
  BY <1>2, Wired DEF Carried
<1> QED BY <1>2, <1>3, Wired

\* The outputs of a run exist, for any number of steps.
LEMMA OutputsExist ==
    ASSUME NEW steps, NEW n \in Nat, n <= NodeCount
    PROVE  \E new : AreOutputs(steps, n, new)
<1> DEFINE Bad == {m \in Nat : m <= NodeCount /\ ~ \E new : AreOutputs(steps, m, new)}
<1>1. SUFFICES ASSUME Bad # {} PROVE FALSE
  OBVIOUS
<1>2. PICK m \in Bad : \A k \in Bad : ~(k < m)
  <2>1. Bad \subseteq Nat
    OBVIOUS
  <2> HIDE DEF Bad
  <2> QED BY <1>1, <2>1, LeastNumber
<1>3. CASE m = 0
  <2> DEFINE new == [i \in 1 .. 0 |-> {}]
  <2>1. AreOutputs(steps, 0, new)
    BY DEF AreOutputs
  <2> QED BY <1>2, <1>3, <2>1
<1>4. CASE m > 0
  <2>1. m - 1 \in Nat /\ m - 1 < m /\ m \in Nodes /\ m - 1 <= NodeCount
    BY <1>2, <1>4, NodeCountAssumption DEF Nodes
  <2>2. PICK old : AreOutputs(steps, m - 1, old)
    BY <1>2, <2>1
  <2> DEFINE Step(new, i) ==
               IF i \notin steps THEN outs[i]
               ELSE [s \in Slots |-> UNION {Brings(new, src, s) : src \in Sources(i)}]
             new == [i \in 1 .. m |-> IF i = m THEN Step(old, m) ELSE old[i]]
  <2>3. ASSUME NEW i \in 1 .. m PROVE Step(old, i) = Step(new, i)
    <3>1. i \in Nodes
      BY <2>1, NodeCountAssumption DEF Nodes
    <3>2. ASSUME NEW src \in Sources(i), NEW s \in Slots
          PROVE  Brings(old, src, s) = Brings(new, src, s)
      <4>1. CASE src \in Slots
        BY <4>1 DEF Brings
      <4>2. CASE src \notin Slots
        <5>1. src \in 1 .. m /\ src # m
          BY <2>1, <3>1, <4>2, Wired, NodeCountAssumption DEF Nodes
        <5> QED BY <4>2, <5>1 DEF Brings
      <4> QED BY <4>1, <4>2
    <3> HIDE DEF new
    <3>3. \A s \in Slots : {Brings(old, src, s) : src \in Sources(i)} = {Brings(new, src, s) : src \in Sources(i)}
      BY <3>2
    <3> QED BY <3>3
  <2>4. \A i \in 1 .. (m - 1) : old[i] = Step(old, i)
    BY <2>2 DEF AreOutputs
  <2>5. \A i \in 1 .. m : new[i] = Step(old, i)
    <3> TAKE i \in 1 .. m
    <3>1. i # m => i \in 1 .. (m - 1)
      BY <2>1
    <3> HIDE DEF Step
    <3> QED BY <2>4, <3>1
  <2>6. new = [i \in 1 .. m |-> Step(new, i)]
    <3>1. \A i \in 1 .. m : new[i] = Step(new, i)
      BY <2>3, <2>5
    <3>2. \E f : new = [i \in 1 .. m |-> f[i]]
      <4> WITNESS new
      <4> HIDE DEF Step
      <4> QED OBVIOUS
    <3> HIDE DEF new, Step
    <3> QED BY <3>1, <3>2
  <2>7. AreOutputs(steps, m, new)
    <3> HIDE DEF new
    <3> QED BY <2>6 DEF AreOutputs
  <2> QED BY <1>2, <2>7
<1> QED BY <1>2, <1>3, <1>4

\* What `OutputsAfter` is.
LEMMA OutputsAre ==
    ASSUME NEW steps
    PROVE  AreOutputs(steps, NodeCount, OutputsAfter(steps))
<1> DEFINE Eq(new) ==
             new = [i \in Nodes |->
               IF i \notin steps THEN outs[i]
               ELSE [s \in Slots |->
                       UNION {IF src \in Slots THEN (IF src = s THEN {regs[s]} ELSE {})
                              ELSE new[src][s] : src \in Sources(i)}]]
<1>1. \E new : Eq(new)
  <2>1. \E new : AreOutputs(steps, NodeCount, new)
    BY OutputsExist, NodeCountAssumption
  <2> QED BY <2>1 DEF AreOutputs, Brings, Nodes
<1>2. Eq(CHOOSE new : Eq(new))
  <2> HIDE DEF Eq
  <2> QED BY <1>1
<1>3. OutputsAfter(steps) = CHOOSE new : Eq(new)
  BY DEF OutputsAfter
<1>4. Eq(OutputsAfter(steps))
  <2> HIDE DEF Eq
  <2> QED BY <1>2, <1>3
<1> DEFINE new == OutputsAfter(steps)
<1>5. new = [i \in 1 .. NodeCount |->
               IF i \notin steps THEN outs[i]
               ELSE [s \in Slots |-> UNION {Brings(new, src, s) : src \in Sources(i)}]]
  BY <1>4 DEF Nodes, Brings
<1> QED BY <1>5 DEF AreOutputs

\* The cones of the steps exist.
LEMMA ConesExist ==
    ASSUME NEW n \in Nat, n <= NodeCount
    PROVE  \E reach : AreCones(n, reach)
<1> DEFINE Bad == {m \in Nat : m <= NodeCount /\ ~ \E reach : AreCones(m, reach)}
<1>1. SUFFICES ASSUME Bad # {} PROVE FALSE
  OBVIOUS
<1>2. PICK m \in Bad : \A k \in Bad : ~(k < m)
  <2>1. Bad \subseteq Nat
    OBVIOUS
  <2> HIDE DEF Bad
  <2> QED BY <1>1, <2>1, LeastNumber
<1>3. CASE m = 0
  <2> DEFINE reach == [i \in 1 .. 0 |-> {}]
  <2>1. AreCones(0, reach)
    BY DEF AreCones
  <2> QED BY <1>2, <1>3, <2>1
<1>4. CASE m > 0
  <2>1. m - 1 \in Nat /\ m - 1 < m /\ m \in Nodes /\ m - 1 <= NodeCount
    BY <1>2, <1>4, NodeCountAssumption DEF Nodes
  <2>2. PICK old : AreCones(m - 1, old)
    BY <1>2, <2>1
  <2> DEFINE Step(reach, i) == {i} \cup UNION {reach[u] : u \in Upstream(i)}
             new == [i \in 1 .. m |-> IF i = m THEN Step(old, m) ELSE old[i]]
  <2>3. ASSUME NEW i \in 1 .. m PROVE Step(old, i) = Step(new, i)
    <3>1. i \in Nodes
      BY <2>1, NodeCountAssumption DEF Nodes
    <3>2. ASSUME NEW u \in Upstream(i) PROVE old[u] = new[u]
      <4>1. u \in 1 .. m /\ u # m
        BY <2>1, <3>1, Wired, SlotsAssumption, NodeCountAssumption DEF Nodes, Upstream
      <4> QED BY <4>1
    <3> HIDE DEF new
    <3>3. {old[u] : u \in Upstream(i)} = {new[u] : u \in Upstream(i)}
      BY <3>2
    <3> QED BY <3>3
  <2>4. \A i \in 1 .. (m - 1) : old[i] = Step(old, i)
    BY <2>2 DEF AreCones
  <2>5. \A i \in 1 .. m : new[i] = Step(old, i)
    <3> TAKE i \in 1 .. m
    <3>1. i # m => i \in 1 .. (m - 1)
      BY <2>1
    <3> HIDE DEF Step
    <3> QED BY <2>4, <3>1
  <2>6. new = [i \in 1 .. m |-> Step(new, i)]
    <3>1. \A i \in 1 .. m : new[i] = Step(new, i)
      BY <2>3, <2>5
    <3>2. \E f : new = [i \in 1 .. m |-> f[i]]
      <4> WITNESS new
      <4> HIDE DEF Step
      <4> QED OBVIOUS
    <3> HIDE DEF new, Step
    <3> QED BY <3>1, <3>2
  <2>7. AreCones(m, new)
    <3> HIDE DEF new
    <3> QED BY <2>6 DEF AreCones
  <2> QED BY <1>2, <2>7
<1> QED BY <1>2, <1>3, <1>4

\* The cone of an output is closed: with a step it has every step upstream of it.
LEMMA ConeClosed ==
    ASSUME NEW out \in Nodes
    PROVE  /\ Cone(out) \subseteq Nodes /\ out \in Cone(out)
           /\ \A i \in Cone(out) : Upstream(i) \subseteq Cone(out)
<1> DEFINE Eq(reach) == reach = [i \in Nodes |-> {i} \cup UNION {reach[u] : u \in Upstream(i)}]
<1>1. PICK reach : reach = CHOOSE r : Eq(r)
  OBVIOUS
<1>2. Eq(reach)
  <2>1. \E r : Eq(r)
    <3>1. \E r : AreCones(NodeCount, r)
      BY ConesExist, NodeCountAssumption
    <3> QED BY <3>1 DEF AreCones, Nodes
  <2> HIDE DEF Eq
  <2> QED BY <1>1, <2>1
<1>3. Cone(out) = reach[out]
  BY <1>1 DEF Cone
<1>4. \A i \in Nodes : reach[i] = {i} \cup UNION {reach[u] : u \in Upstream(i)}
  BY <1>2
<1>5. \A i \in Nodes : \A u \in Upstream(i) : u \in Nodes /\ u < i
  BY Wired, SlotsAssumption DEF Upstream
<1> DEFINE Closed(o) == reach[o] \subseteq Nodes /\ \A i \in reach[o] : Upstream(i) \subseteq reach[o]
           Bad == {o \in Nodes : ~Closed(o)}
<1>6. Bad = {}
  <2> SUFFICES ASSUME Bad # {} PROVE FALSE
    OBVIOUS
  <2>1. PICK o \in Bad : \A k \in Bad : ~(k < o)
    <3>1. Bad \subseteq Nat
      BY NodeCountAssumption DEF Nodes
    <3> HIDE DEF Bad
    <3> QED BY <3>1, LeastNumber
  <2>2. o \in Nodes /\ ~Closed(o)
    BY <2>1
  <2>3. \A u \in Upstream(o) : Closed(u)
    BY <1>5, <2>1, <2>2
  <2>4. \A u \in Upstream(o) : u \in reach[u] /\ reach[u] \subseteq reach[o]
    <3> HIDE DEF Bad, Eq
    <3> QED BY <1>4, <1>5, <2>2
  <2>5. Closed(o)
    <3> HIDE DEF Bad, Eq
    <3> QED BY <1>4, <1>5, <2>2, <2>3, <2>4
  <2> QED BY <2>2, <2>5
<1>7. Closed(out)
  BY <1>6
<1>8. out \in reach[out]
  BY <1>4
<1> QED BY <1>3, <1>7, <1>8

-----------------------------------------------------------------------------
(* The calls, and the types.                                               *)

\* What a read asks for.
Asked == {"cone", "eval", "eval_at"}

\* A host's publish, whose revision it has yet to take.
OwnCalls == [phase : {"own"}, slot : Slots, stamp : Nat]

\* A read that polls its cells, or walks them to refresh.
ReadCalls == [phase : {"poll", "refresh"}, do : Asked, out : Nodes \cup {0}]

\* A read that takes the value of one cell.
TakeCalls == [phase : {"take", "stamp"}, do : Asked, out : Nodes \cup {0}, slot : Slots]

\* The host is in a read.
Reading == call \in ReadCalls \cup TakeCalls

\* A call holds what its phase needs, and a host in none has nothing left of one.
CallInv ==
    /\ call \in {NoCall} \cup OwnCalls \cup ReadCalls \cup TakeCalls
    /\ call \in OwnCalls \cup TakeCalls => call.slot \in CellSlots
    /\ call \in TakeCalls => call.slot \notin todo
    /\ Reading /\ call.do = "cone" => call.out \in Outputs
    /\ ~Reading => fetched = {} /\ todo = {}
    /\ call # NoCall => answer = NoAnswer
    /\ \A s \in DOMAIN coords : coords[s] \in InputValues

\* The state and the call in progress are typed.
StateInv == TypeOK /\ CallInv

-----------------------------------------------------------------------------

\* The kinds of calls are told apart by their phase.
LEMMA CallKinds ==
    ASSUME CallInv
    PROVE  /\ call = NoCall <=> call.phase = "idle"
           /\ call \in OwnCalls <=> call.phase = "own"
           /\ call \in ReadCalls <=> call.phase \in {"poll", "refresh"}
           /\ call \in TakeCalls <=> call.phase \in {"take", "stamp"}
           /\ Reading <=> call.phase \in Phases
BY DEF CallInv, NoCall, OwnCalls, ReadCalls, TakeCalls, Reading, Phases

\* No coordinate is ever bound to a cell, and what may be attached is a cell.
LEMMA CoordinatesAreLocal ==
    /\ Coordinates \subseteq Slots
    /\ \A pair \in Attachable : pair[1] \in Slots \ Coordinates /\ pair[2] \in Cells
    /\ NoCell \notin Cells
BY BindingAssumption

\* A run computes sets of stamps and inputs.
LEMMA OutputsTyped ==
    ASSUME TypeOK, NEW steps
    PROVE  OutputsAfter(steps) \in [Nodes -> [Slots -> SUBSET Nat]]
<1> DEFINE new == OutputsAfter(steps)
<1>1. new = [i \in Nodes |->
               IF i \notin steps THEN outs[i]
               ELSE [s \in Slots |-> UNION {Brings(new, src, s) : src \in Sources(i)}]]
  BY OutputsAre DEF AreOutputs, Nodes
<1> HIDE DEF new
<1>2. /\ \A i \in Nodes : i \notin steps => new[i] = outs[i]
      /\ \A i \in Nodes : i \in steps =>
           new[i] = [s \in Slots |-> UNION {Brings(new, src, s) : src \in Sources(i)}]
  BY <1>1
<1> DEFINE Bad == {i \in Nodes : new[i] \notin [Slots -> SUBSET Nat]}
<1>3. Bad = {}
  <2> SUFFICES ASSUME Bad # {} PROVE FALSE
    OBVIOUS
  <2>1. PICK i \in Bad : \A k \in Bad : ~(k < i)
    <3>1. Bad \subseteq Nat
      BY NodeCountAssumption DEF Nodes
    <3> HIDE DEF Bad
    <3> QED BY <3>1, LeastNumber
  <2>2. i \in Nodes /\ new[i] \notin [Slots -> SUBSET Nat]
    BY <2>1
  <2>3. i \in steps
    BY <1>2, <2>2 DEF TypeOK
  <2>4. ASSUME NEW s \in Slots, NEW src \in Sources(i) PROVE Brings(new, src, s) \subseteq Nat
    <3>1. CASE src \in Slots
      BY <3>1 DEF Brings, TypeOK
    <3>2. CASE src \notin Slots
      <4>1. src \in Nodes /\ src < i
        BY <2>2, <3>2, Wired
      <4>2. src \notin Bad
        BY <2>1, <4>1
      <4> QED BY <3>2, <4>1, <4>2 DEF Brings
    <3> QED BY <3>1, <3>2
  <2>5. new[i] = [s \in Slots |-> UNION {Brings(new, src, s) : src \in Sources(i)}]
    BY <1>2, <2>2, <2>3
  <2>6. \A s \in Slots : UNION {Brings(new, src, s) : src \in Sources(i)} \in SUBSET Nat
    BY <2>4
  <2>7. new[i] \in [Slots -> SUBSET Nat]
    BY <2>5, <2>6
  <2> QED BY <2>2, <2>7
<1>4. \E dom, f : new = [i \in dom |-> f[i]] /\ dom = Nodes
  <2>1. new = [i \in Nodes |-> new[i]]
    BY <1>1
  <2> QED BY <2>1
<1>5. new \in [Nodes -> [Slots -> SUBSET Nat]]
  BY <1>3, <1>4
<1> QED BY <1>5 DEF new

\* A kernel that writes coordinates keeps its types.
LEMMA WriteCoordsTyped ==
    ASSUME TypeOK, NEW f, DOMAIN f \subseteq Coordinates, \A s \in DOMAIN f : f[s] \in InputValues,
           WriteCoords(f)
    PROVE  /\ regs' \in [Slots -> Nat] /\ changed' \subseteq Slots
           /\ clean' \subseteq clean /\ owed' \subseteq Nodes
<1>1. \A s \in DOMAIN f : f[s] \in Nat /\ s \in Slots
  BY InputValuesAssumption, CoordinatesAreLocal
<1>2. regs' \in [Slots -> Nat]
  BY <1>1 DEF WriteCoords, TypeOK
<1>3. changed' \subseteq Slots
  BY <1>1 DEF WriteCoords
<1>4. clean' \subseteq clean /\ owed' \subseteq Nodes
  BY DEF WriteCoords, MarkDirty, Reached, TypeOK
<1> QED BY <1>2, <1>3, <1>4

\* What a run may do is on steps of the program.
LEMMA OrderTyped ==
    ASSUME StateInv, Polled
    PROVE  /\ Order \subseteq Nodes /\ Wanted \subseteq Nodes
           /\ call \in ReadCalls
           /\ call.do = "cone" => call.out \in Nodes /\ Order = Cone(call.out)
           /\ call.do # "cone" => Order = Nodes
           /\ \A i \in Order : Upstream(i) \subseteq Order
<1>1. call \in ReadCalls
  BY CallKinds DEF StateInv, Polled
<1>2. call.do = "cone" => call.out \in Nodes /\ Order = Cone(call.out)
  BY <1>1, StepsAssumption DEF StateInv, CallInv, Reading, Order
<1>3. call.do # "cone" => Order = Nodes
  BY DEF Order
<1>4. Order \subseteq Nodes
  BY <1>2, <1>3, ConeClosed
<1>5. Wanted \subseteq Nodes
  BY <1>4 DEF Wanted
<1>6. \A i \in Order : Upstream(i) \subseteq Order
  BY <1>2, <1>3, ConeClosed DEF Upstream
<1> QED BY <1>1, <1>2, <1>3, <1>4, <1>5, <1>6

\* A step of `publish` leaves the cells well typed, and one fiber at a stage.
LEMMA CellsTyped == CellTypeOK /\ [CellNext]_cellVars => CellTypeOK'
<1> SUFFICES ASSUME CellTypeOK, [CellNext]_cellVars PROVE CellTypeOK'
  OBVIOUS
<1> USE DEF CellTypeOK
<1>1. ASSUME NEW w \in Writers, NEW c \in Cells, Store(w, c) PROVE CellTypeOK'
  BY <1>1 DEF Store, Publications, Idle, InPublish
<1>2. ASSUME NEW w \in Writers, publishing[w].stage \in {"stored", "bumped"}
      PROVE  publishing[w] \in [stage : {"stored", "bumped"}, cell : Cells, stamp : Nat]
  BY <1>2 DEF Publications, Idle
<1>3. ASSUME NEW w \in Writers, Bump(w) PROVE CellTypeOK'
  <2>1. publishing[w] \in [stage : {"stored", "bumped"}, cell : Cells, stamp : Nat]
    BY <1>2, <1>3 DEF Bump
  <2>2. publishing' \in [Writers -> Publications]
    BY <1>3, <2>1 DEF Bump, Publications
  <2> QED BY <1>3, <2>1, <2>2 DEF Bump
<1>4. ASSUME NEW w \in Writers, Mark(w) PROVE CellTypeOK'
  <2>1. publishing[w] \in [stage : {"stored", "bumped"}, cell : Cells, stamp : Nat]
    BY <1>2, <1>4 DEF Mark
  <2> QED BY <1>4, <2>1 DEF Mark, Publications, Idle
<1>5. CASE UNCHANGED cellVars
  BY <1>5 DEF cellVars
<1> QED BY <1>1, <1>3, <1>4, <1>5 DEF CellNext, Publish

\* The steps that leave the cells alone.
LEMMA CellsKept ==
    /\ SetInputs \/ ResetInputs \/ InvalidateAll \/ RefusedWrite => UNCHANGED cellVars
    /\ \A s \in Slots : SetInput(s) => UNCHANGED cellVars
    /\ \A s, c : AttachSharedCell(s, c) \/ BindInputCell(s, c) => UNCHANGED cellVars
    /\ BeginRead \/ ReadStep => UNCHANGED cellVars
<1>1. SetInputs \/ ResetInputs \/ InvalidateAll \/ RefusedWrite => UNCHANGED cellVars
  BY DEF SetInputs, ResetInputs, InvalidateAll, RefusedWrite
<1>2. \A s \in Slots : SetInput(s) => UNCHANGED cellVars
  BY DEF SetInput
<1>3. \A s, c : AttachSharedCell(s, c) \/ BindInputCell(s, c) => UNCHANGED cellVars
  BY DEF AttachSharedCell, BindInputCell
<1>4. \A f, do : BeginEval(f, do) => UNCHANGED cellVars
  BY DEF BeginEval
<1>5. BeginRead => UNCHANGED cellVars
  <2>1. Eval \/ EvalAt => UNCHANGED cellVars
    BY <1>4 DEF Eval, EvalAt
  <2>2. \A out \in Outputs : Pull(out) => UNCHANGED cellVars
    BY DEF Pull
  <2>3. \A out \in Outputs : EvalForSlot(out) => UNCHANGED cellVars
    BY <1>4 DEF EvalForSlot
  <2> QED BY <2>1, <2>2, <2>3 DEF BeginRead
<1>6. ReadStep => UNCHANGED cellVars
  BY DEF ReadStep, PollCell, RefreshCell, TakeValue, TakeRevision, Run, RunPanics, TakeOwnRevision,
         ReadVars
<1> QED BY <1>1, <1>2, <1>3, <1>5, <1>6

\* A kernel uses the cells by their protocol alone.
LEMMA CellStep == StateInv /\ [Next]_vars => [CellNext]_cellVars
<1> SUFFICES ASSUME StateInv, [Next]_vars PROVE [CellNext]_cellVars
  OBVIOUS
<1>1. ASSUME NEW s \in Slots, SetCellInput(s) PROVE CellNext
  <2>1. cell[s] \in Cells /\ Store(Self, cell[s])
    BY <1>1 DEF SetCellInput, StateInv, TypeOK
  <2> QED BY <2>1, SelfAssumption DEF CellNext, Publish
<1>2. ASSUME NEW w \in Writers, StartPublish(w) \/ FinishPublish(w) PROVE CellNext
  BY <1>2 DEF StartPublish, FinishPublish, CellNext, Publish
<1>3. UNCHANGED vars => UNCHANGED cellVars
  BY DEF vars
<1>4. HostWrite => CellNext \/ UNCHANGED cellVars
  BY <1>1, CellsKept DEF HostWrite
<1> QED BY <1>2, <1>3, <1>4, CellsKept DEF Next

\* Only a slot bound to a cell is ever torn.
LEMMA TornTyped ==
    ASSUME StateInv, [Next]_vars
    PROVE  torn' \subseteq Slots
<1>1. torn \subseteq Slots
  BY DEF StateInv, TypeOK
<1>2. HostWrite => torn' \subseteq torn
  BY DEF HostWrite, SetInputs, ResetInputs, InvalidateAll, RefusedWrite, SetInput, SetCellInput,
         AttachSharedCell, BindInputCell
<1>3. BeginRead => torn' = torn
  BY DEF BeginRead, Eval, EvalAt, Pull, EvalForSlot, BeginEval
<1>4. ReadStep => torn' \subseteq torn
  BY DEF ReadStep, PollCell, RefreshCell, TakeValue, TakeRevision, Run, RunPanics, TakeOwnRevision,
         ReadVars
<1>5. \A w \in Writers : StartPublish(w) \/ FinishPublish(w) => torn' \subseteq torn \cup CellSlots
  BY DEF StartPublish, FinishPublish, Overtaken
<1>6. UNCHANGED vars => torn' = torn
  BY DEF vars
<1> QED BY <1>1, <1>2, <1>3, <1>4, <1>5, <1>6 DEF Next, CellSlots

\* A host's write keeps the state and the call typed.
LEMMA StateHostWrite ==
    ASSUME StateInv, HostWrite, CellTypeOK', torn' \subseteq Slots
    PROVE  StateInv'
<1>1. call = NoCall /\ CellTypeOK /\ TypeOK /\ CallInv
  BY DEF HostWrite, SetInputs, ResetInputs, InvalidateAll, RefusedWrite, SetInput, SetCellInput,
         AttachSharedCell, BindInputCell, HostIdle, StateInv, TypeOK
<1>2. fetched = {} /\ todo = {}
  BY <1>1, CallKinds DEF CallInv, Phases
<1>3. DOMAIN NoAnswer.outputs \subseteq Outputs /\ NoAnswer.fired \subseteq SideSteps
  BY DEF NoAnswer
<1>4. InputValues \subseteq Nat /\ 0 \in InputValues /\ Coordinates \subseteq Slots
  BY InputValuesAssumption, CoordinatesAreLocal
<1>5. \A slots : MarkDirty(slots) => clean' \subseteq Nodes /\ owed' \subseteq Nodes
  BY <1>1 DEF MarkDirty, Reached, TypeOK
<1>6. \A slots : ExternWritten(slots) =>
        clean' \subseteq Nodes /\ owed' \subseteq Nodes /\ {stale', force_run'} \subseteq BOOLEAN
  BY <1>1, <1>5 DEF ExternWritten, ConeGuard, TypeOK
<1>7. /\ UNCHANGED <<outs, ran, changed, todo, fetched>> /\ answer' = NoAnswer
      /\ clean' \subseteq Nodes /\ owed' \subseteq Nodes
      /\ {stale', all_ran', force_run'} \subseteq BOOLEAN
  <2>1. CASE SetInputs \/ InvalidateAll \/ RefusedWrite
    BY <1>1, <2>1 DEF SetInputs, InvalidateAll, RefusedWrite, TypeOK, ConeGuard
  <2>2. CASE ResetInputs
    BY <1>1, <1>6, <2>2 DEF ResetInputs, TypeOK
  <2>3. ASSUME NEW s \in Slots, SetInput(s) PROVE <1>7!:
    BY <1>1, <1>6, <2>3 DEF SetInput, TypeOK
  <2>4. ASSUME NEW s \in Slots, SetCellInput(s) PROVE <1>7!:
    BY <1>1, <2>4 DEF SetCellInput, TypeOK
  <2>5. ASSUME NEW s, NEW c, AttachSharedCell(s, c) \/ BindInputCell(s, c) PROVE <1>7!:
    BY <1>1, <1>5, <2>5 DEF AttachSharedCell, BindInputCell, TypeOK
  <2> QED BY <2>1, <2>2, <2>3, <2>4, <2>5 DEF HostWrite
<1>8. /\ regs' \in [Slots -> Nat] /\ wanted' \in [Slots -> Nat]
      /\ DOMAIN coords' \subseteq Coordinates /\ \A s \in DOMAIN coords' : coords'[s] \in InputValues
  <2>1. CASE SetInputs
    BY <1>1, <1>4, <2>1 DEF SetInputs, TypeOK
  <2>2. CASE ResetInputs
    BY <1>1, <2>2 DEF ResetInputs, TypeOK, CallInv
  <2>3. CASE InvalidateAll \/ RefusedWrite
    BY <1>1, <2>3 DEF InvalidateAll, RefusedWrite, TypeOK, CallInv
  <2>4. ASSUME NEW s \in Slots, SetInput(s) PROVE <1>8!:
    BY <1>1, <1>4, <2>4 DEF SetInput, TypeOK, CallInv
  <2>5. ASSUME NEW s \in Slots, SetCellInput(s) PROVE <1>8!:
    BY <1>1, <2>5 DEF SetCellInput, TypeOK, CallInv
  <2>6. ASSUME NEW s, NEW c, AttachSharedCell(s, c) \/ BindInputCell(s, c) PROVE <1>8!:
    BY <1>1, <2>6 DEF AttachSharedCell, BindInputCell, TypeOK, CallInv
  <2> QED BY <2>1, <2>2, <2>3, <2>4, <2>5, <2>6 DEF HostWrite
<1>9. /\ cell' \in [Slots -> Cells \cup {NoCell}] /\ seen' \in [Slots -> Nat \cup {Unseen}]
      /\ call' \in {NoCall} \cup OwnCalls
      /\ call' \in OwnCalls => cell'[call'.slot] # NoCell
  <2>1. CASE SetInputs \/ ResetInputs \/ InvalidateAll \/ RefusedWrite \/ \E s \in Slots : SetInput(s)
    <3>1. UNCHANGED <<cell, seen, call>>
      BY <2>1 DEF SetInputs, ResetInputs, InvalidateAll, RefusedWrite, SetInput
    <3> QED BY <1>1, <3>1 DEF TypeOK, NoCall, OwnCalls
  <2>2. ASSUME NEW s \in Slots, SetCellInput(s) PROVE <1>9!:
    <3>1. UNCHANGED <<cell, seen>> /\ cell[s] # NoCell /\ cell[s] \in Cells
      BY <1>1, <2>2 DEF SetCellInput, TypeOK
    <3>2. call' = [phase |-> "own", slot |-> s, stamp |-> value'[cell[s]]] /\ value'[cell[s]] \in Nat
      BY <2>2, <3>1 DEF SetCellInput, CellTypeOK
    <3> QED BY <1>1, <3>1, <3>2 DEF TypeOK, OwnCalls
  <2>3. ASSUME NEW pair \in Attachable,
               AttachSharedCell(pair[1], pair[2]) \/ BindInputCell(pair[1], pair[2])
        PROVE <1>9!:
    <3>1. pair[1] \in Slots /\ pair[2] \in Cells
      BY CoordinatesAreLocal
    <3>2. /\ cell' = [cell EXCEPT ![pair[1]] = pair[2]] /\ seen' = [seen EXCEPT ![pair[1]] = Unseen]
          /\ call' = NoCall
      BY <1>1, <2>3 DEF AttachSharedCell, BindInputCell
    <3> QED BY <1>1, <3>1, <3>2 DEF TypeOK, NoCall, OwnCalls
  <2> QED BY <2>1, <2>2, <2>3 DEF HostWrite
<1>10. call'.phase \in {"idle", "own"}
  BY <1>9 DEF NoCall, OwnCalls
<1>11. TypeOK'
  BY <1>1, <1>2, <1>3, <1>7, <1>8, <1>9, <1>10 DEF TypeOK, CellSlots
<1>12. ~Reading' /\ call' \notin TakeCalls
  BY <1>9, <1>10 DEF Reading, NoCall, OwnCalls, ReadCalls, TakeCalls
<1>13. call' \in OwnCalls => call'.slot \in CellSlots'
  BY <1>9 DEF OwnCalls, CellSlots
<1>14. CallInv'
  BY <1>2, <1>7, <1>8, <1>9, <1>12, <1>13 DEF CallInv
<1> QED BY <1>11, <1>14 DEF StateInv

\* So does the beginning of an evaluation (`eval`).
LEMMA BeginEvalKeeps ==
    ASSUME StateInv, call = NoCall, CellTypeOK', torn' \subseteq Slots, NEW f, NEW do \in {"eval", "eval_at"},
           DOMAIN f \subseteq Coordinates, \A s \in DOMAIN f : f[s] \in InputValues,
           BeginEval(f, do), wanted' \in [Slots -> Nat]
    PROVE  StateInv'
<1>1. /\ regs' \in [Slots -> Nat] /\ changed' \subseteq Slots
      /\ clean' \subseteq clean /\ owed' \subseteq Nodes
  BY WriteCoordsTyped DEF BeginEval, StateInv
<1>2. /\ call' = [phase |-> "poll", do |-> do, out |-> 0]
      /\ todo' = CellSlots /\ fetched' = {} /\ answer' = NoAnswer
      /\ UNCHANGED <<build, cell, seen, outs, coords, ran, all_ran>>
      /\ stale' = TRUE /\ force_run' = FALSE
  BY DEF BeginEval, Poll
<1>3. call' \in ReadCalls /\ call' \notin OwnCalls \cup TakeCalls /\ call'.phase = "poll"
  BY <1>2 DEF ReadCalls, TakeCalls, OwnCalls, Asked
<1>4. DOMAIN NoAnswer.outputs \subseteq Outputs /\ NoAnswer.fired \subseteq SideSteps
  BY DEF NoAnswer
<1>5. TypeOK'
  BY <1>1, <1>2, <1>3, <1>4 DEF StateInv, TypeOK, CellSlots, Phases
<1>6. CallInv'
  BY <1>2, <1>3 DEF StateInv, CallInv, Reading
<1> QED BY <1>5, <1>6 DEF StateInv

\* So does the beginning of every read, an answer without a round included.
LEMMA StateBeginRead ==
    ASSUME StateInv, BeginRead, CellTypeOK', torn' \subseteq Slots
    PROVE  StateInv'
<1>1. call = NoCall
  BY DEF BeginRead, Eval, EvalAt, Pull, EvalForSlot, HostIdle
<1>2. TypeOK /\ CallInv /\ InputValues \subseteq Nat /\ Coordinates \subseteq Slots
  BY InputValuesAssumption, CoordinatesAreLocal DEF StateInv
<1>3. DOMAIN coords \subseteq Coordinates /\ \A s \in DOMAIN coords : coords[s] \in InputValues
  BY <1>2 DEF TypeOK, CallInv
<1>4. \A f \in [Coordinates -> InputValues] : WantCoords(f) => wanted' \in [Slots -> Nat]
  BY <1>2 DEF WantCoords, TypeOK
<1>5. CASE Eval
  BY <1>1, <1>2, <1>3, <1>5, BeginEvalKeeps DEF Eval, TypeOK
<1>6. CASE EvalAt
  BY <1>1, <1>4, <1>6, BeginEvalKeeps DEF EvalAt
<1>7. ASSUME NEW out \in Outputs, Pull(out) PROVE StateInv'
  <2>1. /\ regs' \in [Slots -> Nat] /\ changed' \subseteq Slots
        /\ clean' \subseteq Nodes /\ owed' \subseteq Nodes
    <3>1. CASE stale
      BY <1>2, <1>3, <1>7, <3>1, WriteCoordsTyped DEF Pull, TypeOK
    <3>2. CASE ~stale
      BY <1>2, <1>7, <3>2 DEF Pull, TypeOK
    <3> QED BY <3>1, <3>2
  <2>2. /\ call' = [phase |-> "poll", do |-> "cone", out |-> out]
        /\ todo' = CellSlots /\ fetched' = {} /\ answer' = NoAnswer
        /\ UNCHANGED <<build, cell, seen, outs, coords, stale, ran, all_ran, force_run, wanted>>
    BY <1>7 DEF Pull, Poll
  <2>3. out \in Nodes
    BY StepsAssumption
  <2>4. call' \in ReadCalls /\ call' \notin OwnCalls \cup TakeCalls /\ call'.phase = "poll"
    BY <2>2, <2>3 DEF ReadCalls, TakeCalls, OwnCalls, Asked
  <2>5. DOMAIN NoAnswer.outputs \subseteq Outputs /\ NoAnswer.fired \subseteq SideSteps
    BY DEF NoAnswer
  <2>6. TypeOK'
    BY <1>2, <2>1, <2>2, <2>4, <2>5 DEF TypeOK, CellSlots, Phases
  <2>7. CallInv'
    BY <1>2, <2>2, <2>4 DEF CallInv, Reading
  <2> QED BY <2>6, <2>7 DEF StateInv
<1>8. ASSUME NEW out \in Outputs, EvalForSlot(out) PROVE StateInv'
  <2>1. PICK f \in [Coordinates -> InputValues] :
          /\ WantCoords(f)
          /\ \/ BeginEval(f, "eval_at")
             \/ /\ WriteCoords(f) /\ outs' = outs
                /\ answer' = Returned({out}, {})
                /\ UNCHANGED <<build, cell, seen, coords, stale, ran, all_ran, force_run, call,
                               todo, fetched>>
    BY <1>8 DEF EvalForSlot
  <2>2. wanted' \in [Slots -> Nat]
    BY <1>4, <2>1
  <2>3. CASE BeginEval(f, "eval_at")
    BY <1>1, <2>1, <2>2, <2>3, BeginEvalKeeps
  <2>4. CASE /\ WriteCoords(f) /\ outs' = outs
             /\ answer' = Returned({out}, {})
             /\ UNCHANGED <<build, cell, seen, coords, stale, ran, all_ran, force_run, call,
                            todo, fetched>>
    <3>1. /\ regs' \in [Slots -> Nat] /\ changed' \subseteq Slots
          /\ clean' \subseteq clean /\ owed' \subseteq Nodes
      BY <1>2, <2>4, WriteCoordsTyped
    <3>2. DOMAIN answer'.outputs = {out} /\ answer'.fired = {}
      BY <2>4 DEF Returned
    <3>3. TypeOK'
      BY <1>2, <2>2, <2>4, <3>1, <3>2 DEF TypeOK, CellSlots
    <3>4. CallInv'
      BY <1>1, <1>2, <2>4 DEF CallInv, Reading, CellSlots
    <3> QED BY <3>3, <3>4 DEF StateInv
  <2> QED BY <2>1, <2>3, <2>4
<1> QED BY <1>5, <1>6, <1>7, <1>8 DEF BeginRead

\* So does each access of a poll or a refresh, and the end of a publish.
LEMMA StatePolling ==
    ASSUME StateInv, CellTypeOK', torn' \subseteq Slots,
           PollCell \/ RefreshCell \/ TakeValue \/ TakeRevision \/ TakeOwnRevision
    PROVE  StateInv'
<1>1. TypeOK /\ CallInv
  BY DEF StateInv
<1>2. UNCHANGED <<build, cell, outs, coords, ran, all_ran, changed, answer, wanted>>
  BY DEF PollCell, RefreshCell, TakeValue, TakeRevision, TakeOwnRevision, ReadVars
<1>3. CASE PollCell
  <2>1. call \in ReadCalls /\ Reading
    BY <1>1, <1>3, CallKinds DEF PollCell, Phases
  <2>2. UNCHANGED <<seen, regs, stale, clean, force_run, owed, fetched>>
    BY <1>3 DEF PollCell, ReadVars
  <2>3. call' \in ReadCalls /\ call'.do = call.do /\ call'.out = call.out /\ todo' \subseteq CellSlots
    BY <1>1, <1>3, <2>1 DEF PollCell, ReadCalls, TypeOK
  <2>4. Reading' /\ call' \notin OwnCalls \cup TakeCalls /\ call'.phase \in Phases
    BY <2>3 DEF Reading, OwnCalls, TakeCalls, ReadCalls, Phases
  <2>5. TypeOK'
    BY <1>1, <1>2, <2>2, <2>3, <2>4 DEF TypeOK, CellSlots
  <2>6. call # NoCall
    BY <1>3 DEF PollCell, NoCall
  <2>7. CallInv'
    BY <1>1, <1>2, <2>1, <2>2, <2>3, <2>4, <2>6 DEF CallInv
  <2> QED BY <2>5, <2>7 DEF StateInv
<1>4. CASE RefreshCell
  <2>1. call \in ReadCalls /\ Reading
    BY <1>1, <1>4, CallKinds DEF RefreshCell, Phases
  <2>2. UNCHANGED <<seen, regs, stale, clean, force_run, owed, fetched>>
    BY <1>4 DEF RefreshCell, ReadVars
  <2>3. PICK s \in todo : /\ todo' = todo \ {s}
                          /\ \/ call' = call
                             \/ call' = [phase |-> "take", do |-> call.do, out |-> call.out, slot |-> s]
    BY <1>4 DEF RefreshCell
  <2>4. s \in Slots /\ s \in CellSlots
    BY <1>1 DEF TypeOK, CellSlots
  <2>5. /\ call' \in ReadCalls \/ (call' \in TakeCalls /\ call'.slot = s)
        /\ call'.do = call.do /\ call'.out = call.out
    BY <2>1, <2>3, <2>4 DEF ReadCalls, TakeCalls
  <2>6. Reading' /\ call' \notin OwnCalls /\ call'.phase \in Phases
    BY <2>5 DEF Reading, OwnCalls, TakeCalls, ReadCalls, Phases
  <2>7. TypeOK'
    BY <1>1, <1>2, <2>2, <2>3, <2>6 DEF TypeOK, CellSlots
  <2>8. call # NoCall
    BY <1>4 DEF RefreshCell, NoCall
  <2>9. call' \in TakeCalls => call'.slot = s
    BY <2>5 DEF ReadCalls, TakeCalls
  <2>10. CellSlots' = CellSlots
    BY <1>2 DEF CellSlots
  <2>11. CallInv'
    BY <1>1, <1>2, <2>1, <2>2, <2>3, <2>4, <2>5, <2>6, <2>8, <2>9, <2>10 DEF CallInv
  <2> QED BY <2>7, <2>11 DEF StateInv
<1>5. CASE TakeValue
  <2>1. call \in TakeCalls /\ Reading /\ call # NoCall
    BY <1>1, <1>5, CallKinds DEF TakeValue, Phases
  <2>2. UNCHANGED <<seen, stale, clean, force_run, owed, fetched, todo>>
    BY <1>5 DEF TakeValue
  <2>3. /\ call' \in TakeCalls /\ call'.slot = call.slot /\ call'.do = call.do
        /\ call'.out = call.out /\ call'.phase = "stamp"
    BY <1>5, <2>1 DEF TakeValue, TakeCalls
  <2>4. call.slot \in Slots /\ cell[call.slot] \in Cells
    BY <1>1, <2>1 DEF CallInv, CellSlots, TypeOK
  <2>5. regs' \in [Slots -> Nat]
    BY <1>1, <1>5, <2>4 DEF TakeValue, TypeOK, CellTypeOK
  <2>6. Reading' /\ call' \notin OwnCalls
    BY <2>3 DEF Reading, OwnCalls, TakeCalls
  <2>7. TypeOK'
    BY <1>1, <1>2, <2>2, <2>3, <2>5 DEF TypeOK, CellSlots, Phases
  <2>8. CellSlots' = CellSlots
    BY <1>2 DEF CellSlots
  <2>9. CallInv'
    BY <1>1, <1>2, <2>1, <2>2, <2>3, <2>6, <2>8 DEF CallInv
  <2> QED BY <2>7, <2>9 DEF StateInv
<1>6. CASE TakeRevision
  <2>1. call \in TakeCalls /\ Reading /\ call # NoCall
    BY <1>1, <1>6, CallKinds DEF TakeRevision, Phases
  <2>2. UNCHANGED <<regs, stale, clean, force_run, todo>>
    BY <1>6 DEF TakeRevision, ReadVars
  <2>3. /\ call' \in ReadCalls /\ call'.do = call.do /\ call'.out = call.out
        /\ call'.phase = "refresh"
    BY <1>6, <2>1 DEF TakeRevision, TakeCalls, ReadCalls
  <2>4. call.slot \in Slots /\ cell[call.slot] \in Cells
    BY <1>1, <2>1 DEF CallInv, CellSlots, TypeOK
  <2>5. seen' \in [Slots -> Nat \cup {Unseen}] /\ fetched' \subseteq Slots /\ owed' \subseteq Nodes
    BY <1>1, <1>6, <2>4 DEF TakeRevision, TypeOK, CellTypeOK, Reached
  <2>6. Reading' /\ call' \notin OwnCalls \cup TakeCalls
    BY <2>3 DEF Reading, OwnCalls, TakeCalls, ReadCalls
  <2>7. TypeOK'
    BY <1>1, <1>2, <2>2, <2>3, <2>5 DEF TypeOK, CellSlots, Phases
  <2>8. CallInv'
    BY <1>1, <1>2, <2>1, <2>2, <2>3, <2>6 DEF CallInv
  <2> QED BY <2>7, <2>8 DEF StateInv
<1>7. CASE TakeOwnRevision
  <2>1. call \in OwnCalls /\ ~Reading /\ call # NoCall
    BY <1>1, <1>7, CallKinds DEF TakeOwnRevision, Phases
  <2>2. UNCHANGED <<todo, fetched>> /\ call' = NoCall
    BY <1>7 DEF TakeOwnRevision
  <2>3. call.slot \in Slots /\ cell[call.slot] \in Cells /\ call.stamp \in Nat
    BY <1>1, <2>1 DEF CallInv, CellSlots, TypeOK, OwnCalls
  <2>4. seen' \in [Slots -> Nat \cup {Unseen}] /\ regs' \in [Slots -> Nat]
    BY <1>1, <1>7, <2>3 DEF TakeOwnRevision, TypeOK, CellTypeOK
  <2>5. /\ clean' \subseteq Nodes /\ owed' \subseteq Nodes
        /\ {stale', force_run'} \subseteq BOOLEAN
    BY <1>1, <1>7 DEF TakeOwnRevision, ExternWritten, MarkDirty, Reached, ConeGuard, TypeOK
  <2>6. ~Reading' /\ call' \notin OwnCalls \cup TakeCalls /\ call'.phase = "idle"
    BY <2>2 DEF Reading, OwnCalls, TakeCalls, ReadCalls, NoCall
  <2>7. TypeOK'
    BY <1>1, <1>2, <2>2, <2>4, <2>5, <2>6 DEF TypeOK, CellSlots
  <2>8. CallInv'
    BY <1>1, <1>2, <2>1, <2>2, <2>6 DEF CallInv
  <2> QED BY <2>7, <2>8 DEF StateInv
<1> QED BY <1>3, <1>4, <1>5, <1>6, <1>7

\* What the end of a run leaves, whether it panicked or not.
LEMMA RunTyped ==
    ASSUME StateInv, Polled, NEW done, NEW begun, done \subseteq Nodes, RunSteps(done, begun)
    PROVE  /\ outs' \in [Nodes -> [Slots -> SUBSET Nat]]
           /\ ran' \subseteq Nodes /\ clean' \subseteq Nodes /\ owed' \subseteq Nodes
           /\ stale' = FALSE /\ call' = NoCall /\ todo' = {} /\ fetched' = {}
<1>1. TypeOK /\ Wanted \subseteq Nodes
  BY OrderTyped DEF StateInv
<1>2. outs' \in [Nodes -> [Slots -> SUBSET Nat]]
  BY <1>1, OutputsTyped DEF RunSteps
<1>3. ranNow \subseteq Nodes /\ cleanNow \subseteq Nodes
  BY <1>1 DEF ranNow, cleanNow, TypeOK
<1>4. MarkedCurrent(Wanted \cap done, Wanted \cap begun) \subseteq Nodes
  BY <1>1 DEF MarkedCurrent
<1> QED BY <1>1, <1>2, <1>3, <1>4 DEF RunSteps, TypeOK

\* So does a run, whether it completes or panics.
LEMMA StateRun ==
    ASSUME StateInv, CellTypeOK', torn' \subseteq Slots, Run \/ RunPanics
    PROVE  StateInv'
<1>1. TypeOK /\ CallInv /\ Polled /\ Order \subseteq Nodes /\ Wanted \subseteq Nodes
  BY OrderTyped DEF StateInv, Run, RunPanics
<1>2. PICK done, begun : done \subseteq Nodes /\ RunSteps(done, begun)
  BY <1>1 DEF Run, RunPanics
<1>3. /\ outs' \in [Nodes -> [Slots -> SUBSET Nat]]
      /\ ran' \subseteq Nodes /\ clean' \subseteq Nodes /\ owed' \subseteq Nodes
      /\ stale' = FALSE /\ call' = NoCall /\ todo' = {} /\ fetched' = {}
  BY <1>1, <1>2, RunTyped
<1>4. UNCHANGED <<build, cell, seen, regs, changed, force_run, wanted>>
  BY DEF Run, RunPanics
<1>5. all_ran' \in BOOLEAN
  <2>1. allNow \in BOOLEAN /\ FreshRun \in BOOLEAN
    BY <1>1 DEF allNow, FreshRun, TypeOK
  <2> QED BY <2>1 DEF Run, RunPanics
<1>6. DOMAIN answer'.outputs \subseteq Outputs /\ answer'.fired \subseteq SideSteps
  <2>1. CASE Run
    <3>1. call.do = "cone" => call.out \in Outputs
      BY <1>1, CallKinds DEF CallInv, Polled, Phases
    <3> QED BY <2>1, <3>1 DEF Run, Returned
  <2>2. CASE RunPanics
    BY <2>2 DEF RunPanics, NoAnswer
  <2> QED BY <2>1, <2>2
<1>7. DOMAIN coords' \subseteq Coordinates /\ \A s \in DOMAIN coords' : coords'[s] \in InputValues
  BY <1>1 DEF Run, RunPanics, NoCoords, TypeOK, CallInv
<1>8. ~Reading' /\ call' \notin OwnCalls \cup TakeCalls /\ call'.phase = "idle"
  BY <1>3 DEF Reading, OwnCalls, TakeCalls, ReadCalls, NoCall
<1>9. TypeOK'
  BY <1>1, <1>3, <1>4, <1>5, <1>6, <1>7, <1>8 DEF TypeOK, CellSlots
<1>10. CallInv'
  BY <1>3, <1>7, <1>8 DEF CallInv
<1> QED BY <1>9, <1>10 DEF StateInv

\* A kernel just built is typed and in no call.
LEMMA StateInit == Init => StateInv
<1> SUFFICES ASSUME Init PROVE StateInv
  OBVIOUS
<1>1. CellTypeOK
  BY DEF Init, CellInit, CellTypeOK, Publications, Idle
<1>2. CallInv /\ call.phase = "idle"
  BY DEF Init, KernelInit, CallInv, Reading, NoCall, OwnCalls, ReadCalls, TakeCalls, NoCoords
<1>3. TypeOK
  BY <1>1, <1>2, BindingAssumption DEF Init, KernelInit, TypeOK, CellSlots, NoCoords, NoAnswer
<1> QED BY <1>2, <1>3 DEF StateInv

\* Every step keeps the state and the call typed.
LEMMA StateNext == StateInv /\ [Next]_vars => StateInv'
<1> SUFFICES ASSUME StateInv, [Next]_vars PROVE StateInv'
  OBVIOUS
<1>1. CellTypeOK' /\ torn' \subseteq Slots
  BY CellStep, CellsTyped, TornTyped DEF StateInv, TypeOK
<1>2. CASE UNCHANGED kernelVars
  <2>1. UNCHANGED <<mode, surfaces, cell, seen, regs, outs, coords, stale, ran, all_ran, clean,
                    changed, force_run, call, todo, fetched, answer, wanted, due, owed>>
    BY <1>2 DEF kernelVars
  <2>2. TypeOK'
    BY <1>1, <2>1 DEF StateInv, TypeOK, CellSlots
  <2>3. CallInv'
    BY <2>1 DEF StateInv, CallInv, Reading, CellSlots
  <2> QED BY <2>2, <2>3 DEF StateInv
<1>3. CASE UNCHANGED vars
  BY <1>2, <1>3 DEF vars
<1>4. \A w \in Writers : StartPublish(w) \/ FinishPublish(w) => UNCHANGED kernelVars
  BY DEF StartPublish, FinishPublish
<1>5. ReadStep => StateInv'
  BY <1>1, StatePolling, StateRun DEF ReadStep
<1> QED BY <1>1, <1>2, <1>3, <1>4, <1>5, StateHostWrite, StateBeginRead DEF Next

\* A kernel's state and its calls keep their types, in every mode and through
\* every interleaving: a refresh only ever takes the value of a slot bound to a
\* cell, and no panic leaves a call half ended.
THEOREM TypeCorrect == Spec => []TypeOK
<1>1. StateInv => TypeOK
  BY DEF StateInv
<1> QED BY <1>1, StateInit, StateNext, PTL DEF Spec

\* The state and the call are typed at all times.
LEMMA StateCorrect == Spec => []StateInv
BY StateInit, StateNext, PTL DEF Spec

\* A kernel uses the cells by their protocol alone: each of its steps stores, bumps
\* or marks for one fiber, or leaves the cells as they are.
THEOREM KernelKeepsProtocol == Spec => CellSpec
<1>1. Init => CellInit
  BY DEF Init
<1> QED BY <1>1, CellStep, StateCorrect, PTL DEF Spec, CellSpec

-----------------------------------------------------------------------------
(* The builds a theorem speaks of.                                         *)

\* A kernel is one of the builds.
BuildInv == <<mode, surfaces>> \in Builds

\* No step changes how a kernel was built.
LEMMA BuildKept ==
    ASSUME [Next]_vars
    PROVE  UNCHANGED build
<1>1. HostWrite => UNCHANGED build
  BY DEF HostWrite, SetInputs, ResetInputs, InvalidateAll, RefusedWrite, SetInput, SetCellInput,
         AttachSharedCell, BindInputCell
<1>2. \A f, do : BeginEval(f, do) => UNCHANGED build
  BY DEF BeginEval
<1>3. BeginRead => UNCHANGED build
  <2>1. Eval \/ EvalAt => UNCHANGED build
    BY <1>2 DEF Eval, EvalAt
  <2>2. \A out \in Outputs : Pull(out) => UNCHANGED build
    BY DEF Pull
  <2>3. \A out \in Outputs : EvalForSlot(out) => UNCHANGED build
    BY <1>2 DEF EvalForSlot
  <2> QED BY <2>1, <2>2, <2>3 DEF BeginRead
<1>4. ReadStep => UNCHANGED build
  BY DEF ReadStep, PollCell, RefreshCell, TakeValue, TakeRevision, Run, RunPanics, TakeOwnRevision,
         ReadVars
<1>5. \A w \in Writers : StartPublish(w) \/ FinishPublish(w) => UNCHANGED build
  BY DEF StartPublish, FinishPublish, kernelVars, build
<1>6. UNCHANGED vars => UNCHANGED build
  BY DEF vars, kernelVars, build
<1> QED BY <1>1, <1>3, <1>4, <1>5, <1>6 DEF Next

\* A kernel is one of the builds at all times.
LEMMA Built == Spec => []BuildInv
<1>1. Init => BuildInv
  <2> SUFFICES ASSUME Init PROVE BuildInv
    OBVIOUS
  <2>1. PICK b \in Builds : mode = b[1] /\ surfaces = b[2]
    BY DEF Init, KernelInit
  <2>2. b = <<b[1], b[2]>>
    BY BuildsAssumption
  <2> QED BY <2>1, <2>2 DEF BuildInv
<1>2. BuildInv /\ [Next]_vars => BuildInv'
  BY BuildKept DEF BuildInv, build
<1> QED BY <1>1, <1>2, PTL DEF Spec

-----------------------------------------------------------------------------
(* What is owed.                                                           *)

\* What a refreshed cell reaches is owed a run, and so is a side channel that is
\* not marked current.
DebtInv ==
    /\ Reached(fetched) \subseteq owed
    /\ (SideSteps \ NondetNodes) \ clean \subseteq owed

\* A step that is owed a run is not current once what was fetched is accounted for.
OwedInv == clean \cap owed \cap Consulted \subseteq Reached(fetched)

\* What a write marks not current is what some mode consults of what it reaches.
LEMMA DirtyIsConsulted ==
    ASSUME NEW slots
    PROVE  DirtySteps(slots) = Reached(slots) \cap Consulted
BY DEF DirtySteps, Consulted, Reached

\* Every write marks what it reaches, or all there is.
LEMMA WritesMark ==
    ASSUME StateInv, HostWrite \/ BeginRead \/ TakeOwnRevision
    PROVE  /\ \/ \E slots \in SUBSET Slots : MarkDirty(slots)
              \/ UNCHANGED <<clean, owed>>
              \/ clean' = {} /\ owed' = Nodes
           /\ fetched' = fetched /\ fetched = {}
<1>1. HostWrite \/ BeginRead => call = NoCall
  BY DEF HostWrite, SetInputs, ResetInputs, InvalidateAll, RefusedWrite, SetInput, SetCellInput,
         AttachSharedCell, BindInputCell, BeginRead, Eval, EvalAt, Pull, EvalForSlot, HostIdle
<1>2. fetched = {}
  BY <1>1, CallKinds DEF StateInv, CallInv, TakeOwnRevision, Phases
<1>3. TypeOK /\ Coordinates \subseteq Slots
  BY CoordinatesAreLocal DEF StateInv
<1>4. ASSUME NEW f, DOMAIN f \subseteq Coordinates, WriteCoords(f)
      PROVE  \E slots \in SUBSET Slots : MarkDirty(slots)
  BY <1>3, <1>4 DEF WriteCoords
<1>5. CASE HostWrite
  <2>1. fetched' = fetched
    BY <1>5 DEF HostWrite, SetInputs, ResetInputs, InvalidateAll, RefusedWrite, SetInput,
                SetCellInput, AttachSharedCell, BindInputCell
  <2>2. CASE SetInputs \/ RefusedWrite
    BY <1>2, <2>1, <2>2 DEF SetInputs, RefusedWrite
  <2>3. CASE InvalidateAll
    BY <1>2, <2>1, <2>3 DEF InvalidateAll
  <2>4. CASE ResetInputs
    BY <1>2, <2>1, <2>4 DEF ResetInputs, ExternWritten
  <2>5. ASSUME NEW s \in Slots, SetInput(s) PROVE MarkDirty({s})
    BY <2>5 DEF SetInput, ExternWritten
  <2>6. ASSUME NEW s \in Slots, SetCellInput(s) PROVE UNCHANGED <<clean, owed>>
    BY <2>6 DEF SetCellInput
  <2>7. ASSUME NEW pair \in Attachable,
               AttachSharedCell(pair[1], pair[2]) \/ BindInputCell(pair[1], pair[2])
        PROVE  MarkDirty({pair[1]}) /\ pair[1] \in Slots
    BY <2>7, CoordinatesAreLocal DEF AttachSharedCell, BindInputCell
  <2>8. \A s \in Slots : {s} \in SUBSET Slots
    OBVIOUS
  <2> QED BY <1>2, <1>5, <2>1, <2>2, <2>3, <2>4, <2>5, <2>6, <2>7, <2>8 DEF HostWrite
<1>6. CASE BeginRead
  <2>1. fetched' = {}
    BY <1>2, <1>6 DEF BeginRead, Eval, EvalAt, Pull, EvalForSlot, BeginEval, Poll
  <2>2. DOMAIN coords \subseteq Coordinates
    BY <1>3 DEF TypeOK
  <2>3. CASE Eval
    BY <1>2, <1>4, <2>1, <2>2, <2>3 DEF Eval, BeginEval
  <2>4. CASE EvalAt
    BY <1>2, <1>4, <2>1, <2>4 DEF EvalAt, BeginEval
  <2>5. ASSUME NEW out \in Outputs, Pull(out)
        PROVE  (\E slots \in SUBSET Slots : MarkDirty(slots)) \/ UNCHANGED <<clean, owed>>
    BY <1>4, <2>2, <2>5 DEF Pull
  <2>6. ASSUME NEW out \in Outputs, EvalForSlot(out)
        PROVE  \E slots \in SUBSET Slots : MarkDirty(slots)
    BY <1>4, <2>6 DEF EvalForSlot, BeginEval
  <2> QED BY <1>2, <1>6, <2>1, <2>3, <2>4, <2>5, <2>6 DEF BeginRead
<1>7. CASE TakeOwnRevision
  <2>1. call.slot \in Slots
    BY <1>7, CallKinds DEF TakeOwnRevision, StateInv, OwnCalls
  <2>2. MarkDirty({call.slot}) /\ {call.slot} \in SUBSET Slots
    BY <1>7, <2>1 DEF TakeOwnRevision, ExternWritten
  <2>3. fetched' = fetched
    BY <1>7 DEF TakeOwnRevision
  <2> QED BY <1>2, <2>2, <2>3
<1> QED BY <1>5, <1>6, <1>7

\* Every step keeps the debts.
LEMMA DebtNext == StateInv /\ DebtInv /\ [Next]_vars => DebtInv'
<1> SUFFICES ASSUME StateInv, DebtInv, [Next]_vars PROVE DebtInv'
  OBVIOUS
<1>1. TypeOK /\ SideSteps \subseteq Nodes
  BY StepsAssumption DEF StateInv
<1>2. CASE HostWrite \/ BeginRead \/ TakeOwnRevision
  <2>1. fetched' = {}
    BY <1>2, WritesMark
  <2>2. Reached(fetched)' = {}
    BY <2>1 DEF Reached
  <2>3. ASSUME NEW slots \in SUBSET Slots, MarkDirty(slots)
        PROVE  (SideSteps \ NondetNodes) \ clean' \subseteq owed'
    BY <2>3, DirtyIsConsulted DEF MarkDirty, DebtInv
  <2> QED BY <1>1, <1>2, <2>2, <2>3, WritesMark DEF DebtInv
<1>3. CASE UNCHANGED <<clean, owed, fetched>>
  BY <1>3 DEF DebtInv, Reached
<1>4. CASE TakeRevision
  BY <1>4 DEF TakeRevision, ReadVars, DebtInv, Reached
<1>5. ASSUME Polled, NEW done, NEW begun, done \subseteq begun, RunSteps(done, begun) PROVE DebtInv'
  <2>1. fetched' = {} /\ owed' = owed \ (Wanted \cap done)
        /\ clean' = cleanNow \cup MarkedCurrent(Wanted \cap done, Wanted \cap begun)
    BY <1>5 DEF RunSteps
  <2>2. Reached(fetched)' = {}
    BY <2>1 DEF Reached
  <2>3. ASSUME NEW i \in SideSteps, i \notin NondetNodes, i \notin clean' PROVE i \in owed'
    <3>1. i \notin Wanted \cap done
      BY <1>5, <2>1, <2>3 DEF MarkedCurrent
    <3>2. i \notin clean \/ i \in Reached(fetched)
      BY <2>1, <2>3 DEF cleanNow
    <3> QED BY <2>1, <2>3, <3>1, <3>2 DEF DebtInv
  <2> QED BY <2>2, <2>3 DEF DebtInv
<1>6. CASE Run
  BY <1>5, <1>6 DEF Run
<1>7. CASE RunPanics
  <2>1. PICK f : RunSteps({i \in Order : i < f}, {i \in Order : i <= f}) /\ f \in Wanted
    BY <1>7 DEF RunPanics
  <2>2. {i \in Order : i < f} \subseteq {i \in Order : i <= f}
    BY <1>7, <2>1, OrderTyped, NodeCountAssumption DEF RunPanics, Nodes
  <2> QED BY <1>5, <1>7, <2>1, <2>2 DEF RunPanics
<1>8. CASE PollCell \/ RefreshCell \/ TakeValue
  BY <1>3, <1>8 DEF PollCell, RefreshCell, TakeValue, ReadVars
<1>9. CASE UNCHANGED vars
  BY <1>3, <1>9 DEF vars, kernelVars
<1>10. \A w \in Writers : StartPublish(w) \/ FinishPublish(w) => UNCHANGED <<clean, owed, fetched>>
  BY DEF StartPublish, FinishPublish, kernelVars
<1> QED BY <1>2, <1>3, <1>4, <1>6, <1>7, <1>8, <1>9, <1>10 DEF Next, ReadStep

\* The debts are kept at all times, with no hypothesis.
LEMMA DebtCorrect == Spec => []DebtInv
<1>1. Init => DebtInv
  BY StepsAssumption DEF Init, KernelInit, DebtInv, Reached
<1> QED BY <1>1, DebtNext, StateCorrect, PTL DEF Spec

-----------------------------------------------------------------------------
(* What a call owes: side channels and volatile steps.                     *)

\* A call ends with a run, a panic, or the revision of its own publish.
LEMMA CallsEnd ==
    ASSUME StateInv, [Next]_vars, call # NoCall, call' = NoCall
    PROVE  (Run /\ Polled) \/ (RunPanics /\ Polled) \/ (TakeOwnRevision /\ answer' = NoAnswer)
<1>1. ~HostWrite /\ ~BeginRead
  BY DEF HostWrite, SetInputs, ResetInputs, InvalidateAll, RefusedWrite, SetInput, SetCellInput,
         AttachSharedCell, BindInputCell, BeginRead, Eval, EvalAt, Pull, EvalForSlot, HostIdle
<1>2. call' # call
  OBVIOUS
<1>3. ~(PollCell \/ RefreshCell \/ TakeValue \/ TakeRevision)
  <2>1. CASE PollCell
    <3>1. call \in ReadCalls
      BY <2>1, CallKinds DEF PollCell, StateInv
    <3>2. [call EXCEPT !.phase = "refresh"] # NoCall
      BY <3>1 DEF ReadCalls, NoCall
    <3> QED BY <1>2, <2>1, <3>2 DEF PollCell
  <2>2. CASE RefreshCell
    BY <1>2, <2>2 DEF RefreshCell, NoCall
  <2>3. CASE TakeValue
    <3>1. call \in TakeCalls
      BY <2>3, CallKinds DEF TakeValue, StateInv
    <3>2. [call EXCEPT !.phase = "stamp"] # NoCall
      BY <3>1 DEF TakeCalls, NoCall
    <3> QED BY <2>3, <3>2 DEF TakeValue
  <2>4. CASE TakeRevision
    BY <2>4 DEF TakeRevision, NoCall
  <2> QED BY <2>1, <2>2, <2>3, <2>4
<1>4. UNCHANGED vars => call' = call
  BY DEF vars, kernelVars
<1>5. \A w \in Writers : StartPublish(w) \/ FinishPublish(w) => call' = call
  BY DEF StartPublish, FinishPublish, kernelVars
<1>6. TakeOwnRevision => answer' = NoAnswer
  BY DEF TakeOwnRevision, StateInv, CallInv
<1>7. Run \/ RunPanics => Polled
  BY DEF Run, RunPanics
<1> QED BY <1>1, <1>2, <1>3, <1>4, <1>5, <1>6, <1>7 DEF Next, ReadStep

\* A side channel that fires, and is not volatile, has a write upstream since it
\* last completed: whatever the mode and the loop, through panics and refreshes,
\* a change is acted on once.
THEOREM ChangesFireOnce == Spec => SideChannelsFireOnce
<1>1. ASSUME StateInv, DebtInv, [Next]_vars, call # NoCall, call' = NoCall
      PROVE  answer'.fired \ NondetNodes \subseteq owed
  <2>1. ASSUME NEW i \in Wanted \cap SideSteps, i \notin NondetNodes PROVE i \in owed
    <3>1. i \notin cleanNow
      BY <2>1 DEF Wanted, Current
    <3>2. i \notin clean \/ i \in Reached(fetched)
      BY <2>1, <3>1 DEF cleanNow
    <3> QED BY <1>1, <2>1, <3>2 DEF DebtInv
  <2>2. CASE Run
    BY <2>1, <2>2 DEF Run, Returned
  <2>3. CASE RunPanics
    BY <2>1, <2>3 DEF RunPanics, NoAnswer
  <2>4. CASE answer' = NoAnswer
    BY <2>4 DEF NoAnswer
  <2> QED BY <1>1, <2>2, <2>3, <2>4, CallsEnd
<1>2. StateInv /\ DebtInv /\ [Next]_vars =>
        [call # NoCall /\ call' = NoCall => answer'.fired \ NondetNodes \subseteq owed]_vars
  BY <1>1
<1> QED BY <1>2, StateCorrect, DebtCorrect, PTL DEF Spec, SideChannelsFireOnce

\* A read that returns has run every volatile step of its cone, whatever the mode
\* skips and however old the round is.
THEOREM VolatilesRun == Spec => VolatileStepsAlwaysRun
<1>1. ASSUME StateInv, [Next]_vars, call # NoCall, call' = NoCall,
             answer'.outputs # NoAnswer.outputs
      PROVE  Order \cap NondetNodes \cap SideSteps \subseteq answer'.fired
  <2>1. ASSUME Polled, NEW i \in Order \cap NondetNodes \cap SideSteps PROVE i \in Wanted
    <3>1. ~Current(i) /\ ~allNow /\ i \notin ranNow /\ i \in Nodes
      BY <1>1, <2>1, OrderTyped DEF Current, allNow, ranNow
    <3> QED BY <2>1, <3>1 DEF Wanted
  <2>2. CASE Run /\ Polled
    BY <2>1, <2>2 DEF Run, Returned
  <2>3. CASE RunPanics
    BY <1>1, <2>3 DEF RunPanics, NoAnswer
  <2>4. CASE answer' = NoAnswer
    BY <1>1, <2>4
  <2> QED BY <1>1, <2>2, <2>3, <2>4, CallsEnd
<1>2. StateInv /\ [Next]_vars =>
        [call # NoCall /\ call' = NoCall /\ answer'.outputs # NoAnswer.outputs =>
           Order \cap NondetNodes \cap SideSteps \subseteq answer'.fired]_vars
  BY <1>1
<1> QED BY <1>2, StateCorrect, PTL DEF Spec, VolatileStepsAlwaysRun

-----------------------------------------------------------------------------

\* A build whose rounds run fresh has no side channel that may fail.
SidesDoNotFail ==
    \/ AnyNone
    \/ SideSteps \cap FailingSteps = {}
    \/ \A b \in Builds : b[1] \in {"Push", "PushPull"}

\* The steps a run marks current have run to their end.
LEMMA MarkedHaveRun ==
    ASSUME SidesDoNotFail, StateInv, BuildInv, Run \/ RunPanics
    PROVE  /\ Polled
           /\ \E done, begun :
                /\ RunSteps(done, begun) /\ done \subseteq Order
                /\ MarkedCurrent(Wanted \cap done, Wanted \cap begun) \subseteq Wanted \cap done
                /\ \A i \in done : \A u \in Upstream(i) : u \in done
                /\ \/ Run /\ done = Order /\ all_ran' = (allNow \/ FreshRun)
                   \/ answer'.outputs = NoAnswer.outputs /\ all_ran' = allNow
<1>1. Polled
  BY DEF Run, RunPanics
<1>2. Order \subseteq Nodes /\ \A i \in Order : Upstream(i) \subseteq Order
  BY <1>1, OrderTyped
<1>3. CASE Run
  <2>1. /\ RunSteps(Order, Order) /\ all_ran' = (allNow \/ FreshRun)
        /\ MarkedCurrent(Wanted \cap Order, Wanted \cap Order) \subseteq Wanted \cap Order
    BY <1>3 DEF Run, MarkedCurrent
  <2> QED BY <1>1, <1>2, <1>3, <2>1
<1>4. CASE RunPanics
  <2>1. PICK f \in Wanted \cap FailingSteps : RunSteps({i \in Order : i < f}, {i \in Order : i <= f})
    BY <1>4 DEF RunPanics
  <2> DEFINE done == {i \in Order : i < f}
             begun == {i \in Order : i <= f}
  <2>2. f \in Nat /\ Order \subseteq Nat
    BY <1>1, <1>2, <2>1, OrderTyped, NodeCountAssumption DEF Nodes
  <2>3. MarkedCurrent(Wanted \cap done, Wanted \cap begun) \subseteq Wanted \cap done
    <3>1. CASE FreshRun
      <4>1. f \notin SideSteps
        <5>1. ~AnyNone /\ mode \notin {"Push", "PushPull"}
          BY <3>1 DEF FreshRun, UseClean
        <5>2. \A b \in Builds : b[1] \in {"Push", "PushPull"} => b # <<mode, surfaces>>
          BY <5>1
        <5> QED BY <2>1, <5>1, <5>2 DEF SidesDoNotFail, BuildInv
      <4>2. \A i \in begun : i \in SideSteps => i \in done
        BY <2>2, <4>1
      <4> HIDE DEF done, begun
      <4> QED BY <3>1, <4>2 DEF MarkedCurrent
    <3>2. CASE ~FreshRun
      BY <3>2 DEF MarkedCurrent
    <3> QED BY <3>1, <3>2
  <2>4. \A i \in done : \A u \in Upstream(i) : u \in done
    <3>1. \A i \in Order : \A u \in Upstream(i) : u \in Order /\ u < i /\ u \in Nat
      BY <1>2, <2>2, Wired, SlotsAssumption DEF Upstream
    <3> QED BY <2>2, <3>1
  <2>5. answer'.outputs = NoAnswer.outputs /\ all_ran' = allNow
    BY <1>4 DEF RunPanics, NoAnswer
  <2> QED BY <1>1, <2>1, <2>3, <2>4, <2>5
<1> QED BY <1>3, <1>4

\* Every step leaves what is owed to be run.
LEMMA OwedNext ==
    ASSUME SidesDoNotFail, StateInv, BuildInv, OwedInv, [Next]_vars
    PROVE  OwedInv'
<1>1. Consulted' = Consulted /\ Consulted \subseteq Nodes
  BY BuildKept, StepsAssumption DEF Consulted, UseClean, build
<1>2. CASE HostWrite \/ BeginRead \/ TakeOwnRevision
  <2>1. fetched = {} /\ fetched' = {}
    BY <1>2, WritesMark
  <2>2. clean \cap owed \cap Consulted = {}
    BY <2>1 DEF OwedInv, Reached
  <2>3. ASSUME NEW slots \in SUBSET Slots, MarkDirty(slots)
        PROVE  clean' \cap owed' \cap Consulted = {}
    BY <2>2, <2>3, DirtyIsConsulted DEF MarkDirty
  <2>4. clean' \cap owed' \cap Consulted = {}
    BY <1>2, <2>2, <2>3, WritesMark
  <2> QED BY <1>1, <2>4 DEF OwedInv
<1>3. CASE UNCHANGED <<clean, owed, fetched>>
  BY <1>1, <1>3 DEF OwedInv, Reached
<1>4. CASE TakeRevision
  BY <1>1, <1>4 DEF TakeRevision, ReadVars, OwedInv, Reached
<1>5. CASE Run \/ RunPanics
  <2>1. PICK done, begun :
          /\ RunSteps(done, begun)
          /\ MarkedCurrent(Wanted \cap done, Wanted \cap begun) \subseteq Wanted \cap done
    BY <1>5, MarkedHaveRun
  <2>2. /\ owed' = owed \ (Wanted \cap done)
        /\ clean' = cleanNow \cup MarkedCurrent(Wanted \cap done, Wanted \cap begun)
    BY <2>1 DEF RunSteps
  <2>3. cleanNow \cap owed \cap Consulted = {}
    BY DEF cleanNow, OwedInv
  <2>4. clean' \cap owed' \cap Consulted = {}
    BY <2>1, <2>2, <2>3
  <2> QED BY <1>1, <2>4 DEF OwedInv
<1>6. CASE PollCell \/ RefreshCell \/ TakeValue
  BY <1>3, <1>6 DEF PollCell, RefreshCell, TakeValue, ReadVars
<1>7. CASE UNCHANGED vars
  BY <1>3, <1>7 DEF vars, kernelVars
<1>8. \A w \in Writers : StartPublish(w) \/ FinishPublish(w) => UNCHANGED <<clean, owed, fetched>>
  BY DEF StartPublish, FinishPublish, kernelVars
<1> QED BY <1>2, <1>3, <1>4, <1>5, <1>6, <1>7, <1>8 DEF Next, ReadStep

\* The failure rule: between calls, no step that a write reached, that failed, or
\* that a failure kept from running since is current, so the next evaluation runs
\* it.  (Without the hypothesis: CompiledSideFailure.cfg.)
THEOREM OwedStepsRun ==
    ASSUME SidesDoNotFail
    PROVE  Spec => []OwedIsNotCurrent
<1>1. Init => OwedInv
  BY DEF Init, KernelInit, OwedInv
<1>2. StateInv /\ OwedInv => OwedIsNotCurrent
  BY CallKinds DEF StateInv, CallInv, OwedInv, OwedIsNotCurrent, Reached, Phases
<1>3. StateInv /\ BuildInv /\ OwedInv /\ [Next]_vars => OwedInv'
  BY OwedNext
<1> QED BY <1>1, <1>2, <1>3, StateCorrect, Built, PTL DEF Spec

-----------------------------------------------------------------------------
(* Currency: what is skipped holds what the registers say.                 *)

\* No kernel with the cone guard is read through `eval_for_slot`.
NoGuardedReads ==
    \A b \in Builds : b[1] \in {"Pull", "PushPull"} => "SlotKernel" \notin b[2]

\* The slots whose register a refresh has changed and not accounted for yet.
Pending == IF call.phase = "stamp" THEN fetched \cup {call.slot} ELSE fetched

\* A step's output is computed from the registers as they are, or will be marked.
Right(i) == \A s \in Provenance[i] : s \notin Pending => outs[i][s] = {regs[s]}

\* What is held to be current is right: by mark, by round, by a full evaluation.
MemoInv ==
    /\ \A i \in Nodes, s \in Slots : s \notin Provenance[i] => outs[i][s] = {}
    /\ \A i \in clean \cap Consulted : Right(i)
    /\ ~stale => \A i \in ran : Right(i)
    /\ ~stale /\ all_ran => \A i \in Nodes : Right(i)
    /\ \A i \in DOMAIN answer.outputs :
         ~stale /\ \A s \in Provenance[i] : answer.outputs[i][s] = {regs[s]}

-----------------------------------------------------------------------------

\* A step that a run does not want holds what the registers say.
LEMMA SkippedAreRight ==
    ASSUME StateInv, MemoInv, Polled, NEW i \in Order, i \notin Wanted
    PROVE  \A s \in Provenance[i] : outs[i][s] = {regs[s]}
<1>1. Pending = fetched /\ i \in Nodes
  BY OrderTyped DEF Pending, Polled
<1>2. i \notin Reached(fetched) => \A s \in Provenance[i] : s \notin fetched
  BY <1>1 DEF Reached
<1>3. CASE Current(i) /\ i \in Consulted
  BY <1>1, <1>2, <1>3 DEF Current, cleanNow, MemoInv, Right
<1>4. CASE allNow
  <2>1. ~stale /\ fetched = {} /\ all_ran
    BY <1>4 DEF allNow
  <2> QED BY <1>1, <2>1 DEF MemoInv, Right
<1>5. CASE i \in ranNow
  <2>1. ~stale /\ i \in ran /\ i \notin Reached(fetched)
    BY <1>5 DEF ranNow
  <2> QED BY <1>1, <1>2, <2>1 DEF MemoInv, Right
<1> QED BY <1>1, <1>3, <1>4, <1>5 DEF Wanted, Consulted

\* A run up to any point leaves every step it passed with what the registers say.
LEMMA RunIsRight ==
    ASSUME StateInv, MemoInv, Polled, NEW done, NEW begun, RunSteps(done, begun),
           done \subseteq Order, \A i \in done : \A u \in Upstream(i) : u \in done
    PROVE  /\ \A i \in Nodes, s \in Slots : s \notin Provenance[i] => outs'[i][s] = {}
           /\ \A i \in done : \A s \in Provenance[i] : outs'[i][s] = {regs[s]}
           /\ \A i \in Nodes : i \notin done => outs'[i] = outs[i]
<1> DEFINE steps == Wanted \cap done
<1>1. outs' = [i \in Nodes |->
                 IF i \notin steps THEN outs[i]
                 ELSE [s \in Slots |-> UNION {Brings(outs', src, s) : src \in Sources(i)}]]
  <2>1. outs' = OutputsAfter(steps)
    BY DEF RunSteps
  <2>2. AreOutputs(steps, NodeCount, outs')
    BY <2>1, OutputsAre
  <2> QED BY <2>2 DEF AreOutputs, Nodes
<1> HIDE DEF steps
<1>2. done \subseteq Nodes
  BY OrderTyped
<1>3. PICK new : new = outs'
  OBVIOUS
<1>4. /\ \A i \in Nodes : i \notin steps => new[i] = outs[i]
      /\ \A i \in steps : i \in Nodes =>
           new[i] = [s \in Slots |-> UNION {Brings(new, src, s) : src \in Sources(i)}]
  BY <1>1, <1>3
<1> DEFINE Good(i) ==
             /\ \A s \in Slots : s \notin Provenance[i] => new[i][s] = {}
             /\ i \in done => \A s \in Provenance[i] : new[i][s] = {regs[s]}
           Bad == {i \in Nodes : ~Good(i)}
<1>5. Bad = {}
  <2> SUFFICES ASSUME Bad # {} PROVE FALSE
    OBVIOUS
  <2>1. PICK i \in Bad : \A k \in Bad : ~(k < i)
    <3>1. Bad \subseteq Nat
      BY NodeCountAssumption DEF Nodes
    <3> HIDE DEF Bad
    <3> QED BY <3>1, LeastNumber
  <2>2. i \in Nodes /\ ~Good(i)
    BY <2>1
  <2>3. CASE i \notin steps
    <3>1. new[i] = outs[i]
      BY <1>4, <2>2, <2>3
    <3>2. i \in done => \A s \in Provenance[i] : outs[i][s] = {regs[s]}
      BY <2>3, SkippedAreRight DEF steps
    <3> QED BY <2>2, <3>1, <3>2 DEF MemoInv
  <2>4. CASE i \in steps
    <3>1. i \in done
      BY <2>4 DEF steps
    <3>2. ASSUME NEW src \in Sources(i), NEW s \in Slots
          PROVE  Brings(new, src, s) = IF s \in Carried(src) THEN {regs[s]} ELSE {}
      <4>1. CASE src \in Slots
        BY <4>1 DEF Brings, Carried
      <4>2. CASE src \notin Slots
        <5>1. src \in Nodes /\ src < i /\ src \in done
          BY <2>2, <3>1, <4>2, Wired DEF Upstream
        <5>2. src \notin Bad
          BY <2>1, <5>1
        <5>3. Good(src)
          BY <5>1, <5>2
        <5> QED BY <4>2, <5>1, <5>3 DEF Brings, Carried
      <4> QED BY <4>1, <4>2
    <3>3. \A s \in Slots : new[i][s] = UNION {Brings(new, src, s) : src \in Sources(i)}
      BY <1>4, <2>2, <2>4
    <3>4. Provenance[i] = UNION {Carried(src) : src \in Sources(i)} /\ Provenance[i] \subseteq Slots
      BY <2>2, Wired, ProvenanceSlots
    <3>5. ASSUME NEW s \in Slots, s \notin Provenance[i] PROVE new[i][s] = {}
      <4>1. \A src \in Sources(i) : Brings(new, src, s) = {}
        BY <3>2, <3>4, <3>5
      <4> QED BY <3>3, <4>1
    <3>6. ASSUME NEW s \in Provenance[i] PROVE new[i][s] = {regs[s]}
      <4>1. s \in Slots /\ \E src \in Sources(i) : s \in Carried(src)
        BY <3>4
      <4>2. \A src \in Sources(i) : Brings(new, src, s) = IF s \in Carried(src) THEN {regs[s]} ELSE {}
        BY <3>2, <4>1
      <4>3. UNION {Brings(new, src, s) : src \in Sources(i)} = {regs[s]}
        BY <4>1, <4>2
      <4> QED BY <3>3, <4>1, <4>3
    <3> QED BY <2>2, <3>5, <3>6
  <2> QED BY <2>3, <2>4
<1>6. \A i \in Nodes : Good(i)
  BY <1>5
<1>7. \A i \in Nodes : i \notin done => new[i] = outs[i]
  BY <1>4 DEF steps
<1> QED BY <1>2, <1>3, <1>6, <1>7

\* Registers are changed on these slots alone, what that reaches is marked, and a
\* round is pending.
Rewritten(slots) ==
    /\ \A s \in Slots : s \notin slots => regs'[s] = regs[s]
    /\ clean' \subseteq clean \ DirtySteps(slots)
    /\ slots = {} \/ stale' = TRUE

\* Coordinates are written with what they reach marked.
LEMMA CoordsRewritten ==
    ASSUME StateInv, NEW f, DOMAIN f \subseteq Coordinates, WriteCoords(f), stale' = TRUE
    PROVE  \E slots \in SUBSET Slots : Rewritten(slots)
<1> DEFINE moved == {s \in DOMAIN f : f[s] # regs[s]}
<1>1. moved \in SUBSET Slots
  BY CoordinatesAreLocal
<1>2. \A s \in Slots : s \notin moved => regs'[s] = regs[s]
  BY DEF WriteCoords
<1>3. clean' = clean \ DirtySteps(moved)
  BY DEF WriteCoords, MarkDirty
<1>4. Rewritten(moved)
  BY <1>2, <1>3 DEF Rewritten
<1> QED BY <1>1, <1>4

\* A write to a register marks the steps it reaches and begins a new round.
LEMMA WritesRewrite ==
    ASSUME NoGuardedReads, StateInv, BuildInv, HostWrite \/ BeginRead \/ TakeOwnRevision
    PROVE  /\ \E slots \in SUBSET Slots : Rewritten(slots)
           /\ UNCHANGED <<outs, ran>> /\ (all_ran' = all_ran \/ stale' = TRUE)
           /\ stale' = stale \/ stale' = TRUE
           /\ answer' = NoAnswer /\ fetched = {} /\ fetched' = {}
           /\ call.phase # "stamp" /\ call'.phase # "stamp"
<1>1. fetched = {} /\ fetched' = {}
  BY WritesMark
<1>2. HostWrite \/ BeginRead => call = NoCall
  BY DEF HostWrite, SetInputs, ResetInputs, InvalidateAll, RefusedWrite, SetInput, SetCellInput,
         AttachSharedCell, BindInputCell, BeginRead, Eval, EvalAt, Pull, EvalForSlot, HostIdle
<1>3. call.phase # "stamp"
  BY <1>2 DEF NoCall, TakeOwnRevision
<1>4. TypeOK /\ DirtySteps({}) = {} /\ \A s \in Slots : {s} \in SUBSET Slots
  BY DirtyIsConsulted DEF StateInv, Reached
<1>5. CASE HostWrite
  <2>1. UNCHANGED <<outs, ran>> /\ (all_ran' = all_ran \/ stale' = TRUE) /\ answer' = NoAnswer
    BY <1>5 DEF HostWrite, SetInputs, ResetInputs, InvalidateAll, RefusedWrite, SetInput,
                SetCellInput, AttachSharedCell, BindInputCell
  <2>2. call'.phase # "stamp"
    <3>1. \A s \in Slots : SetCellInput(s) => call'.phase = "own"
      BY DEF SetCellInput
    <3>2. \/ call' = call
          \/ \E s \in Slots : SetCellInput(s)
      BY <1>5 DEF HostWrite, SetInputs, ResetInputs, InvalidateAll, RefusedWrite, SetInput,
                  AttachSharedCell, BindInputCell
    <3> QED BY <1>3, <3>1, <3>2
  <2>3. SetInputs \/ RefusedWrite \/ InvalidateAll =>
          Rewritten({}) /\ (stale' = stale \/ stale' = TRUE)
    BY <1>4 DEF SetInputs, RefusedWrite, InvalidateAll, Rewritten
  <2>4. ASSUME ResetInputs
        PROVE  (\E slots \in SUBSET Slots : Rewritten(slots)) /\ stale' = TRUE
    <3>1. PICK reset \in SUBSET Slots :
            /\ regs' = [s \in Slots |-> IF s \in reset THEN 0 ELSE regs[s]]
            /\ ExternWritten(reset)
      BY <2>4 DEF ResetInputs
    <3>2. Rewritten(reset) /\ stale' = TRUE
      BY <3>1 DEF ExternWritten, MarkDirty, Rewritten
    <3> QED BY <3>2
  <2>5. \A s \in Slots : SetInput(s) => Rewritten({s}) /\ stale' = TRUE
    BY <1>4 DEF SetInput, ExternWritten, MarkDirty, TypeOK, Rewritten
  <2>6. \A s \in Slots : SetCellInput(s) => Rewritten({}) /\ stale' = stale
    BY <1>4 DEF SetCellInput, Rewritten
  <2>7. \A s, c : AttachSharedCell(s, c) \/ BindInputCell(s, c) =>
          Rewritten({}) /\ (stale' = stale \/ stale' = TRUE)
    BY <1>4 DEF AttachSharedCell, BindInputCell, MarkDirty, Rewritten
  <2>8. {} \in SUBSET Slots
    OBVIOUS
  <2>9. (\E slots \in SUBSET Slots : Rewritten(slots)) /\ (stale' = stale \/ stale' = TRUE)
    BY <1>4, <1>5, <2>3, <2>4, <2>5, <2>6, <2>7, <2>8 DEF HostWrite
  <2> QED BY <1>1, <1>3, <2>1, <2>2, <2>9
<1>6. ASSUME NEW f, NEW do, DOMAIN f \subseteq Coordinates, BeginEval(f, do)
      PROVE  /\ \E slots \in SUBSET Slots : Rewritten(slots)
             /\ UNCHANGED <<outs, ran, all_ran>> /\ stale' = TRUE
             /\ answer' = NoAnswer /\ call'.phase # "stamp"
  BY <1>6, CoordsRewritten DEF BeginEval, Poll
<1>7. CASE BeginRead
  <2>1. DOMAIN coords \subseteq Coordinates
    BY <1>4 DEF TypeOK
  <2>2. CASE Eval
    BY <1>1, <1>3, <1>6, <2>1, <2>2 DEF Eval
  <2>3. CASE EvalAt
    BY <1>1, <1>3, <1>6, <2>3 DEF EvalAt
  <2>4. ASSUME NEW out \in Outputs, Pull(out)
        PROVE  /\ \E slots \in SUBSET Slots : Rewritten(slots)
               /\ UNCHANGED <<outs, ran, all_ran, stale>>
               /\ answer' = NoAnswer /\ call'.phase # "stamp"
    <3>1. UNCHANGED <<outs, ran, all_ran, stale>> /\ answer' = NoAnswer /\ call'.phase # "stamp"
      BY <2>4 DEF Pull, Poll
    <3>2. CASE stale
      BY <1>4, <2>1, <2>4, <3>1, <3>2, CoordsRewritten DEF Pull, TypeOK
    <3>3. CASE ~stale
      <4>1. Rewritten({})
        BY <1>4, <2>4, <3>3 DEF Pull, Rewritten
      <4> QED BY <3>1, <4>1
    <3> QED BY <3>1, <3>2, <3>3
  <2>5. ASSUME NEW out \in Outputs, EvalForSlot(out)
        PROVE  \E f \in [Coordinates -> InputValues] : BeginEval(f, "eval_at")
    <3>1. ~ConeGuard
      BY <2>5 DEF EvalForSlot, ConeGuard, NoGuardedReads, BuildInv
    <3> QED BY <2>5, <3>1 DEF EvalForSlot, GuardSkips
  <2> QED BY <1>1, <1>3, <1>6, <1>7, <2>2, <2>3, <2>4, <2>5 DEF BeginRead
<1>8. CASE TakeOwnRevision
  <2>1. call.slot \in Slots /\ call # NoCall
    BY <1>8, CallKinds DEF TakeOwnRevision, StateInv, OwnCalls
  <2>2. Rewritten({call.slot}) /\ stale' = TRUE
    BY <1>4, <1>8, <2>1 DEF TakeOwnRevision, ExternWritten, MarkDirty, TypeOK, Rewritten
  <2>3. UNCHANGED <<outs, ran, all_ran>> /\ call'.phase # "stamp" /\ answer' = NoAnswer
    BY <1>8, <2>1 DEF TakeOwnRevision, NoCall, StateInv, CallInv
  <2>4. {call.slot} \in SUBSET Slots
    BY <2>1
  <2> QED BY <1>1, <1>3, <2>2, <2>3, <2>4
<1> QED BY <1>5, <1>7, <1>8

\* Every step keeps what is held current right.
LEMMA MemoNext ==
    ASSUME NoGuardedReads, SidesDoNotFail, StateInv, BuildInv, MemoInv, [Next]_vars
    PROVE  MemoInv'
<1>1. Consulted' = Consulted /\ Consulted \subseteq Nodes /\ TypeOK
  BY BuildKept, StepsAssumption DEF Consulted, UseClean, build, StateInv
<1>2. CASE HostWrite \/ BeginRead \/ TakeOwnRevision
  <2>1. PICK slots \in SUBSET Slots : Rewritten(slots)
    BY <1>2, WritesRewrite
  <2>2. /\ UNCHANGED <<outs, ran>> /\ (all_ran' = all_ran \/ stale' = TRUE)
        /\ stale' = stale \/ stale' = TRUE
        /\ answer' = NoAnswer
    BY <1>2, WritesRewrite
  <2>3. Pending = {} /\ Pending' = {}
    BY <1>2, WritesRewrite DEF Pending
  <2>4. ASSUME NEW i \in clean' \cap Consulted PROVE Right(i)'
    <3>1. i \in Nodes /\ i \notin Reached(slots) /\ Right(i) /\ Provenance[i] \subseteq Slots
      BY <1>1, <2>1, <2>4, DirtyIsConsulted, ProvenanceSlots DEF Rewritten, MemoInv
    <3>2. \A s \in Provenance[i] : regs'[s] = regs[s]
      BY <2>1, <3>1 DEF Reached, Rewritten
    <3> QED BY <2>2, <2>3, <3>1, <3>2 DEF Right
  <2>5. ASSUME ~stale' PROVE ~stale /\ (\A s \in Slots : regs'[s] = regs[s]) /\ all_ran' = all_ran
    BY <2>1, <2>2, <2>5 DEF Rewritten
  <2>6. ~stale' => \A i \in Nodes : Right(i) => Right(i)'
    BY <2>2, <2>3, <2>5, ProvenanceSlots DEF Right
  <2>7. ran \subseteq Nodes /\ DOMAIN answer'.outputs = {}
    BY <1>1, <2>2 DEF TypeOK, NoAnswer
  <2> QED BY <1>1, <2>2, <2>4, <2>5, <2>6, <2>7 DEF MemoInv
<1>3. ASSUME UNCHANGED <<outs, regs, stale, ran, all_ran, clean, answer>>, Pending \subseteq Pending'
      PROVE  MemoInv'
  <2>1. \A i : Right(i) => Right(i)'
    BY <1>3 DEF Right
  <2> QED BY <1>1, <1>3, <2>1 DEF MemoInv
<1>4. CASE PollCell
  <2>1. call'.phase = call.phase \/ call'.phase = "refresh"
    <3>1. call \in ReadCalls
      BY <1>4, CallKinds DEF PollCell, StateInv
    <3> QED BY <1>4, <3>1 DEF PollCell, ReadCalls
  <2>2. Pending \subseteq Pending'
    BY <1>4, <2>1 DEF PollCell, Pending
  <2> QED BY <1>3, <1>4, <2>2 DEF PollCell, ReadVars
<1>5. CASE RefreshCell
  BY <1>3, <1>5 DEF RefreshCell, ReadVars, Pending
<1>6. CASE TakeRevision
  BY <1>3, <1>6 DEF TakeRevision, ReadVars, Pending
<1>7. CASE TakeValue
  <2>1. call \in TakeCalls /\ call.slot \in Slots /\ answer = NoAnswer
    BY <1>7, CallKinds DEF TakeValue, StateInv, CallInv, TakeCalls, NoCall
  <2>2. call'.phase = "stamp" /\ call'.slot = call.slot
    BY <1>7, <2>1 DEF TakeValue, TakeCalls
  <2>3. Pending = fetched /\ Pending' = fetched \cup {call.slot}
    BY <1>7, <2>2 DEF TakeValue, Pending
  <2>4. \A s \in Slots : s # call.slot => regs'[s] = regs[s]
    BY <1>1, <1>7 DEF TakeValue, TypeOK
  <2>5. \A i \in Nodes : Right(i) => Right(i)'
    BY <1>7, <2>3, <2>4, ProvenanceSlots DEF Right, TakeValue
  <2>6. clean \subseteq Nodes /\ ran \subseteq Nodes /\ DOMAIN NoAnswer.outputs = {}
    BY <1>1 DEF TypeOK, NoAnswer
  <2> QED BY <1>1, <1>7, <2>1, <2>5, <2>6 DEF MemoInv, TakeValue
<1>8. CASE Run \/ RunPanics
  <2>1. Polled
    BY <1>8, MarkedHaveRun
  <2>2. PICK done, begun :
          /\ RunSteps(done, begun) /\ done \subseteq Order
          /\ MarkedCurrent(Wanted \cap done, Wanted \cap begun) \subseteq Wanted \cap done
          /\ \A i \in done : \A u \in Upstream(i) : u \in done
          /\ \/ Run /\ done = Order /\ all_ran' = (allNow \/ FreshRun)
             \/ answer'.outputs = NoAnswer.outputs /\ all_ran' = allNow
    BY <1>8, MarkedHaveRun
  <2>3. /\ \A i \in Nodes, s \in Slots : s \notin Provenance[i] => outs'[i][s] = {}
        /\ \A i \in done : \A s \in Provenance[i] : outs'[i][s] = {regs[s]}
        /\ \A i \in Nodes : i \notin done => outs'[i] = outs[i]
    BY <2>1, <2>2, RunIsRight
  <2>4. /\ ran' = ranNow \cup (IF FreshRun \/ allNow THEN {} ELSE done)
        /\ clean' = cleanNow \cup MarkedCurrent(Wanted \cap done, Wanted \cap begun)
        /\ stale' = FALSE /\ fetched' = {} /\ call' = NoCall
    BY <2>2 DEF RunSteps
  <2>5. regs' = regs
    BY <1>8 DEF Run, RunPanics
  <2>6. Pending = fetched /\ Order \subseteq Nodes
    BY <2>1, OrderTyped DEF Pending, Polled
  <2>7. ASSUME NEW i \in Nodes, i \in done \/ \A s \in Provenance[i] : outs[i][s] = {regs[s]}
        PROVE  \A s \in Provenance[i] : outs'[i][s] = {regs[s]}
    BY <2>3, <2>7
  <2>8. ASSUME NEW i \in clean' \cap Consulted
        PROVE  \A s \in Provenance[i] : outs'[i][s] = {regs[s]}
    <3>1. CASE i \in done
      BY <1>1, <2>7, <2>8, <3>1
    <3>2. CASE i \notin done
      <4>1. i \in clean /\ i \notin Reached(fetched) /\ i \in Nodes
        BY <1>1, <2>2, <2>4, <2>8, <3>2 DEF cleanNow
      <4>2. \A s \in Provenance[i] : outs[i][s] = {regs[s]}
        BY <2>6, <2>8, <4>1 DEF Reached, MemoInv, Right
      <4> QED BY <2>7, <4>1, <4>2
    <3> QED BY <3>1, <3>2
  <2>9. ASSUME NEW i \in ran' PROVE \A s \in Provenance[i] : outs'[i][s] = {regs[s]}
    <3>1. CASE i \in done
      BY <2>2, <2>6, <2>7, <3>1
    <3>2. CASE i \notin done
      <4>1. ~stale /\ i \in ran /\ i \notin Reached(fetched) /\ i \in Nodes
        BY <1>1, <2>4, <2>9, <3>2 DEF ranNow, TypeOK
      <4>2. \A s \in Provenance[i] : outs[i][s] = {regs[s]}
        BY <2>6, <4>1 DEF Reached, MemoInv, Right
      <4> QED BY <2>7, <4>1, <4>2
    <3> QED BY <3>1, <3>2
  <2>10. ASSUME all_ran', NEW i \in Nodes PROVE \A s \in Provenance[i] : outs'[i][s] = {regs[s]}
    <3>1. CASE allNow
      <4>1. \A s \in Provenance[i] : outs[i][s] = {regs[s]}
        BY <2>6, <3>1 DEF allNow, MemoInv, Right
      <4> QED BY <2>7, <4>1
    <3>2. CASE ~allNow
      <4>1. done = Order /\ FreshRun
        BY <2>2, <2>10, <3>2
      <4>2. i \in done
        BY <2>1, <4>1, OrderTyped DEF FreshRun
      <4> QED BY <2>7, <4>2
    <3> QED BY <3>1, <3>2
  <2>11. ASSUME NEW i \in DOMAIN answer'.outputs
         PROVE  \A s \in Provenance[i] : answer'.outputs[i][s] = {regs[s]}
    <3>1. Run /\ done = Order
      BY <2>2, <2>11 DEF NoAnswer
    <3>2. i \in Order /\ answer'.outputs[i] = outs'[i]
      <4>1. CASE call.do = "cone"
        BY <2>1, <2>11, <3>1, <4>1, OrderTyped, ConeClosed DEF Run, Returned
      <4>2. CASE call.do # "cone"
        BY <2>1, <2>11, <3>1, <4>2, OrderTyped, StepsAssumption DEF Run, Returned
      <4> QED BY <4>1, <4>2
    <3> QED BY <2>6, <2>7, <3>1, <3>2
  <2>12. \A i : (\A s \in Provenance[i] : outs'[i][s] = {regs[s]}) => Right(i)'
    BY <2>5 DEF Right
  <2>13. \A i \in (clean \cap Consulted)' : Right(i)'
    BY <1>1, <2>8, <2>12
  <2>14. \A i \in ran' : Right(i)'
    BY <2>9, <2>12
  <2>15. all_ran' => \A i \in Nodes : Right(i)'
    BY <2>10, <2>12
  <2>16. \A i \in DOMAIN answer'.outputs :
           ~stale' /\ \A s \in Provenance[i] : answer'.outputs[i][s] = {regs'[s]}
    BY <2>4, <2>5, <2>11
  <2> QED BY <2>3, <2>13, <2>14, <2>15, <2>16 DEF MemoInv
<1>9. CASE UNCHANGED kernelVars
  BY <1>3, <1>9 DEF kernelVars, Pending
<1>10. UNCHANGED vars => UNCHANGED kernelVars
  BY DEF vars
<1>11. \A w \in Writers : StartPublish(w) \/ FinishPublish(w) => UNCHANGED kernelVars
  BY DEF StartPublish, FinishPublish
<1> QED BY <1>2, <1>4, <1>5, <1>6, <1>7, <1>8, <1>9, <1>10, <1>11 DEF Next, ReadStep

\* What is held to be current is right at all times.
LEMMA MemoCorrect ==
    ASSUME NoGuardedReads, SidesDoNotFail
    PROVE  Spec => []MemoInv
<1>1. Init => MemoInv
  <2> SUFFICES ASSUME Init PROVE MemoInv
    OBVIOUS
  <2>1. /\ outs = [i \in Nodes |-> [s \in Slots |-> {}]] /\ stale = TRUE
        /\ clean = {i \in Nodes : Provenance[i] = {} /\ i \notin NondetNodes}
        /\ answer = NoAnswer
    BY DEF Init, KernelInit
  <2> QED BY <2>1 DEF MemoInv, Right, NoAnswer
<1>2. StateInv /\ BuildInv /\ MemoInv /\ [Next]_vars => MemoInv'
  BY MemoNext
<1> QED BY <1>1, <1>2, StateCorrect, Built, PTL DEF Spec

-----------------------------------------------------------------------------
(* The local slots.                                                        *)

\* A host drives a kernel through the trait or through the slots, not both.
OneSurface == \A b \in Builds : ~({"Kernel", "SlotKernel"} \subseteq b[2])

\* The registers of the local slots hold what the host wrote last: an extern's at
\* all times, a coordinate's once the round it was kept for has begun.
WantedInv ==
    /\ \A s \in Slots \ Coordinates : cell[s] = NoCell => regs[s] = wanted[s]
    /\ \A s \in Coordinates :
         /\ cell[s] = NoCell
         /\ wanted[s] = IF s \in DOMAIN coords THEN coords[s] ELSE regs[s]
         /\ ~stale \/ Reading => regs[s] = wanted[s]
    /\ "Kernel" \notin surfaces => coords = NoCoords

-----------------------------------------------------------------------------

\* A host's write is the host's latest value of what it writes.
LEMMA WantedHostWrite ==
    ASSUME StateInv, WantedInv, HostWrite
    PROVE  WantedInv'
<1>1. call = NoCall /\ TypeOK /\ Coordinates \subseteq Slots
  BY CoordinatesAreLocal
     DEF HostWrite, SetInputs, ResetInputs, InvalidateAll, RefusedWrite, SetInput, SetCellInput,
         AttachSharedCell, BindInputCell, HostIdle, StateInv
<1>2. NoCall \notin ReadCalls \cup TakeCalls
  BY DEF NoCall, ReadCalls, TakeCalls
<1>3. CASE SetInputs
  <2>1. coords' \in [Coordinates -> InputValues]
        /\ wanted' = [s \in Slots |-> IF s \in Coordinates THEN coords'[s] ELSE wanted[s]]
        /\ UNCHANGED <<surfaces, cell, regs, call>> /\ stale' = TRUE /\ "Kernel" \in surfaces
    BY <1>3 DEF SetInputs, build
  <2>2. ~Reading'
    BY <1>1, <1>2, <2>1 DEF Reading
  <2> QED BY <1>1, <2>1, <2>2 DEF WantedInv
<1>4. ASSUME NEW s \in Slots, SetInput(s) PROVE WantedInv'
  <2>1. PICK v : regs' = [regs EXCEPT ![s] = v] /\ wanted' = [wanted EXCEPT ![s] = v]
    BY <1>4 DEF SetInput
  <2>2. UNCHANGED <<surfaces, cell, coords, call>> /\ stale' = TRUE /\ s \notin Coordinates
    BY <1>4 DEF SetInput, ExternWritten, build
  <2>3. ~Reading'
    BY <1>1, <1>2, <2>2 DEF Reading
  <2> QED BY <1>1, <2>1, <2>2, <2>3 DEF WantedInv, TypeOK
<1>5. CASE ResetInputs
  <2>1. PICK reset \in SUBSET (Slots \ Coordinates) :
          /\ regs' = [s \in Slots |-> IF s \in reset THEN 0 ELSE regs[s]]
          /\ wanted' = [s \in Slots |-> IF s \in reset THEN 0 ELSE wanted[s]]
    BY <1>5 DEF ResetInputs
  <2>2. UNCHANGED <<surfaces, cell, coords, call>> /\ stale' = TRUE
    BY <1>5 DEF ResetInputs, ExternWritten, build
  <2>3. ~Reading'
    BY <1>1, <1>2, <2>2 DEF Reading
  <2> QED BY <1>1, <2>1, <2>2, <2>3 DEF WantedInv, TypeOK
<1>6. CASE InvalidateAll \/ RefusedWrite
  <2>1. UNCHANGED <<surfaces, cell, coords, call, regs, wanted>> /\ stale' = TRUE
    BY <1>6 DEF InvalidateAll, RefusedWrite, build
  <2>2. ~Reading'
    BY <1>1, <1>2, <2>1 DEF Reading
  <2> QED BY <2>1, <2>2 DEF WantedInv
<1>7. ASSUME NEW s \in Slots, SetCellInput(s) PROVE WantedInv'
  <2>1. UNCHANGED <<surfaces, cell, coords, regs, wanted, stale>> /\ call'.phase = "own"
    BY <1>7 DEF SetCellInput, build
  <2>2. ~Reading'
    BY <2>1 DEF Reading, ReadCalls, TakeCalls
  <2> QED BY <2>1, <2>2 DEF WantedInv
<1>8. ASSUME NEW pair \in Attachable,
             AttachSharedCell(pair[1], pair[2]) \/ BindInputCell(pair[1], pair[2])
      PROVE  WantedInv'
  <2>1. pair[1] \in Slots \ Coordinates /\ pair[2] \in Cells /\ NoCell \notin Cells
    BY CoordinatesAreLocal
  <2>2. /\ cell' = [cell EXCEPT ![pair[1]] = pair[2]] /\ (stale' = stale \/ stale' = TRUE)
        /\ wanted' = [wanted EXCEPT ![pair[1]] = 0] /\ UNCHANGED <<surfaces, coords, regs, call>>
    BY <1>8 DEF AttachSharedCell, BindInputCell, build
  <2>3. ~Reading'
    BY <1>1, <1>2, <2>2 DEF Reading
  <2>4. \A s \in Slots : cell'[s] = NoCell => cell[s] = NoCell /\ wanted'[s] = wanted[s]
    BY <1>1, <2>1, <2>2 DEF TypeOK
  <2>5. \A s \in Coordinates : cell'[s] = cell[s] /\ wanted'[s] = wanted[s]
    BY <1>1, <2>1, <2>2 DEF TypeOK
  <2> QED BY <1>1, <2>2, <2>3, <2>4, <2>5 DEF WantedInv
<1> QED BY <1>3, <1>4, <1>5, <1>6, <1>7, <1>8 DEF HostWrite

\* Coordinates that are written are in their registers.
LEMMA CoordsWritten ==
    ASSUME TypeOK, NEW f, DOMAIN f \subseteq Coordinates, WriteCoords(f)
    PROVE  \A s \in Slots : regs'[s] = IF s \in DOMAIN f THEN f[s] ELSE regs[s]
BY DEF WriteCoords

\* A read that begins has the coordinates in their registers.
LEMMA WantedBeginRead ==
    ASSUME NoGuardedReads, OneSurface, StateInv, BuildInv, WantedInv, BeginRead
    PROVE  WantedInv'
<1>1. TypeOK /\ Coordinates \subseteq Slots /\ DOMAIN coords \subseteq Coordinates
  BY CoordinatesAreLocal DEF StateInv, TypeOK
<1>2. UNCHANGED <<surfaces, cell, coords>>
  BY DEF BeginRead, Eval, EvalAt, EvalForSlot, Pull, BeginEval, build
<1>3. ASSUME UNCHANGED wanted, WriteCoords(coords) \/ (~stale /\ regs' = regs) PROVE WantedInv'
  <2>1. \A s \in Slots : regs'[s] = regs[s] \/ (s \in DOMAIN coords /\ regs'[s] = coords[s])
    BY <1>1, <1>3, CoordsWritten
  <2>2. \A s \in Slots : s \notin Coordinates => regs'[s] = regs[s]
    BY <1>1, <1>3, CoordsWritten
  <2>3. \A s \in Coordinates : regs'[s] = wanted[s]
    <3>1. CASE WriteCoords(coords)
      BY <1>1, <3>1, CoordsWritten DEF WantedInv
    <3>2. CASE ~stale /\ regs' = regs
      BY <3>2 DEF WantedInv
    <3> QED BY <1>3, <3>1, <3>2
  <2>4. \A s \in Coordinates : wanted[s] = IF s \in DOMAIN coords THEN coords[s] ELSE regs'[s]
    BY <2>3 DEF WantedInv
  <2> QED BY <1>2, <1>3, <2>2, <2>3, <2>4 DEF WantedInv
<1>4. ASSUME NEW f \in [Coordinates -> InputValues], "SlotKernel" \in surfaces,
             WriteCoords(f), WantCoords(f)
      PROVE  WantedInv'
  <2>1. coords = NoCoords
    <3>1. <<mode, surfaces>> \in Builds /\ <<mode, surfaces>>[2] = surfaces
      BY DEF BuildInv
    <3>2. "Kernel" \notin surfaces
      BY <1>4, <3>1 DEF OneSurface
    <3> QED BY <3>2 DEF WantedInv
  <2>2. \A s \in Slots : regs'[s] = IF s \in Coordinates THEN f[s] ELSE regs[s]
    BY <1>1, <1>4, CoordsWritten
  <2>3. \A s \in Slots : wanted'[s] = IF s \in Coordinates THEN f[s] ELSE wanted[s]
    BY <1>4 DEF WantCoords
  <2> QED BY <1>1, <1>2, <2>1, <2>2, <2>3 DEF WantedInv, NoCoords
<1>5. CASE Eval
  BY <1>3, <1>5 DEF Eval, BeginEval
<1>6. CASE EvalAt
  BY <1>4, <1>6 DEF EvalAt, BeginEval
<1>7. ASSUME NEW out \in Outputs, Pull(out) PROVE WantedInv'
  <2>1. CASE stale
    BY <1>3, <1>7, <2>1 DEF Pull
  <2>2. CASE ~stale
    BY <1>3, <1>7, <2>2 DEF Pull
  <2> QED BY <2>1, <2>2
<1>8. ASSUME NEW out \in Outputs, EvalForSlot(out) PROVE WantedInv'
  <2>1. ~ConeGuard
    BY <1>8 DEF EvalForSlot, ConeGuard, NoGuardedReads, BuildInv
  <2> QED BY <1>4, <1>8, <2>1 DEF EvalForSlot, GuardSkips, BeginEval
<1> QED BY <1>5, <1>6, <1>7, <1>8 DEF BeginRead

\* Every step keeps the registers of the local slots at what the host wrote.
LEMMA WantedNext ==
    ASSUME NoGuardedReads, OneSurface, StateInv, BuildInv, WantedInv, [Next]_vars
    PROVE  WantedInv'
<1>1. TypeOK /\ Coordinates \subseteq Slots
  BY CoordinatesAreLocal DEF StateInv
<1>2. ASSUME UNCHANGED <<surfaces, cell, regs, wanted, coords, stale>>, Reading' => Reading
      PROVE  WantedInv'
  BY <1>2 DEF WantedInv
<1>3. CASE PollCell \/ RefreshCell
  <2>1. Reading
    BY <1>3, CallKinds DEF StateInv, PollCell, RefreshCell, Phases
  <2> QED BY <1>2, <1>3, <2>1 DEF PollCell, RefreshCell, ReadVars, build
<1>4. CASE TakeRevision
  <2>1. Reading
    BY <1>4, CallKinds DEF StateInv, TakeRevision, Phases
  <2> QED BY <1>2, <1>4, <2>1 DEF TakeRevision, ReadVars, build
<1>5. CASE TakeValue
  <2>1. Reading /\ call.slot \in Slots /\ cell[call.slot] # NoCell
    BY <1>5, CallKinds DEF StateInv, CallInv, CellSlots, TakeValue, Phases
  <2>2. UNCHANGED <<surfaces, cell, wanted, coords, stale>>
    BY <1>5 DEF TakeValue, build
  <2>3. \A s \in Slots : cell[s] = NoCell => regs'[s] = regs[s]
    BY <1>1, <1>5, <2>1 DEF TakeValue, TypeOK
  <2>4. \A s \in Coordinates : regs'[s] = regs[s]
    BY <1>1, <2>3 DEF WantedInv
  <2> QED BY <1>1, <2>1, <2>2, <2>3, <2>4 DEF WantedInv
<1>6. CASE TakeOwnRevision
  <2>1. call.slot \in Slots /\ cell[call.slot] # NoCell
    BY <1>6, CallKinds DEF StateInv, CallInv, CellSlots, TakeOwnRevision
  <2>2. UNCHANGED <<surfaces, cell, wanted, coords>> /\ stale' = TRUE /\ call' = NoCall
    BY <1>6 DEF TakeOwnRevision, ExternWritten, build
  <2>3. \A s \in Slots : cell[s] = NoCell => regs'[s] = regs[s]
    BY <1>1, <1>6, <2>1 DEF TakeOwnRevision, TypeOK
  <2>4. \A s \in Coordinates : regs'[s] = regs[s]
    BY <1>1, <2>3 DEF WantedInv
  <2>5. ~Reading'
    BY <2>2 DEF Reading, NoCall, ReadCalls, TakeCalls
  <2> QED BY <1>1, <2>2, <2>3, <2>4, <2>5 DEF WantedInv
<1>7. CASE Run \/ RunPanics
  <2>1. Reading
    BY <1>7, CallKinds DEF StateInv, Run, RunPanics, Polled, Phases
  <2>2. UNCHANGED <<surfaces, cell, regs, wanted>>
    BY <1>7 DEF Run, RunPanics, build
  <2>3. coords' = coords \/ coords' = NoCoords
    BY <1>7 DEF Run, RunPanics
  <2>4. \A s \in Coordinates : regs[s] = wanted[s] /\ cell[s] = NoCell
    BY <2>1 DEF WantedInv
  <2> QED BY <2>2, <2>3, <2>4 DEF WantedInv, NoCoords
<1>8. CASE UNCHANGED kernelVars
  BY <1>2, <1>8 DEF kernelVars, Reading
<1>9. UNCHANGED vars => UNCHANGED kernelVars
  BY DEF vars
<1>10. \A w \in Writers : StartPublish(w) \/ FinishPublish(w) => UNCHANGED kernelVars
  BY DEF StartPublish, FinishPublish
<1> QED BY <1>3, <1>4, <1>5, <1>6, <1>7, <1>8, <1>9, <1>10, WantedHostWrite, WantedBeginRead
    DEF Next, ReadStep

\* The evaluation rule for the slots a kernel holds itself: in every mode, through
\* every sequence of writes, refreshes, panics and reads, what is read was
\* computed from the host's latest write to each slot that reaches it.  (Without
\* the first hypothesis CompiledConeGuard.cfg, without the third CompiledEvalAt.cfg.)
THEOREM LocalWritesAreRead ==
    ASSUME NoGuardedReads, SidesDoNotFail, OneSurface
    PROVE  Spec => []AnswersSeeLocalWrites
<1>1. Init => WantedInv
  BY BindingAssumption DEF Init, KernelInit, WantedInv, NoCoords
<1>2. StateInv /\ BuildInv /\ WantedInv /\ [Next]_vars => WantedInv'
  BY WantedNext
<1>3. StateInv /\ MemoInv /\ WantedInv => AnswersSeeLocalWrites
  <2> SUFFICES ASSUME StateInv, MemoInv, WantedInv, NEW i \in DOMAIN answer.outputs,
                      NEW s \in Provenance[i], cell[s] = NoCell
               PROVE  answer.outputs[i][s] = {wanted[s]}
    BY DEF AnswersSeeLocalWrites
  <2>1. i \in Nodes /\ s \in Slots
    BY StepsAssumption, ProvenanceSlots DEF StateInv, TypeOK
  <2>2. ~stale /\ answer.outputs[i][s] = {regs[s]}
    BY DEF MemoInv
  <2>3. regs[s] = wanted[s]
    BY <2>1, <2>2 DEF WantedInv
  <2> QED BY <2>2, <2>3
<1> QED BY <1>1, <1>2, <1>3, StateCorrect, Built, MemoCorrect, PTL DEF Spec

-----------------------------------------------------------------------------
(* The slots bound to cells, whatever other fibers publish meanwhile.      *)

\* No publish of a cell carries a later stamp than the cell.
StampsInv ==
    /\ \A c \in Cells : completed[c] <= value[c]
    /\ \A w \in Writers : InPublish(w) => publishing[w].stamp <= value[publishing[w].cell]

\* The writes of cell c that a consumer could tell by its revision are no later
\* than v: those complete, and those that have bumped it and have yet to return.
Held(c, v) ==
    /\ completed[c] <= v
    /\ \A w \in Writers :
         publishing[w].stage = "bumped" /\ publishing[w].cell = c => publishing[w].stamp <= v

\* Slot s is the one whose own write has not returned.
InOwnWrite(s) == call.phase = "own" /\ call.slot = s

\* A slot that has seen its cell's revision holds every write behind it.  The same
\* is true of the value a refresh has taken and of the one a host is publishing,
\* before the revision is: unless a publish has fallen between the two accesses.
SeenInv ==
    /\ \A s \in Coordinates : cell[s] = NoCell
    /\ \A s \in CellSlots : seen[s] <= revision[cell[s]]
    /\ \A s \in CellSlots :
         s \notin torn /\ ~InOwnWrite(s) /\ seen[s] = revision[cell[s]] => Held(cell[s], regs[s])
    /\ call.phase = "stamp" /\ call.slot \notin torn => Held(cell[call.slot], regs[call.slot])
    /\ call.phase = "own" /\ call.slot \notin torn => Held(cell[call.slot], call.stamp)

-----------------------------------------------------------------------------

\* A fiber inside `publish` works on one of the cells.
LEMMA InPublishType ==
    ASSUME CellTypeOK, NEW w \in Writers
    PROVE  /\ publishing[w].stage \in {"stored", "bumped"} <=> InPublish(w)
           /\ InPublish(w) => publishing[w] \in [stage : {"stored", "bumped"}, cell : Cells, stamp : Nat]
BY DEF CellTypeOK, Publications, Idle, InPublish

\* Every step keeps the stamps within their cells.
LEMMA StampsNext ==
    ASSUME StateInv, StampsInv, [Next]_vars
    PROVE  StampsInv'
<1>1. CellTypeOK /\ [CellNext]_cellVars
  BY CellStep DEF StateInv, TypeOK
<1>2. ASSUME NEW w \in Writers, NEW c \in Cells, Store(w, c) PROVE StampsInv'
  <2>1. /\ value' = [value EXCEPT ![c] = @ + 1] /\ completed' = completed
        /\ publishing' = [publishing EXCEPT ![w] =
             [stage |-> "stored", cell |-> c, stamp |-> value[c] + 1]]
    BY <1>2 DEF Store
  <2>2. \A d \in Cells : value[d] \in Nat /\ completed[d] \in Nat /\ value'[d] \in Nat /\ value[d] <= value'[d]
    BY <1>1, <2>1 DEF CellTypeOK
  <2>3. ASSUME NEW v \in Writers, InPublish(v)' PROVE publishing'[v].stamp <= value'[publishing'[v].cell]
    <3>1. CASE v = w
      BY <1>1, <2>1, <3>1 DEF CellTypeOK
    <3>2. CASE v # w
      <4>1. publishing'[v] = publishing[v] /\ InPublish(v)
        BY <1>1, <2>1, <2>3, <3>2 DEF CellTypeOK, InPublish
      <4>2. publishing[v].cell \in Cells /\ publishing[v].stamp \in Nat
        BY <1>1, <4>1, InPublishType
      <4> QED BY <2>2, <4>1, <4>2 DEF StampsInv
    <3> QED BY <3>1, <3>2
  <2> QED BY <2>1, <2>2, <2>3 DEF StampsInv
<1>3. ASSUME NEW w \in Writers, Bump(w) PROVE StampsInv'
  <2>1. /\ UNCHANGED <<value, completed>> /\ publishing[w].stage = "stored"
        /\ publishing' = [publishing EXCEPT ![w].stage = "bumped"]
    BY <1>3 DEF Bump
  <2>2. InPublish(w)
    BY <1>1, <2>1, InPublishType
  <2>3. \A v \in Writers : /\ publishing'[v].stamp = publishing[v].stamp
                           /\ publishing'[v].cell = publishing[v].cell
                           /\ InPublish(v)' => InPublish(v)
    BY <1>1, <2>1, <2>2, InPublishType DEF CellTypeOK, InPublish
  <2> QED BY <2>1, <2>3 DEF StampsInv
<1>4. ASSUME NEW w \in Writers, Mark(w) PROVE StampsInv'
  <2>1. InPublish(w) /\ publishing[w].cell \in Cells /\ publishing[w].stamp \in Nat
    BY <1>1, <1>4, InPublishType DEF Mark
  <2>2. /\ value' = value /\ publishing' = [publishing EXCEPT ![w] = Idle]
        /\ completed' = [completed EXCEPT ![publishing[w].cell] =
             IF publishing[w].stamp > @ THEN publishing[w].stamp ELSE @]
    BY <1>4 DEF Mark
  <2>3. \A v \in Writers : InPublish(v)' => publishing'[v] = publishing[v] /\ InPublish(v)
    BY <1>1, <2>2 DEF CellTypeOK, InPublish
  <2>4. \A d \in Cells : completed'[d] <= value'[d]
    BY <1>1, <2>1, <2>2 DEF StampsInv, CellTypeOK
  <2> QED BY <2>2, <2>3, <2>4 DEF StampsInv
<1>5. CASE UNCHANGED cellVars
  BY <1>5 DEF cellVars, StampsInv, InPublish
<1> QED BY <1>1, <1>2, <1>3, <1>4, <1>5 DEF CellNext, Publish

\* The latest value of a cell holds every write of it, and so does a later one.
LEMMA LatestHolds ==
    ASSUME CellTypeOK, StampsInv, NEW c \in Cells, NEW v \in Nat, value[c] <= v
    PROVE  Held(c, v)
<1>1. completed[c] \in Nat /\ value[c] \in Nat
  BY DEF CellTypeOK
<1>2. ASSUME NEW w \in Writers, publishing[w].stage = "bumped", publishing[w].cell = c
      PROVE  publishing[w].stamp <= v
  <2>1. InPublish(w) /\ publishing[w].stamp \in Nat
    BY <1>2, InPublishType
  <2> QED BY <1>1, <1>2, <2>1 DEF StampsInv
<1> QED BY <1>1, <1>2 DEF Held, StampsInv

\* What is held of a cell stays held, but for the bump of a later write.
LEMMA HeldUntilBump ==
    ASSUME CellTypeOK, NEW c \in Cells, NEW v \in Nat, Held(c, v)
    PROVE  /\ UNCHANGED cellVars => Held(c, v)'
           /\ \A w \in Writers, d \in Cells : Store(w, d) => Held(c, v)'
           /\ \A w \in Writers : Mark(w) => Held(c, v)'
           /\ \A w \in Writers : Bump(w) /\ ~(publishing[w].cell = c /\ publishing[w].stamp > v) =>
                Held(c, v)'
<1>1. UNCHANGED cellVars => Held(c, v)'
  BY DEF Held, cellVars
<1>2. ASSUME NEW w \in Writers, NEW d \in Cells, Store(w, d) PROVE Held(c, v)'
  <2>1. /\ publishing' = [publishing EXCEPT ![w] =
             [stage |-> "stored", cell |-> d, stamp |-> value[d] + 1]]
        /\ completed' = completed
    BY <1>2 DEF Store
  <2>2. \A u \in Writers : publishing'[u].stage = "bumped" => publishing'[u] = publishing[u]
    BY <2>1 DEF CellTypeOK
  <2> QED BY <2>1, <2>2 DEF Held
<1>3. ASSUME NEW w \in Writers, Mark(w) PROVE Held(c, v)'
  <2>1. InPublish(w) /\ publishing[w].cell \in Cells /\ publishing[w].stamp \in Nat
    BY <1>3, InPublishType DEF Mark
  <2>2. /\ publishing' = [publishing EXCEPT ![w] = Idle] /\ publishing[w].stage = "bumped"
        /\ completed' = [completed EXCEPT ![publishing[w].cell] =
             IF publishing[w].stamp > @ THEN publishing[w].stamp ELSE @]
    BY <1>3 DEF Mark
  <2>3. \A u \in Writers : publishing'[u].stage = "bumped" => publishing'[u] = publishing[u]
    BY <2>2 DEF CellTypeOK, Idle
  <2>4. completed'[c] <= v
    BY <2>1, <2>2 DEF Held, CellTypeOK
  <2> QED BY <2>3, <2>4 DEF Held
<1>4. ASSUME NEW w \in Writers, Bump(w), ~(publishing[w].cell = c /\ publishing[w].stamp > v)
      PROVE  Held(c, v)'
  <2>1. InPublish(w) /\ publishing[w] \in [stage : {"stored", "bumped"}, cell : Cells, stamp : Nat]
    BY <1>4, InPublishType DEF Bump
  <2>2. publishing' = [publishing EXCEPT ![w].stage = "bumped"] /\ completed' = completed
    BY <1>4 DEF Bump
  <2>3. \A u \in Writers : /\ u # w => publishing'[u] = publishing[u]
                           /\ u = w => /\ publishing'[u].cell = publishing[w].cell
                                       /\ publishing'[u].stamp = publishing[w].stamp
    BY <2>1, <2>2 DEF CellTypeOK
  <2>4. publishing[w].cell = c => publishing[w].stamp <= v
    BY <1>4, <2>1
  <2> QED BY <2>2, <2>3, <2>4 DEF Held
<1> QED BY <1>1, <1>2, <1>3, <1>4

\* Revisions and completed stamps only grow.
LEMMA CellsAdvance ==
    ASSUME StateInv, [Next]_vars, NEW c \in Cells
    PROVE  revision[c] <= revision'[c] /\ completed[c] <= completed'[c]
<1> DEFINE Grows == revision[c] <= revision'[c] /\ completed[c] <= completed'[c]
<1>1. CellTypeOK /\ [CellNext]_cellVars
  BY CellStep DEF StateInv, TypeOK
<1>2. revision[c] \in Nat /\ completed[c] \in Nat
  BY <1>1 DEF CellTypeOK
<1>3. ASSUME NEW w \in Writers, NEW d \in Cells, Store(w, d) PROVE Grows
  BY <1>2, <1>3 DEF Store
<1>4. ASSUME NEW w \in Writers, Bump(w) PROVE Grows
  BY <1>1, <1>2, <1>4 DEF Bump, CellTypeOK
<1>5. ASSUME NEW w \in Writers, Mark(w) PROVE Grows
  <2>1. publishing[w] \in [stage : {"stored", "bumped"}, cell : Cells, stamp : Nat]
    BY <1>1, <1>5, InPublishType DEF Mark
  <2> QED BY <1>1, <1>2, <1>5, <2>1 DEF Mark, CellTypeOK
<1>6. CASE UNCHANGED cellVars
  BY <1>2, <1>6 DEF cellVars
<1> QED BY <1>1, <1>3, <1>4, <1>5, <1>6 DEF CellNext, Publish

\* A host's write, and the beginning of a read, change no register bound to a cell,
\* and no slot's cell but to have it unseen; no torn slot is mended but the one the
\* host begins to write.
LEMMA SlotsKept ==
    ASSUME StateInv, SeenInv, HostWrite \/ BeginRead
    PROVE  /\ \A s \in CellSlots' :
                \/ seen'[s] = Unseen
                \/ /\ s \in CellSlots /\ UNCHANGED <<cell[s], seen[s], regs[s]>>
                   /\ s \in torn => s \in torn' \/ InOwnWrite(s)'
           /\ \A s \in Coordinates : cell'[s] = NoCell
           /\ call = NoCall /\ call'.phase # "stamp"
           /\ call'.phase = "own" => \E s \in Slots : SetCellInput(s)
<1>1. TypeOK /\ Coordinates \subseteq Slots /\ \A s \in Coordinates : cell[s] = NoCell
  BY CoordinatesAreLocal DEF StateInv, SeenInv
<1> DEFINE Kept == /\ \A s \in CellSlots' :
                        \/ seen'[s] = Unseen
                        \/ /\ s \in CellSlots /\ UNCHANGED <<cell[s], seen[s], regs[s]>>
                           /\ s \in torn => s \in torn' \/ InOwnWrite(s)'
                   /\ \A s \in Coordinates : cell'[s] = NoCell
<1>2. ASSUME UNCHANGED <<cell, seen, torn>>, \A s \in CellSlots : regs'[s] = regs[s]
      PROVE  Kept
  BY <1>1, <1>2 DEF CellSlots
<1>3. ASSUME NEW f, DOMAIN f \subseteq Coordinates, WriteCoords(f)
      PROVE  \A s \in CellSlots : regs'[s] = regs[s]
  BY <1>1, <1>3, CoordsWritten DEF CellSlots
<1>4. ASSUME NEW pair \in Attachable,
             AttachSharedCell(pair[1], pair[2]) \/ BindInputCell(pair[1], pair[2])
      PROVE  Kept
  <2>1. pair[1] \in Slots \ Coordinates
    BY CoordinatesAreLocal
  <2>2. /\ cell' = [cell EXCEPT ![pair[1]] = pair[2]] /\ seen' = [seen EXCEPT ![pair[1]] = Unseen]
        /\ regs' = regs /\ torn' = torn \ {pair[1]}
    BY <1>4 DEF AttachSharedCell, BindInputCell
  <2>3. seen'[pair[1]] = Unseen
    BY <1>1, <2>1, <2>2 DEF TypeOK
  <2>4. \A s \in Slots : s # pair[1] => cell'[s] = cell[s] /\ seen'[s] = seen[s]
    BY <1>1, <2>2 DEF TypeOK
  <2> QED BY <1>1, <2>1, <2>2, <2>3, <2>4 DEF CellSlots
<1>5. ASSUME NEW s \in Slots, SetInput(s) PROVE Kept
  <2>1. \A t \in CellSlots : regs'[t] = regs[t]
    BY <1>1, <1>5 DEF SetInput, CellSlots, TypeOK
  <2> QED BY <1>2, <1>5, <2>1 DEF SetInput
<1>6. ASSUME ResetInputs PROVE Kept
  <2>1. \A t \in CellSlots : regs'[t] = regs[t]
    BY <1>1, <1>6 DEF ResetInputs, CellSlots, TypeOK
  <2>2. UNCHANGED <<cell, seen, torn>>
    BY <1>6 DEF ResetInputs
  <2> QED BY <1>2, <2>1, <2>2
<1>7. ASSUME SetInputs \/ InvalidateAll \/ RefusedWrite PROVE Kept
  BY <1>2, <1>7 DEF SetInputs, InvalidateAll, RefusedWrite
<1>8. ASSUME NEW s \in Slots, SetCellInput(s) PROVE Kept
  <2>1. UNCHANGED <<cell, seen, regs>> /\ torn' = torn \ {s}
    BY <1>8 DEF SetCellInput
  <2>2. InOwnWrite(s)'
    BY <1>8 DEF SetCellInput, InOwnWrite
  <2> QED BY <1>1, <2>1, <2>2 DEF CellSlots
<1>9. ASSUME BeginRead PROVE Kept
  <2>1. DOMAIN coords \subseteq Coordinates
    BY <1>1 DEF TypeOK
  <2>2. CASE Eval
    BY <1>2, <1>3, <2>1, <2>2 DEF Eval, BeginEval
  <2>3. CASE EvalAt
    BY <1>2, <1>3, <2>3 DEF EvalAt, BeginEval
  <2>4. ASSUME NEW out \in Outputs, Pull(out) PROVE Kept
    BY <1>2, <1>3, <2>1, <2>4 DEF Pull
  <2>5. ASSUME NEW out \in Outputs, EvalForSlot(out) PROVE Kept
    BY <1>2, <1>3, <2>5 DEF EvalForSlot, BeginEval
  <2> QED BY <1>9, <2>2, <2>3, <2>4, <2>5 DEF BeginRead
<1>10. HostWrite => Kept
  BY <1>4, <1>5, <1>6, <1>7, <1>8 DEF HostWrite
<1>11. /\ call = NoCall /\ call'.phase # "stamp"
       /\ call'.phase = "own" => \E s \in Slots : SetCellInput(s)
  <2>1. CASE HostWrite
    <3>1. \A s \in Slots : SetCellInput(s) => call'.phase = "own" /\ call = NoCall
      BY DEF SetCellInput, HostIdle
    <3>2. (call' = call /\ call = NoCall) \/ \E s \in Slots : SetCellInput(s)
      BY <2>1 DEF HostWrite, SetInputs, ResetInputs, InvalidateAll, RefusedWrite, SetInput,
                  AttachSharedCell, BindInputCell, HostIdle
    <3> QED BY <3>1, <3>2 DEF NoCall
  <2>2. \A f, do : BeginEval(f, do) => call'.phase = "poll"
    BY DEF BeginEval, Poll
  <2>3. \A out \in Outputs : Pull(out) => call'.phase = "poll" /\ call = NoCall
    BY DEF Pull, Poll, HostIdle
  <2>4. CASE BeginRead
    <3>1. Eval \/ EvalAt => call'.phase = "poll" /\ call = NoCall
      BY <2>2 DEF Eval, EvalAt, HostIdle
    <3>2. \A out \in Outputs : EvalForSlot(out) => call = NoCall /\ (call'.phase = "poll" \/ call' = call)
      BY <2>2 DEF EvalForSlot, HostIdle
    <3> QED BY <2>3, <2>4, <3>1, <3>2 DEF BeginRead, NoCall
  <2> QED BY <2>1, <2>4
<1> HIDE DEF Kept
<1> QED BY <1>9, <1>10, <1>11 DEF Kept

\* Every step keeps what a slot has seen in its register.
LEMMA SeenNext ==
    ASSUME StateInv, StampsInv, SeenInv, [Next]_vars
    PROVE  SeenInv'
<1>1. /\ TypeOK /\ CellTypeOK /\ Coordinates \subseteq Slots /\ CellSlots \subseteq Slots
      /\ \A s \in CellSlots : cell[s] \in Cells /\ regs[s] \in Nat /\ seen[s] \in Nat \cup {Unseen}
  BY CoordinatesAreLocal DEF StateInv, TypeOK, CellSlots
<1>2. \A c \in Cells : /\ revision[c] \in Nat /\ value[c] \in Nat /\ revision'[c] \in Nat
                       /\ revision[c] <= revision'[c]
  BY <1>1, StateNext, CellsAdvance DEF CellTypeOK, StateInv, TypeOK
<1>3. /\ call.phase \in {"take", "stamp"} => call \in TakeCalls /\ call.slot \in CellSlots
      /\ call.phase = "own" => call \in OwnCalls /\ call.slot \in CellSlots /\ call.stamp \in Nat
  BY CallKinds DEF StateInv, CallInv, OwnCalls
<1>4. CASE HostWrite \/ BeginRead
  <2>1. revision' = revision
    BY <1>4, CellsKept DEF HostWrite, SetCellInput, Store, cellVars
  <2>2. ASSUME NEW c \in Cells, NEW v \in Nat, Held(c, v) PROVE Held(c, v)'
    <3>1. \A s \in Slots : SetCellInput(s) => cell[s] \in Cells /\ Store(Self, cell[s])
      BY <1>1 DEF SetCellInput, TypeOK
    <3>2. UNCHANGED cellVars \/ \E s \in Slots : SetCellInput(s)
      BY <1>4, CellsKept DEF HostWrite
    <3> QED BY <1>1, <2>2, <3>1, <3>2, HeldUntilBump, SelfAssumption
  <2>3. ASSUME NEW s \in CellSlots', seen'[s] # Unseen
        PROVE  /\ s \in CellSlots /\ UNCHANGED <<cell[s], seen[s], regs[s]>>
               /\ s \in torn => s \in torn' \/ InOwnWrite(s)'
    BY <1>4, <2>3, SlotsKept
  <2>4. \A s \in CellSlots' : seen'[s] <= revision'[cell'[s]]
    <3> TAKE s \in CellSlots'
    <3>1. cell'[s] \in Cells
      BY StateNext DEF StateInv, TypeOK, CellSlots
    <3>2. CASE seen'[s] = Unseen
      BY <1>2, <3>1, <3>2 DEF Unseen
    <3>3. CASE seen'[s] # Unseen
      BY <2>1, <2>3, <3>3 DEF SeenInv
    <3> QED BY <3>2, <3>3
  <2>5. ASSUME NEW s \in CellSlots', s \notin torn', ~InOwnWrite(s)', seen'[s] = revision'[cell'[s]]
        PROVE  Held(cell[s], regs[s])' /\ UNCHANGED <<cell[s], regs[s]>>
    <3>1. cell'[s] \in Cells
      BY StateNext DEF StateInv, TypeOK, CellSlots
    <3>2. seen'[s] # Unseen
      BY <1>2, <2>5, <3>1 DEF Unseen
    <3>3. s \in CellSlots /\ UNCHANGED <<cell[s], seen[s], regs[s]>> /\ s \notin torn
      BY <2>3, <2>5, <3>2
    <3>4. ~InOwnWrite(s)
      BY <1>4, SlotsKept DEF InOwnWrite, NoCall
    <3>5. Held(cell[s], regs[s])
      BY <2>1, <2>5, <3>3, <3>4 DEF SeenInv
    <3>6. PICK c \in Cells, v \in Nat : c = cell[s] /\ v = regs[s]
      BY <1>1, <3>3
    <3>7. Held(c, v)'
      BY <2>2, <3>5, <3>6
    <3> QED BY <3>3, <3>6, <3>7 DEF Held
  <2>6. ASSUME call'.phase = "own" PROVE Held(cell[call.slot], call.stamp)'
    <3>1. PICK s \in Slots : SetCellInput(s)
      BY <1>4, <2>6, SlotsKept
    <3>2. PICK c \in Cells : c = cell[s]
      BY <1>1, <3>1 DEF SetCellInput, TypeOK
    <3>3. /\ Store(Self, c) /\ call'.slot = s /\ call'.stamp = value'[c] /\ cell'[s] = c
      BY <3>1, <3>2 DEF SetCellInput
    <3>4. PICK v \in Nat : v = value[c] + 1
      BY <1>2
    <3>5. Held(c, v)'
      BY <1>1, <1>2, <2>2, <3>4, LatestHolds
    <3>6. call'.stamp = v
      BY <1>1, <3>3, <3>4 DEF Store, CellTypeOK
    <3> QED BY <3>3, <3>5, <3>6 DEF Held
  <2> QED BY <1>4, <2>4, <2>5, <2>6, SlotsKept DEF SeenInv
<1>5. ASSUME UNCHANGED cellVars, NEW c \in Cells, NEW v \in Nat, Held(c, v) PROVE Held(c, v)'
  BY <1>1, <1>5, HeldUntilBump
<1>6. ASSUME UNCHANGED <<cell, seen, regs, torn, cellVars>>, call.phase # "own",
             call'.phase \notin {"stamp", "own"}
      PROVE  SeenInv'
  <2>1. CellSlots' = CellSlots /\ revision' = revision
    BY <1>6 DEF CellSlots, cellVars
  <2>2. ASSUME NEW s \in CellSlots, s \notin torn, seen[s] = revision[cell[s]]
        PROVE  Held(cell[s], regs[s])'
    <3>1. Held(cell[s], regs[s])
      BY <1>6, <2>2 DEF SeenInv, InOwnWrite
    <3>2. PICK c \in Cells, v \in Nat : c = cell[s] /\ v = regs[s]
      BY <1>1
    <3>3. Held(c, v)'
      BY <1>5, <1>6, <3>1, <3>2
    <3> QED BY <1>6, <3>2, <3>3 DEF Held
  <2> QED BY <1>6, <2>1, <2>2 DEF SeenInv
<1>7. CASE PollCell \/ RefreshCell
  <2>1. call \in ReadCalls
    BY <1>7, CallKinds DEF StateInv, PollCell, RefreshCell
  <2>2. call' = call \/ call' = [call EXCEPT !.phase = "refresh"] \/ call'.phase = "take"
    BY <1>7 DEF PollCell, RefreshCell
  <2>3. call'.phase \notin {"stamp", "own"} /\ call.phase # "own"
    BY <2>1, <2>2 DEF ReadCalls
  <2> QED BY <1>6, <1>7, <2>3 DEF PollCell, RefreshCell, ReadVars
<1>8. CASE Run \/ RunPanics
  <2>1. \A done, begun : RunSteps(done, begun) => call' = NoCall
    BY DEF RunSteps
  <2>2. call' = NoCall /\ call.phase # "own" /\ UNCHANGED <<cell, seen, regs, torn, cellVars>>
    BY <1>8, <2>1 DEF Run, RunPanics, Polled
  <2> QED BY <1>6, <2>2 DEF NoCall
<1>9. CASE TakeValue
  <2>1. call.slot \in CellSlots /\ call \in TakeCalls /\ call.phase = "take"
    BY <1>3, <1>9 DEF TakeValue
  <2>2. UNCHANGED <<cell, seen, cellVars>> /\ torn' = torn \ {call.slot}
    BY <1>9 DEF TakeValue
  <2>3. \A s \in Slots : regs'[s] = IF s = call.slot THEN value[cell[s]] ELSE regs[s]
    BY <1>1, <1>9, <2>1 DEF TakeValue, TypeOK
  <2>4. call'.slot = call.slot /\ call'.phase = "stamp"
    BY <1>9, <2>1 DEF TakeValue, TakeCalls
  <2>5. CellSlots' = CellSlots /\ revision' = revision
    BY <2>2 DEF CellSlots, cellVars
  <2>6. Held(cell[call.slot], regs[call.slot])'
    <3>1. PICK c \in Cells : c = cell[call.slot]
      BY <1>1, <2>1
    <3>2. PICK v \in Nat : v = value[c]
      BY <1>2
    <3>3. Held(c, v)'
      BY <1>1, <1>5, <2>2, <3>2, LatestHolds
    <3>4. regs'[call.slot] = v
      BY <1>1, <2>1, <2>3, <3>1, <3>2
    <3> QED BY <2>2, <2>4, <3>1, <3>3, <3>4 DEF Held
  <2>7. ASSUME NEW s \in CellSlots, s \notin torn', seen[s] = revision[cell[s]]
        PROVE  Held(cell[s], regs[s])'
    <3>1. CASE s = call.slot
      BY <2>4, <2>6, <3>1 DEF Held
    <3>2. CASE s # call.slot
      <4>1. Held(cell[s], regs[s]) /\ regs'[s] = regs[s]
        BY <1>1, <2>1, <2>2, <2>3, <2>7, <3>2 DEF SeenInv, InOwnWrite
      <4>2. PICK c \in Cells, v \in Nat : c = cell[s] /\ v = regs[s]
        BY <1>1
      <4>3. Held(c, v)'
        BY <1>5, <2>2, <4>1, <4>2
      <4> QED BY <2>2, <4>1, <4>2, <4>3 DEF Held
    <3> QED BY <3>1, <3>2
  <2> QED BY <2>2, <2>4, <2>5, <2>6, <2>7 DEF SeenInv
<1>10. CASE TakeRevision \/ TakeOwnRevision
  <2>1. call.slot \in CellSlots /\ call \in TakeCalls \cup OwnCalls /\ call.phase \in {"stamp", "own"}
    BY <1>3, <1>10 DEF TakeRevision, TakeOwnRevision
  <2>2. UNCHANGED <<cell, torn, cellVars>> /\ call'.phase \notin {"stamp", "own"}
    BY <1>10 DEF TakeRevision, TakeOwnRevision, ReadVars, NoCall
  <2>3. \A s \in Slots : seen'[s] = IF s = call.slot THEN revision[cell[s]] ELSE seen[s]
    BY <1>1, <1>10, <2>1 DEF TakeRevision, TakeOwnRevision, TypeOK
  <2>4. \A s \in Slots : s # call.slot => regs'[s] = regs[s]
    BY <1>1, <1>10 DEF TakeRevision, TakeOwnRevision, ReadVars, TypeOK
  <2>5. CellSlots' = CellSlots /\ revision' = revision
    BY <2>2 DEF CellSlots, cellVars
  <2>6. call.slot \notin torn => Held(cell[call.slot], regs'[call.slot]) /\ regs'[call.slot] \in Nat
    <3>1. CASE TakeRevision
      BY <1>1, <2>1, <3>1 DEF TakeRevision, ReadVars, SeenInv
    <3>2. CASE TakeOwnRevision
      <4>1. regs'[call.slot] = call.stamp /\ call.phase = "own"
        BY <1>1, <2>1, <3>2 DEF TakeOwnRevision, TypeOK
      <4> QED BY <1>3, <4>1 DEF SeenInv
    <3> QED BY <1>10, <3>1, <3>2
  <2>7. ASSUME NEW s \in CellSlots, s \notin torn, seen'[s] = revision[cell[s]]
        PROVE  Held(cell[s], regs[s])'
    <3>1. Held(cell[s], regs'[s]) /\ regs'[s] \in Nat
      BY <1>1, <2>1, <2>3, <2>4, <2>6, <2>7 DEF SeenInv, InOwnWrite
    <3>2. PICK c \in Cells, v \in Nat : c = cell[s] /\ v = regs'[s]
      BY <1>1, <3>1
    <3>3. Held(c, v)'
      BY <1>5, <2>2, <3>1, <3>2
    <3> QED BY <2>2, <3>2, <3>3 DEF Held
  <2>8. \A s \in CellSlots : seen'[s] <= revision[cell[s]]
    BY <1>1, <1>2, <2>1, <2>3 DEF SeenInv
  <2> QED BY <2>2, <2>5, <2>7, <2>8 DEF SeenInv
<1>11. ASSUME UNCHANGED <<cell, seen, regs, call, torn, revision>>,
              \A c \in Cells, v \in Nat : Held(c, v) => Held(c, v)'
       PROVE  SeenInv'
  <2>1. CellSlots' = CellSlots /\ \A s : InOwnWrite(s)' <=> InOwnWrite(s)
    BY <1>11 DEF CellSlots, InOwnWrite
  <2>2. ASSUME NEW s \in CellSlots, NEW v \in Nat, Held(cell[s], v) PROVE Held(cell[s], v)'
    <3>1. PICK c \in Cells : c = cell[s]
      BY <1>1
    <3>2. Held(c, v)'
      BY <1>11, <2>2, <3>1
    <3> QED BY <1>11, <3>1, <3>2 DEF Held
  <2>3. \A s \in CellSlots : s \notin torn /\ ~InOwnWrite(s) /\ seen[s] = revision[cell[s]] =>
          Held(cell[s], regs[s])'
    BY <1>1, <1>11, <2>2 DEF SeenInv, Held
  <2>4. call.phase = "stamp" /\ call.slot \notin torn => Held(cell[call.slot], regs[call.slot])'
    BY <1>1, <1>3, <1>11, <2>2 DEF SeenInv, Held
  <2>5. call.phase = "own" /\ call.slot \notin torn => Held(cell[call.slot], call.stamp)'
    BY <1>1, <1>3, <1>11, <2>2 DEF SeenInv, Held
  <2> QED BY <1>11, <2>1, <2>3, <2>4, <2>5 DEF SeenInv
<1>12. ASSUME NEW w \in Writers, StartPublish(w) PROVE SeenInv'
  <2>1. PICK c \in Cells : Store(w, c)
    BY <1>12 DEF StartPublish
  <2>2. \A d \in Cells, v \in Nat : Held(d, v) => Held(d, v)'
    BY <1>1, <2>1, HeldUntilBump
  <2>3. UNCHANGED <<cell, seen, regs, call, torn, revision>>
    BY <1>12, <2>1 DEF StartPublish, Store, kernelVars
  <2> QED BY <1>11, <2>2, <2>3
<1>13. ASSUME NEW w \in Writers, Mark(w), UNCHANGED <<kernelVars, torn>> PROVE SeenInv'
  <2>1. \A d \in Cells, v \in Nat : Held(d, v) => Held(d, v)'
    BY <1>1, <1>13, HeldUntilBump
  <2>2. UNCHANGED <<cell, seen, regs, call, torn, revision>>
    BY <1>13 DEF Mark, kernelVars
  <2> QED BY <1>11, <2>1, <2>2
<1>14. ASSUME NEW w \in Writers, Bump(w), torn' = torn \cup Overtaken(w), UNCHANGED kernelVars
       PROVE  SeenInv'
  <2>1. UNCHANGED <<cell, seen, regs, call>> /\ CellSlots' = CellSlots
    BY <1>14 DEF kernelVars, CellSlots
  <2>2. publishing[w].cell \in Cells /\ publishing[w].stamp \in Nat
    BY <1>1, <1>14, InPublishType DEF Bump
  <2>3. \A c \in Cells : revision'[c] = IF c = publishing[w].cell THEN revision[c] + 1 ELSE revision[c]
    BY <1>1, <1>14 DEF Bump, CellTypeOK
  <2>4. ASSUME NEW s \in CellSlots, NEW v \in Nat, Held(cell[s], v),
               ~(publishing[w].cell = cell[s] /\ publishing[w].stamp > v)
        PROVE  Held(cell[s], v)'
    <3>1. PICK c \in Cells : c = cell[s]
      BY <1>1
    <3>2. Held(c, v)'
      BY <1>1, <1>14, <2>4, <3>1, HeldUntilBump
    <3> QED BY <2>1, <3>1, <3>2 DEF Held
  <2>5. ASSUME NEW s \in CellSlots
        PROVE  seen[s] <= revision'[cell[s]] /\
               (cell[s] = publishing[w].cell => seen[s] # revision'[cell[s]])
    BY <1>1, <1>2, <2>3 DEF SeenInv, Unseen
  <2>6. ASSUME NEW s \in CellSlots, s \notin torn', ~InOwnWrite(s), seen[s] = revision'[cell[s]]
        PROVE  Held(cell[s], regs[s])'
    <3>1. publishing[w].cell # cell[s] /\ seen[s] = revision[cell[s]]
      BY <1>1, <2>3, <2>5, <2>6
    <3>2. Held(cell[s], regs[s])
      BY <1>14, <2>6, <3>1 DEF SeenInv
    <3>3. PICK v \in Nat : v = regs[s]
      BY <1>1
    <3>4. Held(cell[s], v)'
      BY <2>4, <3>1, <3>2, <3>3
    <3> QED BY <2>1, <3>3, <3>4 DEF Held
  <2>7. ASSUME call.phase = "stamp", call.slot \notin torn'
        PROVE  Held(cell[call.slot], regs[call.slot])'
    <3>1. PICK s \in CellSlots, v \in Nat : s = call.slot /\ v = regs[s]
      BY <1>1, <1>3, <2>7
    <3>2. ~(publishing[w].cell = cell[s] /\ publishing[w].stamp > v)
      BY <1>14, <2>7, <3>1 DEF Overtaken
    <3>3. Held(cell[s], v)
      BY <1>14, <2>7, <3>1 DEF SeenInv
    <3>4. Held(cell[s], v)'
      BY <2>4, <3>2, <3>3
    <3> QED BY <2>1, <3>1, <3>4 DEF Held
  <2>8. ASSUME call.phase = "own", call.slot \notin torn'
        PROVE  Held(cell[call.slot], call.stamp)'
    <3>1. PICK s \in CellSlots, v \in Nat : s = call.slot /\ v = call.stamp
      BY <1>3, <2>8
    <3>2. ~(publishing[w].cell = cell[s] /\ publishing[w].stamp > v)
      BY <1>14, <2>8, <3>1 DEF Overtaken
    <3>3. Held(cell[s], v)
      BY <1>14, <2>8, <3>1 DEF SeenInv
    <3>4. Held(cell[s], v)'
      BY <2>4, <3>2, <3>3
    <3> QED BY <2>1, <3>1, <3>4 DEF Held
  <2>9. \A s : InOwnWrite(s)' <=> InOwnWrite(s)
    BY <2>1 DEF InOwnWrite
  <2>10. \A s \in CellSlots : seen[s] <= revision'[cell[s]]
    BY <2>5
  <2> QED BY <2>1, <2>6, <2>7, <2>8, <2>9, <2>10 DEF SeenInv
<1>15. CASE UNCHANGED vars
  <2>1. UNCHANGED <<cell, seen, regs, call, torn, revision, cellVars>>
    BY <1>15 DEF vars, kernelVars, cellVars
  <2> QED BY <1>5, <1>11, <2>1
<1>16. \A w \in Writers : FinishPublish(w) => SeenInv'
  BY <1>13, <1>14 DEF FinishPublish
<1> QED BY <1>4, <1>7, <1>8, <1>9, <1>10, <1>12, <1>15, <1>16 DEF Next, ReadStep

\* So both hold at all times.
LEMMA SeenCorrect == Spec => [](StampsInv /\ SeenInv)
<1>1. Init => StampsInv /\ SeenInv
  <2> SUFFICES ASSUME Init PROVE StampsInv /\ SeenInv
    OBVIOUS
  <2>1. \A c \in Cells : value[c] = 0 /\ revision[c] = 0 /\ completed[c] = 0
    BY DEF Init, CellInit
  <2>2. \A w \in Writers : publishing[w] = Idle
    BY DEF Init, CellInit
  <2>3. /\ cell = Binding /\ call = NoCall /\ \A s \in Slots : regs[s] = 0
        /\ \A s \in CellSlots : s \in Slots /\ cell[s] \in Cells /\ seen[s] = 0
    BY BindingAssumption DEF Init, KernelInit, CellSlots
  <2>4. \A c \in Cells : Held(c, 0)
    BY <2>1, <2>2 DEF Held, Idle
  <2>5. \A s \in CellSlots : Held(cell[s], regs[s]) /\ seen[s] <= revision[cell[s]]
    BY <2>1, <2>3, <2>4
  <2> QED BY <2>1, <2>2, <2>3, <2>5, BindingAssumption DEF StampsInv, SeenInv, InPublish, NoCall
<1>2. StateInv /\ (StampsInv /\ SeenInv) /\ [Next]_vars => (StampsInv /\ SeenInv)'
  BY StampsNext, SeenNext
<1> QED BY <1>1, <1>2, StateCorrect, PTL DEF Spec

\* What a poll goes by is right, whatever is published while the kernel reads its
\* cells or writes one: a slot whose cell's revision has not moved holds every write
\* of it that is complete.  Only a publish stored and bumped between a value's
\* access and its revision's is lost (CompiledTornSnapshot.cfg has it).
THEOREM UnmovedCellsAreRead == Spec => []UnmovedCellIsRead
<1>1. StateInv /\ SeenInv => UnmovedCellIsRead
  <2> SUFFICES ASSUME StateInv, SeenInv, NEW s \in CellSlots, s \notin torn, ~InOwnWrite(s),
                      seen[s] = revision[cell[s]]
               PROVE  regs[s] >= completed[cell[s]]
    BY DEF UnmovedCellIsRead, InOwnWrite
  <2>1. regs[s] \in Nat /\ completed[cell[s]] \in Nat
    BY DEF StateInv, TypeOK, CellTypeOK, CellSlots
  <2>2. Held(cell[s], regs[s])
    BY DEF SeenInv
  <2> QED BY <2>1, <2>2 DEF Held
<1> QED BY <1>1, StateCorrect, SeenCorrect, PTL

\* A register holds every write of its cell that was complete when the read began,
\* if the slot is not torn.
Fresh(s) == s \in torn \/ regs[s] >= due[cell[s]]

\* The slots a read has dealt with are fresh, but for the one it is taking.
FreshInv ==
    /\ \A c \in Cells : due[c] \in Nat /\ due[c] <= completed[c]
    /\ Reading => \A s \in CellSlots \ todo : (call.phase = "take" /\ s = call.slot) \/ Fresh(s)
    /\ DOMAIN answer.outputs # {} => \A s \in CellSlots : Fresh(s)

-----------------------------------------------------------------------------

\* Every step keeps the slots a read has dealt with fresh.
LEMMA FreshNext ==
    ASSUME NoGuardedReads, StateInv, BuildInv, StampsInv, SeenInv, FreshInv, [Next]_vars
    PROVE  FreshInv'
<1>1. /\ TypeOK /\ CellTypeOK
      /\ \A s \in CellSlots : s \in Slots /\ cell[s] \in Cells /\ regs[s] \in Nat
  BY DEF StateInv, TypeOK, CellSlots
<1>2. \A c \in Cells : completed[c] \in Nat /\ revision[c] \in Nat /\ value[c] \in Nat /\ completed'[c] \in Nat
  BY <1>1, StateNext DEF CellTypeOK, StateInv, TypeOK
<1>3. \A c \in Cells : /\ due[c] \in Nat /\ due[c] <= completed[c] /\ due[c] <= value[c]
                       /\ due[c] <= completed'[c]
  <2> TAKE c \in Cells
  <2>1. due[c] \in Nat /\ due[c] <= completed[c]
    BY DEF FreshInv
  <2>2. completed[c] <= value[c] /\ completed[c] <= completed'[c]
    BY CellsAdvance DEF StampsInv
  <2> QED BY <1>2, <2>1, <2>2
<1>4. DOMAIN NoAnswer.outputs = {}
  BY DEF NoAnswer
<1>5. CASE HostWrite
  <2>1. answer' = NoAnswer /\ due' = due
    BY <1>5 DEF HostWrite, SetInputs, ResetInputs, InvalidateAll, RefusedWrite, SetInput, SetCellInput,
                AttachSharedCell, BindInputCell
  <2>2. ~Reading'
    <3>1. \A s \in Slots : SetCellInput(s) => call'.phase = "own"
      BY DEF SetCellInput
    <3>2. call' = NoCall \/ \E s \in Slots : SetCellInput(s)
      BY <1>5 DEF HostWrite, SetInputs, ResetInputs, InvalidateAll, RefusedWrite, SetInput,
                  AttachSharedCell, BindInputCell, HostIdle
    <3> QED BY <3>1, <3>2 DEF Reading, NoCall, ReadCalls, TakeCalls
  <2> QED BY <1>3, <1>4, <2>1, <2>2 DEF FreshInv
<1>6. CASE BeginRead
  <2>1. ASSUME NEW do, NEW out, Poll(do, out), UNCHANGED <<cellVars, cell>> PROVE FreshInv'
    <3>1. /\ todo' = CellSlots /\ answer' = NoAnswer /\ due' = completed
          /\ UNCHANGED <<cell, completed>>
      BY <2>1 DEF Poll, cellVars
    <3>2. CellSlots' = CellSlots
      BY <3>1 DEF CellSlots
    <3> QED BY <1>2, <1>4, <3>1, <3>2 DEF FreshInv
  <2>2. ASSUME NEW f, NEW do, BeginEval(f, do) PROVE FreshInv'
    BY <2>1, <2>2 DEF BeginEval
  <2>3. \A out \in Outputs : Pull(out) => FreshInv'
    BY <2>1 DEF Pull
  <2>4. ~ConeGuard \/ "SlotKernel" \notin surfaces
    BY DEF ConeGuard, NoGuardedReads, BuildInv
  <2>5. \A out \in Outputs : EvalForSlot(out) => FreshInv'
    BY <2>2, <2>4 DEF EvalForSlot, GuardSkips
  <2> QED BY <1>6, <2>2, <2>3, <2>5 DEF BeginRead, Eval, EvalAt
<1>7. CASE PollCell
  <2>1. /\ UNCHANGED <<cell, regs, answer, due, completed, torn>> /\ call \in ReadCalls /\ Reading
        /\ answer = NoAnswer
    BY <1>7, CallKinds DEF PollCell, ReadVars, cellVars, StateInv, CallInv, Phases, NoCall
  <2>2. CellSlots' = CellSlots
    BY <2>1 DEF CellSlots
  <2>3. PICK s \in todo : \/ todo' = todo \ {s} /\ revision[cell[s]] = seen[s]
                          \/ todo' = CellSlots
    BY <1>7 DEF PollCell
  <2>4. s \in CellSlots
    BY <1>1 DEF TypeOK
  <2>5. revision[cell[s]] = seen[s] => Fresh(s)
    <3>1. ~InOwnWrite(s)
      BY <2>1 DEF InOwnWrite, ReadCalls
    <3>2. revision[cell[s]] = seen[s] /\ s \notin torn => Held(cell[s], regs[s])
      BY <2>4, <3>1 DEF SeenInv
    <3> QED BY <1>1, <1>2, <1>3, <2>4, <3>2 DEF Held, Fresh
  <2>6. \A t \in CellSlots \ todo' : Fresh(t)
    BY <2>1, <2>3, <2>5 DEF FreshInv, ReadCalls
  <2> QED BY <1>3, <1>4, <2>1, <2>2, <2>6 DEF FreshInv, Fresh
<1>8. CASE RefreshCell
  <2>1. /\ UNCHANGED <<cell, regs, answer, due, completed, torn>> /\ call \in ReadCalls /\ Reading
        /\ answer = NoAnswer
    BY <1>8, CallKinds DEF RefreshCell, ReadVars, cellVars, StateInv, CallInv, Phases, NoCall
  <2>2. CellSlots' = CellSlots
    BY <2>1 DEF CellSlots
  <2>3. PICK s \in todo : /\ todo' = todo \ {s}
                          /\ \/ revision[cell[s]] = seen[s]
                             \/ call'.phase = "take" /\ call'.slot = s
    BY <1>8 DEF RefreshCell
  <2>4. s \in CellSlots
    BY <1>1 DEF TypeOK
  <2>5. revision[cell[s]] = seen[s] => Fresh(s)
    <3>1. ~InOwnWrite(s)
      BY <2>1 DEF InOwnWrite, ReadCalls
    <3>2. revision[cell[s]] = seen[s] /\ s \notin torn => Held(cell[s], regs[s])
      BY <2>4, <3>1 DEF SeenInv
    <3> QED BY <1>1, <1>2, <1>3, <2>4, <3>2 DEF Held, Fresh
  <2>6. \A t \in CellSlots \ todo' : (call'.phase = "take" /\ t = call'.slot) \/ Fresh(t)
    BY <2>1, <2>3, <2>5 DEF FreshInv, ReadCalls
  <2> QED BY <1>3, <1>4, <2>1, <2>2, <2>6 DEF FreshInv, Fresh
<1>9. CASE TakeValue
  <2>1. /\ UNCHANGED <<cell, todo, answer, due, completed>> /\ call \in TakeCalls /\ Reading
        /\ answer = NoAnswer /\ call.slot \in CellSlots /\ call'.phase = "stamp"
        /\ torn' = torn \ {call.slot}
    BY <1>9, CallKinds DEF TakeValue, cellVars, StateInv, CallInv, TakeCalls, Phases, NoCall
  <2>2. CellSlots' = CellSlots
    BY <2>1 DEF CellSlots
  <2>3. \A s \in Slots : regs'[s] = IF s = call.slot THEN value[cell[s]] ELSE regs[s]
    BY <1>1, <1>9, <2>1 DEF TakeValue, TypeOK
  <2>4. regs'[call.slot] >= due[cell[call.slot]]
    BY <1>1, <1>2, <1>3, <2>1, <2>3
  <2>5. \A t \in CellSlots \ todo : t \in torn' \/ regs'[t] >= due[cell[t]]
    BY <1>1, <2>1, <2>3, <2>4 DEF FreshInv, Fresh
  <2> QED BY <1>3, <1>4, <2>1, <2>2, <2>5 DEF FreshInv, Fresh
<1>10. CASE TakeRevision
  <2>1. /\ UNCHANGED <<cell, regs, todo, answer, due, completed, torn>> /\ call.phase = "stamp" /\ Reading
        /\ answer = NoAnswer
    BY <1>10, CallKinds DEF TakeRevision, ReadVars, cellVars, StateInv, CallInv, Phases, NoCall
  <2>2. CellSlots' = CellSlots
    BY <2>1 DEF CellSlots
  <2> QED BY <1>3, <1>4, <2>1, <2>2 DEF FreshInv, Fresh
<1>11. CASE Run \/ RunPanics
  <2>1. Reading /\ todo = {} /\ call.phase # "take" /\ UNCHANGED <<cell, regs, due, completed, torn>>
    BY <1>11, CallKinds DEF Run, RunPanics, Polled, cellVars, StateInv, Phases
  <2>2. \A s \in CellSlots : Fresh(s)
    BY <2>1 DEF FreshInv
  <2>3. \A done, begun : RunSteps(done, begun) => call' = NoCall
    BY DEF RunSteps
  <2>4. ~Reading'
    <3>1. call' = NoCall
      BY <1>11, <2>3 DEF Run, RunPanics
    <3> QED BY <3>1 DEF Reading, NoCall, ReadCalls, TakeCalls
  <2>5. CellSlots' = CellSlots
    BY <2>1 DEF CellSlots
  <2>6. \A s \in CellSlots' : Fresh(s)'
    BY <2>1, <2>2, <2>5 DEF Fresh
  <2>7. \A c \in Cells : due'[c] \in Nat /\ due'[c] <= completed'[c]
    BY <1>3, <2>1
  <2> QED BY <2>4, <2>6, <2>7 DEF FreshInv
<1>12. CASE TakeOwnRevision
  <2>0. call # NoCall
    BY <1>12 DEF TakeOwnRevision, NoCall
  <2>1. UNCHANGED <<answer, due, completed>> /\ call' = NoCall /\ answer = NoAnswer
    BY <1>12, <2>0 DEF TakeOwnRevision, cellVars, StateInv, CallInv
  <2>2. ~Reading'
    BY <2>1 DEF Reading, NoCall, ReadCalls, TakeCalls
  <2> QED BY <1>3, <1>4, <2>1, <2>2 DEF FreshInv
<1>13. CASE UNCHANGED kernelVars /\ torn \subseteq torn'
  <2>1. UNCHANGED <<cell, regs, call, todo, answer, due>>
    BY <1>13 DEF kernelVars
  <2>2. \A s : Fresh(s) => Fresh(s)'
    BY <1>13, <2>1 DEF Fresh
  <2> QED BY <1>3, <2>1, <2>2 DEF FreshInv, CellSlots, Reading
<1>14. UNCHANGED vars => UNCHANGED kernelVars /\ torn \subseteq torn'
  BY DEF vars
<1>15. \A w \in Writers : StartPublish(w) \/ FinishPublish(w) =>
         UNCHANGED kernelVars /\ torn \subseteq torn'
  BY DEF StartPublish, FinishPublish
<1> QED BY <1>5, <1>6, <1>7, <1>8, <1>9, <1>10, <1>11, <1>12, <1>13, <1>14, <1>15 DEF Next, ReadStep

\* The evaluation rule for the slots bound to cells: a write whose publish returned
\* before a read began is in what the read returns, whichever kernel or host made
\* it, whatever is published meanwhile, in every mode and through every panic, but
\* for a slot torn when its value was taken.  (CompiledTornSnapshot.cfg has one;
\* without the hypotheses, CompiledConeGuard.cfg and CompiledSideFailure.cfg.)
THEOREM CompletedWritesAreRead ==
    ASSUME NoGuardedReads, SidesDoNotFail
    PROVE  Spec => []AnswersSeeCompletedWrites
<1>1. Init => FreshInv
  BY DEF Init, CellInit, KernelInit, FreshInv, NoAnswer, Reading, NoCall, ReadCalls, TakeCalls
<1>2. StateInv /\ BuildInv /\ (StampsInv /\ SeenInv) /\ FreshInv /\ [Next]_vars => FreshInv'
  BY FreshNext
<1>3. StateInv /\ MemoInv /\ FreshInv => AnswersSeeCompletedWrites
  <2> SUFFICES ASSUME StateInv, MemoInv, FreshInv, NEW i \in DOMAIN answer.outputs,
                      NEW s \in Provenance[i], cell[s] # NoCell, s \notin torn,
                      NEW v \in answer.outputs[i][s]
               PROVE  v >= due[cell[s]]
    BY DEF AnswersSeeCompletedWrites
  <2>1. i \in Nodes /\ s \in Slots
    BY StepsAssumption, ProvenanceSlots DEF StateInv, TypeOK
  <2>2. v = regs[s]
    BY DEF MemoInv
  <2>3. Fresh(s)
    BY <2>1 DEF FreshInv, CellSlots
  <2> QED BY <2>2, <2>3 DEF Fresh
<1> QED BY <1>1, <1>2, <1>3, StateCorrect, Built, SeenCorrect, MemoCorrect, PTL DEF Spec

=============================================================================
