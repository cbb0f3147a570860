------------------------- MODULE Interpreter_proofs -------------------------
(***************************************************************************)
(* The memoizing interpreter, for any program, any cells and any fibers    *)
(* that publish anywhere inside its reads.                                 *)
(*                                                                         *)
(* The argument rests on what a kernel knows of a value it computed from:  *)
(* if a later store of the cell has been counted, the revision has left    *)
(* the one last seen (`Sound`).  A check that consumes a revision breaks   *)
(* that for every value read before, so what it does not invalidate must   *)
(* not hold one: the memoized nodes it leaves depend on no moved slot, and *)
(* the nodes the walk has visited and not yet gathered depend on none      *)
(* while a slot reaches a node along one path.                             *)
(*                                                                         *)
(* The publish protocol comes first.  Its invariant is an accounting:      *)
(* every store of a cell is either counted by the cell's revision or still *)
(* in flight in a fiber that has stored and not bumped.                    *)
(***************************************************************************)
EXTENDS Interpreter, FiniteSetTheorems, WellFoundedInduction, TLAPS

-----------------------------------------------------------------------------
(* The publish protocol, for any number of fibers and cells.               *)

\* The fibers between the value swap and the revision bump of cell c.
InFlight(c) ==
    {w \in Writers : publishing[w].stage = "stored" /\ publishing[w].cell = c}

\* Every store is counted or in flight.
StoresAccounted ==
    \A c \in Cells : value[c] = revision[c] + Cardinality(InFlight(c))

\* What a fiber past a step has done for its cell.
Advertised ==
    /\ \A w \in Writers :
         publishing[w].stage = "bumped" => revision[publishing[w].cell] > 0
    /\ CompletedIsAdvertised

\* The protocol's state is always well typed: no step of `publish` leaves a
\* fiber between two stages or a counter outside the naturals.
THEOREM TypeCorrect == CellSpec => []CellTypeOK
<1>1. CellInit => CellTypeOK
  BY DEF CellInit, CellTypeOK, Publications, Idle
<1>2. CellTypeOK /\ [CellNext]_cellVars => CellTypeOK'
  <2> SUFFICES ASSUME CellTypeOK, [CellNext]_cellVars PROVE CellTypeOK'
    OBVIOUS
  <2> USE DEF CellTypeOK
  <2>1. ASSUME NEW w \in Writers, NEW c \in Cells, Store(w, c) PROVE CellTypeOK'
    BY <2>1 DEF Store, Publications, Idle, InPublish
  <2>2. ASSUME NEW w \in Writers, Bump(w) PROVE CellTypeOK'
    <3>1. publishing[w] \in [stage : {"stored", "bumped"}, cell : Cells, stamp : Nat]
      BY <2>2 DEF Bump, Publications, Idle
    <3>2. publishing' \in [Writers -> Publications]
      BY <2>2, <3>1 DEF Bump, Publications
    <3> QED BY <2>2, <3>1, <3>2 DEF Bump
  <2>3. ASSUME NEW w \in Writers, Mark(w) PROVE CellTypeOK'
    <3>1. publishing[w] \in [stage : {"stored", "bumped"}, cell : Cells, stamp : Nat]
      BY <2>3 DEF Mark, Publications, Idle
    <3> QED BY <2>3, <3>1 DEF Mark, Publications, Idle
  <2>4. CASE UNCHANGED cellVars
    BY <2>4 DEF cellVars
  <2> QED BY <2>1, <2>2, <2>3, <2>4 DEF CellNext, Publish
<1> QED BY <1>1, <1>2, PTL DEF CellSpec

\* A fiber inside `publish` works on one of the cells.
LEMMA InPublishType ==
    ASSUME CellTypeOK, NEW w \in Writers, publishing[w].stage \in {"stored", "bumped"}
    PROVE  /\ publishing[w] \in [stage : {"stored", "bumped"}, cell : Cells, stamp : Nat]
           /\ InPublish(w)
BY DEF CellTypeOK, Publications, Idle, InPublish

\* Fibers in flight on a cell are finitely many, however many cells there are.
LEMMA InFlightFinite ==
    ASSUME NEW c \in Cells
    PROVE  IsFiniteSet(InFlight(c)) /\ Cardinality(InFlight(c)) \in Nat
BY WritersAssumption, FS_Subset, FS_CardinalityType DEF InFlight

\* Every store of a cell is counted by its revision or in flight: no bump is
\* lost between two publishes of one cell, and none is made up.
THEOREM Accounted == CellSpec => []StoresAccounted
<1>1. CellInit => StoresAccounted
  <2> SUFFICES ASSUME CellInit, NEW c \in Cells
               PROVE  value[c] = revision[c] + Cardinality(InFlight(c))
    BY DEF StoresAccounted
  <2>1. InFlight(c) = {}
    BY DEF CellInit, InFlight, Idle
  <2> QED BY <2>1, FS_EmptySet DEF CellInit
<1>2. CellTypeOK /\ StoresAccounted /\ [CellNext]_cellVars => StoresAccounted'
  <2> SUFFICES ASSUME CellTypeOK, StoresAccounted, [CellNext]_cellVars, NEW d \in Cells
               PROVE  value'[d] = revision'[d] + Cardinality(InFlight(d)')
    BY DEF StoresAccounted
  <2>0. /\ value[d] \in Nat /\ revision[d] \in Nat
        /\ value[d] = revision[d] + Cardinality(InFlight(d))
        /\ IsFiniteSet(InFlight(d)) /\ Cardinality(InFlight(d)) \in Nat
    BY InFlightFinite DEF CellTypeOK, StoresAccounted
  <2>1. ASSUME NEW w \in Writers, NEW c \in Cells, Store(w, c)
        PROVE  value'[d] = revision'[d] + Cardinality(InFlight(d)')
    <3>1. publishing[w] = Idle
      BY <2>1 DEF Store, InPublish
    <3>2. CASE c = d
      <4>1. InFlight(d)' = InFlight(d) \cup {w} /\ w \notin InFlight(d)
        BY <2>1, <3>1, <3>2 DEF Store, InFlight, Idle, CellTypeOK
      <4>2. Cardinality(InFlight(d)') = Cardinality(InFlight(d)) + 1
        BY <2>0, <4>1, FS_AddElement
      <4> QED BY <2>0, <2>1, <3>2, <4>2 DEF Store, CellTypeOK
    <3>3. CASE c # d
      <4>1. InFlight(d)' = InFlight(d)
        BY <2>1, <3>1, <3>3 DEF Store, InFlight, Idle, CellTypeOK
      <4> QED BY <2>0, <2>1, <3>3, <4>1 DEF Store, CellTypeOK
    <3> QED BY <3>2, <3>3
  <2>2. ASSUME NEW w \in Writers, Bump(w)
        PROVE  value'[d] = revision'[d] + Cardinality(InFlight(d)')
    <3> DEFINE c == publishing[w].cell
    <3>1. c \in Cells /\ publishing[w].stage = "stored"
      BY <2>2, InPublishType DEF Bump
    <3>2. CASE c = d
      <4>1. InFlight(d)' = InFlight(d) \ {w} /\ w \in InFlight(d)
        BY <2>2, <3>1, <3>2 DEF Bump, InFlight, CellTypeOK
      <4>2. Cardinality(InFlight(d)') = Cardinality(InFlight(d)) - 1
        BY <2>0, <4>1, FS_RemoveElement
      <4> QED BY <2>0, <2>2, <3>2, <4>2 DEF Bump, CellTypeOK
    <3>3. CASE c # d
      <4>1. InFlight(d)' = InFlight(d)
        BY <2>2, <3>1, <3>3 DEF Bump, InFlight, CellTypeOK
      <4> QED BY <2>0, <2>2, <3>3, <4>1 DEF Bump, CellTypeOK
    <3> QED BY <3>2, <3>3
  <2>3. ASSUME NEW w \in Writers, Mark(w)
        PROVE  value'[d] = revision'[d] + Cardinality(InFlight(d)')
    <3>1. InFlight(d)' = InFlight(d)
      BY <2>3 DEF Mark, InFlight, Idle, CellTypeOK
    <3> QED BY <2>0, <2>3, <3>1 DEF Mark
  <2>4. CASE UNCHANGED cellVars
    BY <2>0, <2>4 DEF cellVars, InFlight
  <2> QED BY <2>1, <2>2, <2>3, <2>4 DEF CellNext, Publish
<1> QED BY <1>1, <1>2, TypeCorrect, PTL DEF CellSpec

\* A revision never runs ahead of the stores it counts, so a consumer that loads
\* it before the value reads at least the store it announces.
THEOREM NeverLeads == CellSpec => []RevisionNeverLeads
<1>1. CellTypeOK /\ StoresAccounted => RevisionNeverLeads
  BY InFlightFinite DEF CellTypeOK, StoresAccounted, RevisionNeverLeads
<1> QED BY <1>1, TypeCorrect, Accounted, PTL

\* With no publish between swap and bump, a cell's revision is its store count.
THEOREM SettledCounts == CellSpec => []SettledRevisionCounts
<1>1. CellTypeOK /\ StoresAccounted => SettledRevisionCounts
  <2> SUFFICES ASSUME CellTypeOK, StoresAccounted, NEW c \in Cells, BumpsSettled(c)
               PROVE  revision[c] = value[c]
    BY DEF SettledRevisionCounts
  <2>1. InFlight(c) = {}
    BY DEF BumpsSettled, InFlight
  <2>2. Cardinality(InFlight(c)) = 0
    BY <2>1, FS_EmptySet
  <2> QED BY <2>2 DEF StoresAccounted, CellTypeOK
<1> QED BY <1>1, TypeCorrect, Accounted, PTL

\* A publish that has returned can be detected by every consumer from then on:
\* its bit is set and its cell's revision has left 0.
THEOREM CompletedAdvertised == CellSpec => []CompletedIsAdvertised
<1>1. CellInit => Advertised
  BY DEF CellInit, Advertised, CompletedIsAdvertised, Idle
<1>2. CellTypeOK /\ Advertised /\ [CellNext]_cellVars => Advertised'
  <2> SUFFICES ASSUME CellTypeOK, Advertised, [CellNext]_cellVars PROVE Advertised'
    OBVIOUS
  <2> USE DEF CellTypeOK, Advertised, CompletedIsAdvertised
  <2>1. ASSUME NEW w \in Writers, NEW c \in Cells, Store(w, c) PROVE Advertised'
    BY <2>1 DEF Store
  <2>2. ASSUME NEW w \in Writers, Bump(w) PROVE Advertised'
    <3>1. publishing[w].cell \in Cells
      BY <2>2, InPublishType DEF Bump
    <3>2. \A c \in Cells : revision'[c] >= revision[c]
      BY <2>2, <3>1 DEF Bump
    <3>3. \A v \in Writers : publishing'[v].cell = publishing[v].cell
      BY <2>2 DEF Bump
    <3>4. ASSUME NEW v \in Writers, publishing'[v].stage = "bumped"
          PROVE  revision'[publishing'[v].cell] > 0
      <4>1. CASE v = w
        BY <2>2, <3>1, <3>3, <4>1 DEF Bump
      <4>2. CASE v # w
        <5>1. publishing[v].stage = "bumped" /\ publishing[v].cell \in Cells
          BY <2>2, <3>4, <4>2, InPublishType DEF Bump
        <5>2. revision[publishing[v].cell] > 0 /\ revision'[publishing[v].cell] \in Nat
          BY <2>2, <3>1, <5>1 DEF Bump
        <5> QED BY <3>2, <3>3, <5>1, <5>2
      <4> QED BY <4>1, <4>2
    <3> QED BY <2>2, <3>2, <3>4 DEF Bump
  <2>3. ASSUME NEW w \in Writers, Mark(w) PROVE Advertised'
    <3>1. publishing[w].cell \in Cells /\ publishing[w].stage = "bumped"
      BY <2>3, InPublishType DEF Mark
    <3>2. \A v \in Writers : publishing'[v].stage = "bumped" =>
                               publishing'[v] = publishing[v]
      BY <2>3 DEF Mark, Idle
    <3>3. ASSUME NEW c \in Cells, completed'[c] > 0 PROVE c \in intent' /\ revision'[c] > 0
      <4>1. CASE c = publishing[w].cell
        BY <2>3, <3>1, <4>1 DEF Mark
      <4>2. CASE c # publishing[w].cell
        BY <2>3, <3>1, <3>3, <4>2 DEF Mark
      <4> QED BY <4>1, <4>2
    <3> QED BY <2>3, <3>2, <3>3 DEF Mark
  <2>4. CASE UNCHANGED cellVars
    BY <2>4 DEF cellVars
  <2> QED BY <2>1, <2>2, <2>3, <2>4 DEF CellNext, Publish
<1>3. Advertised => CompletedIsAdvertised
  BY DEF Advertised
<1> QED BY <1>1, <1>2, <1>3, TypeCorrect, PTL DEF CellSpec

-----------------------------------------------------------------------------
(* The programs a theorem speaks of.                                       *)

\* The cells a slot may ever be bound to.
MayBind(s, c) == Binding[s] = c \/ <<s, c>> \in Attachable

\* No cell is the register of two slots of this kernel.
OneSlotPerCell ==
    \A s, t \in Slots, c \in Cells : MayBind(s, c) /\ MayBind(t, c) => s = t

\* The slots a source of a node brings to it.
Carried(src) == IF src \in Slots THEN {src} ELSE Provenance[src]

\* A slot that may be cell-bound reaches a node through one of its reads.
OnePath ==
    \A n \in Nodes : \A i, j \in DOMAIN Wiring[n] :
      \A s \in Carried(Wiring[n][i]) \cap Carried(Wiring[n][j]), c \in Cells :
        MayBind(s, c) => i = j

-----------------------------------------------------------------------------
(* The walk. *)

Frames == [node : Nodes, stage : Stages, next : Nat]
Height == Len(stack)
Read(k, i) == Wiring[stack[k].node][i]

\* What frame k has recursed into, while a frame is above it.
Child(k) == Read(k, stack[k].next - 1)

\* A frame under another is in its upstream loop, and every node above it is
\* upstream of the one it recursed into.
StackInv ==
    /\ \A k \in 1 .. Height : stack[k].next >= 1
    /\ \A k \in 2 .. Height :
         /\ stack[k].stage = "upstream"
         /\ stack[k].next - 1 \in DOMAIN Wiring[stack[k].node]
         /\ Child(k) = stack[k - 1].node
         /\ \A j \in 1 .. (k - 1) : Provenance[stack[j].node] \subseteq Provenance[Child(k)]

\* The upstream nodes frame k has been through in this read.
Passed(k, i) ==
    \/ stack[k].stage = "gather"
    \/ stack[k].stage = "upstream" /\ i < (IF k = 1 THEN stack[k].next ELSE stack[k].next - 1)
Visited(k) ==
    {Read(k, i) : i \in {i \in DOMAIN Wiring[stack[k].node] : Read(k, i) \in Nodes /\ Passed(k, i)}}

AllVisited == UNION {Visited(k) : k \in 1 .. Height}

Checking == stack # <<>> /\ Top.stage = "check"
Gathering == stack # <<>> /\ Top.stage = "gather"
Brought(s) ==
    \E i \in DOMAIN Wiring[Top.node] : i < Top.next /\ s \in Carried(Wiring[Top.node][i])

ScanTypeOK ==
    /\ scan = [words |-> scan.words, pending |-> scan.pending, moved |-> scan.moved]
    /\ Checking => Top.node \in node_clean /\ scan.pending \subseteq CellSlots(Top.node)

\* Nothing is in a buffer or the scratch but what a source brought there.
NoStrays ==
    /\ \A n \in Nodes, s \in Slots : s \notin Provenance[n] => buffers[n][s] = {}
    /\ Gathering => \A s \in Slots : ~Brought(s) => input_scratch[s] = {}

WalkInv == TypeOK /\ ScanTypeOK /\ StackInv /\ NoStrays

-----------------------------------------------------------------------------
(* Local writes. *)

\* Node n's buffer is computed from the local slots as they are.
LocalRight(n) ==
    \A s \in Provenance[n] : shared_cells[s] = NoCell => buffers[n][s] = {inputs[s]}

LocalInv ==
    /\ \A n \in node_clean : LocalRight(n)
    /\ \A n \in AllVisited : LocalRight(n)
    /\ Gathering => \A s \in Slots :
         shared_cells[s] = NoCell /\ Brought(s) => input_scratch[s] = {inputs[s]}
    /\ ReadsSeeLocalWrites

-----------------------------------------------------------------------------
(* Cell writes. *)

\* A store of cell c later than v has been counted by its revision.
Superseded(c, v) ==
    \/ completed[c] > v
    \/ \E w \in Writers : /\ publishing[w].stage = "bumped"
                          /\ publishing[w].cell = c /\ publishing[w].stamp > v

\* A value of cell c this kernel can find out to be stale.
Sound(c, v) == v <= value[c] /\ (Superseded(c, v) => last_seen[c] < revision[c])

\* The counters never run ahead of one another.
CountersInv ==
    /\ \A c \in Cells : /\ completed[c] <= value[c] /\ due[c] <= completed[c]
                        /\ last_seen[c] <= revision[c]
    /\ \A w \in Writers : publishing[w].stage \in {"stored", "bumped"} =>
                            publishing[w].stamp <= value[publishing[w].cell]

BindInv ==
    /\ shared_cells \in [Slots -> Cells \cup {NoCell}]
    /\ \A s \in Slots : shared_cells[s] # NoCell => MayBind(s, shared_cells[s])

\* Values of slot s as good as ones read since this read began.
Fresh(s, values) ==
    shared_cells[s] # NoCell => \A v \in values : v >= due[shared_cells[s]]
Detectable(s, values) ==
    shared_cells[s] # NoCell => \A v \in values : Sound(shared_cells[s], v)

ScanInv ==
    Checking =>
      /\ \A m \in scan.moved : /\ m[1] \in CellSlots(Top.node)
                               /\ m[2] <= revision[shared_cells[m[1]]]
      /\ \A s \in CellSlots(Top.node) :
           \/ Word[shared_cells[s]] \in scan.words
           \/ s \in scan.pending
           \/ \E m \in scan.moved : m[1] = s
           \/ Fresh(s, buffers[Top.node][s])

CellInv ==
    /\ CountersInv
    /\ ScanInv
    /\ \A n \in node_clean : \A s \in Provenance[n] : Detectable(s, buffers[n][s])
    /\ \A n \in AllVisited : \A s \in Provenance[n] :
         Fresh(s, buffers[n][s]) /\ Detectable(s, buffers[n][s])
    /\ Gathering => \A s \in Slots :
         Fresh(s, input_scratch[s]) /\ Detectable(s, input_scratch[s])
    /\ ReadsSeeCompletedWrites

-----------------------------------------------------------------------------
(* No step back in time, while no slot changes its register. *)

\* What a source of a node holds of slot s.
Supply(src, s) == IF src \in Slots THEN {value[shared_cells[s]]} ELSE buffers[src][s]

\* No buffer holds two values of a cell, nor one later than a source still holds.
Ordered ==
    \A n \in Nodes, s \in Slots : shared_cells[s] # NoCell =>
      /\ \A v, v2 \in buffers[n][s] : v = v2
      /\ \A i \in DOMAIN Wiring[n] : s \in Carried(Wiring[n][i]) =>
           /\ buffers[n][s] # {} => Supply(Wiring[n][i], s) # {}
           /\ \A old \in buffers[n][s], new \in Supply(Wiring[n][i], s) : old <= new

\* What has been gathered lies between the buffer it will replace and its source.
GatherOrdered ==
    Gathering => \A s \in Slots : shared_cells[s] # NoCell =>
      \A i \in DOMAIN Wiring[Top.node] :
        i < Top.next /\ s \in Carried(Wiring[Top.node][i]) =>
          \A v \in input_scratch[s] :
            /\ \A new \in Supply(Wiring[Top.node][i], s) : v <= new
            /\ \A old \in buffers[Top.node][s] : old <= v
            /\ \A v2 \in input_scratch[s] : v = v2

\* What is memoized, visited or gathered holds a value of every slot.
Filled ==
    /\ \A n \in node_clean \cup AllVisited : \A s \in Provenance[n] : buffers[n][s] # {}
    /\ Gathering => \A s \in Slots : Brought(s) => input_scratch[s] # {}

ForwardInv == Ordered /\ GatherOrdered /\ Filled

-----------------------------------------------------------------------------
(* Stacks. *)

\* Another frame in place of the top one.
LEMMA Replaced ==
    ASSUME NEW S, NEW q \in Seq(S), q # <<>>, NEW f \in S
    PROVE  LET p == <<f>> \o Tail(q) IN
           /\ p \in Seq(S) /\ p # <<>> /\ Len(p) = Len(q) /\ Len(q) \in Nat /\ Len(q) >= 1
           /\ p[1] = f /\ Head(p) = f /\ Head(q) = q[1] /\ q[1] \in S
           /\ \A k \in 2 .. Len(q) : p[k] = q[k]
<1> DEFINE p == <<f>> \o Tail(q)
<1>1. Len(q) \in Nat /\ Len(q) >= 1 /\ Tail(q) \in Seq(S) /\ Len(Tail(q)) = Len(q) - 1
  OBVIOUS
<1>2. p \in Seq(S) /\ Len(p) = Len(q) /\ p[1] = f /\ p # <<>>
  BY <1>1
<1>3. ASSUME NEW k \in 2 .. Len(q) PROVE p[k] = q[k]
  <2>1. p[k] = Tail(q)[k - 1]
    BY <1>1
  <2>2. Tail(q)[k - 1] = q[k]
    BY <1>1
  <2> QED BY <2>1, <2>2
<1> QED BY <1>1, <1>2, <1>3

\* The top frame taken off.
LEMMA Dropped ==
    ASSUME NEW S, NEW q \in Seq(S), q # <<>>
    PROVE  LET p == Tail(q) IN
           /\ p \in Seq(S) /\ Len(p) = Len(q) - 1 /\ Len(q) \in Nat /\ Len(q) >= 1
           /\ \A k \in 1 .. (Len(q) - 1) : p[k] = q[k + 1]
           /\ Head(q) = q[1] /\ q[1] \in S
           /\ p # <<>> => Len(q) >= 2 /\ Head(p) = q[2]
           /\ p = <<>> => Len(q) = 1
<1> DEFINE p == Tail(q)
<1>1. Len(q) \in Nat /\ Len(q) >= 1 /\ p \in Seq(S) /\ Len(p) = Len(q) - 1
  OBVIOUS
<1>2. Head(q) = q[1] /\ q[1] \in S
  OBVIOUS
<1>3. \A k \in 1 .. (Len(q) - 1) : p[k] = q[k + 1]
  OBVIOUS
<1>4. p # <<>> => Len(q) >= 2 /\ Head(p) = q[2]
  <2>1. p # <<>> => Len(p) >= 1 /\ Head(p) = p[1]
    BY <1>1
  <2> QED BY <1>1, <1>3, <2>1
<1>5. p = <<>> => Len(q) = 1
  <2> HIDE DEF p
  <2>1. Len(<<>>) = 0
    OBVIOUS
  <2> QED BY <1>1, <2>1
<1> QED BY <1>1, <1>2, <1>3, <1>4, <1>5

\* A frame put on the top one, itself replaced.
LEMMA Pushed ==
    ASSUME NEW S, NEW q \in Seq(S), q # <<>>, NEW f \in S, NEW g \in S
    PROVE  LET p == <<f, g>> \o Tail(q) IN
           /\ p \in Seq(S) /\ p # <<>> /\ Len(p) = Len(q) + 1 /\ Len(q) \in Nat /\ Len(q) >= 1
           /\ p[1] = f /\ p[2] = g /\ Head(p) = f /\ Head(q) = q[1] /\ q[1] \in S
           /\ \A k \in 3 .. (Len(q) + 1) : p[k] = q[k - 1]
<1> DEFINE p == <<f, g>> \o Tail(q)
<1>1. Len(q) \in Nat /\ Len(q) >= 1 /\ Tail(q) \in Seq(S) /\ Len(Tail(q)) = Len(q) - 1
  OBVIOUS
<1>2. p \in Seq(S) /\ Len(p) = Len(q) + 1 /\ p[1] = f /\ p[2] = g /\ p # <<>>
  BY <1>1
<1>3. ASSUME NEW k \in 3 .. (Len(q) + 1) PROVE p[k] = q[k - 1]
  <2>1. p[k] = Tail(q)[k - 2]
    BY <1>1
  <2>2. Tail(q)[k - 2] = q[k - 1]
    BY <1>1
  <2> QED BY <2>1, <2>2
<1> QED BY <1>1, <1>2, <1>3

-----------------------------------------------------------------------------
(* Programs. *)

\* The naturals in order, for arguments by a least node.
Less == {ss \in Nat \X Nat : ss[1] < ss[2]}

LEMMA LessWF == IsWellFoundedOn(Less, Nat)
BY NatLessThanWellFounded, Zenon DEF OpToRel, Less

\* Only input slots reach a node.
LEMMA ProvenanceSlots == \A n \in Nodes : Provenance[n] \subseteq Slots
<1> DEFINE bad == {n \in Nodes : ~(Provenance[n] \subseteq Slots)}
<1> SUFFICES ASSUME bad # {} PROVE FALSE
  OBVIOUS
<1>1. bad \subseteq Nat
  BY NodeCountAssumption DEF Nodes
<1>2. PICK n \in bad : \A m \in bad : ~(<<m, n>> \in Less)
  <2> HIDE DEF bad
  <2> QED BY <1>1, LessWF, WFMin
<1>3. ASSUME NEW src \in Sources(n), src \notin Slots PROVE Provenance[src] \subseteq Slots
  <2>1. src < n /\ src \in Nodes
    BY <1>3, WiringAssumption DEF Sources, ToSet
  <2>2. <<src, n>> \in Less
    BY <1>1, <2>1, NodeCountAssumption DEF Less, Nodes
  <2> QED BY <1>2, <2>1, <2>2
<1>4. Provenance[n] = UNION {IF src \in Slots THEN {src} ELSE Provenance[src] : src \in Sources(n)}
  BY ProvenanceAssumption
<1> QED BY <1>3, <1>4

\* A node reads slots and earlier nodes, and its provenance is what they carry.
LEMMA Wired ==
    ASSUME NEW n \in Nodes
    PROVE  /\ Len(Wiring[n]) \in Nat /\ DOMAIN Wiring[n] = 1 .. Len(Wiring[n])
           /\ \A i \in 1 .. Len(Wiring[n]) :
                /\ Wiring[n][i] \in Slots \/ Wiring[n][i] \in Nodes
                /\ ~(Wiring[n][i] \in Slots /\ Wiring[n][i] \in Nodes)
                /\ Carried(Wiring[n][i]) \subseteq Provenance[n]
           /\ \A s \in Provenance[n] :
                \E i \in 1 .. Len(Wiring[n]) : s \in Carried(Wiring[n][i])
<1>1. /\ Wiring[n] \in Seq(Slots \cup Nodes)
      /\ Len(Wiring[n]) \in Nat /\ DOMAIN Wiring[n] = 1 .. Len(Wiring[n])
  BY WiringAssumption
<1>2. \A i \in 1 .. Len(Wiring[n]) : Wiring[n][i] \in Slots \cup Nodes
  BY <1>1
<1>3. Provenance[n] = UNION {Carried(src) : src \in Sources(n)}
  BY ProvenanceAssumption DEF Carried
<1>4. Sources(n) = {Wiring[n][i] : i \in 1 .. Len(Wiring[n])}
  BY <1>1 DEF Sources, ToSet
<1> QED BY <1>1, <1>2, <1>3, <1>4, SlotsAssumption

-----------------------------------------------------------------------------
(* The cells of a kernel. *)

\* A slot's register is local or a cell it may be bound to, whatever a host
\* attaches in between.
LEMMA Bound == Spec => []BindInv
<1>1. Init => BindInv
  BY BindingAssumption DEF Init, KernelInit, BindInv, MayBind
<1>2. BindInv /\ [Next]_vars => BindInv'
  <2> SUFFICES ASSUME BindInv, [Next]_vars PROVE BindInv'
    OBVIOUS
  <2>1. ASSUME NEW pair \in Attachable, AttachSharedCell(pair[1], pair[2]) PROVE BindInv'
    <3>1. pair[1] \in Slots /\ pair[2] \in Cells /\ MayBind(pair[1], pair[2])
      BY BindingAssumption DEF MayBind
    <3>2. shared_cells' = [shared_cells EXCEPT ![pair[1]] = pair[2]]
      BY <2>1 DEF AttachSharedCell
    <3> QED BY <3>1, <3>2 DEF BindInv, MayBind
  <2>2. CASE UNCHANGED shared_cells
    BY <2>2 DEF BindInv, MayBind
  <2>3. WalkStep => UNCHANGED shared_cells
    BY DEF WalkStep, Visit, LoadIntent, LoadRevision, CheckClean, CheckMoved, Descend,
       BeginGather, Gather, Evaluate, EvalPanics
  <2>4. SetInputs \/ ResetInputs \/ InvalidateAll => UNCHANGED shared_cells
    BY DEF SetInputs, ResetInputs, InvalidateAll
  <2>5. \A s \in Slots : SetInput(s) \/ SetCellInput(s) => UNCHANGED shared_cells
    BY DEF SetInput, SetCellInput
  <2>6. \A out \in Outputs : BeginPull(out) => UNCHANGED shared_cells
    BY DEF BeginPull
  <2>7. \A w \in Writers : StartPublish(w) \/ FinishPublish(w) => UNCHANGED shared_cells
    BY DEF StartPublish, FinishPublish, kernelVars
  <2>8. UNCHANGED vars => UNCHANGED shared_cells
    BY DEF vars, kernelVars
  <2> QED BY <2>1, <2>2, <2>3, <2>4, <2>5, <2>6, <2>7, <2>8 DEF Next, HostCall
<1> QED BY <1>1, <1>2, PTL DEF Spec

\* A kernel among its writers keeps to the publish protocol: whatever it reads,
\* memoizes or attaches, the cells only ever see one step of one `publish`.  So
\* what is proved of the protocol holds of every kernel.
LEMMA CellStep == BindInv /\ [Next]_vars => [CellNext]_cellVars
<1> SUFFICES ASSUME BindInv, [Next]_vars PROVE [CellNext]_cellVars
  OBVIOUS
<1>1. ASSUME NEW s \in Slots, SetCellInput(s) PROVE CellNext
  <2>1. shared_cells[s] \in Cells /\ Store(Self, shared_cells[s])
    BY <1>1 DEF SetCellInput, BindInv
  <2> QED BY <2>1, SelfAssumption DEF CellNext, Publish
<1>2. ASSUME NEW w \in Writers, StartPublish(w) \/ FinishPublish(w) PROVE CellNext
  BY <1>2 DEF StartPublish, FinishPublish, CellNext, Publish
<1>3. WalkStep => UNCHANGED cellVars
  BY DEF WalkStep, Visit, LoadIntent, LoadRevision, CheckClean, CheckMoved, Descend,
     BeginGather, Gather, Evaluate, EvalPanics
<1>4. SetInputs \/ ResetInputs \/ InvalidateAll => UNCHANGED cellVars
  BY DEF SetInputs, ResetInputs, InvalidateAll
<1>5. \A s \in Slots : SetInput(s) => UNCHANGED cellVars
  BY DEF SetInput
<1>6. \A s, c : AttachSharedCell(s, c) => UNCHANGED cellVars
  BY DEF AttachSharedCell
<1>7. \A out \in Outputs : BeginPull(out) => UNCHANGED cellVars
  BY DEF BeginPull
<1>8. UNCHANGED vars => UNCHANGED cellVars
  BY DEF vars
<1> QED BY <1>1, <1>2, <1>3, <1>4, <1>5, <1>6, <1>7, <1>8 DEF Next, HostCall

\* A kernel uses the cells by their protocol alone: each of its steps stores, bumps
\* or marks for one fiber, or leaves the cells as they are.
THEOREM KernelKeepsProtocol == Spec => CellSpec
<1>1. Init => CellInit
  BY DEF Init
<1> QED BY <1>1, CellStep, Bound, PTL DEF Spec, CellSpec

-----------------------------------------------------------------------------
(* The walk's stack. *)

\* The frame a step finds on top.
LEMMA TopFrame ==
    ASSUME TypeOK, stack # <<>>
    PROVE  /\ stack \in Seq(Frames) /\ Height \in Nat /\ Height >= 1
           /\ Top = stack[1] /\ Top \in Frames
           /\ Top.node \in Nodes /\ Top.stage \in Stages /\ Top.next \in Nat
<1>1. stack \in Seq(Frames)
  BY DEF TypeOK, Frames
<1>2. Top = stack[1] /\ Top \in Frames /\ Height \in Nat /\ Height >= 1
  BY <1>1, Dropped DEF Top, Height
<1> QED BY <1>1, <1>2 DEF Frames

\* Every frame is a node in a stage.
LEMMA FrameType ==
    ASSUME TypeOK, NEW k \in 1 .. Height
    PROVE  stack[k].node \in Nodes /\ stack[k].stage \in Stages /\ stack[k].next \in Nat
<1>1. stack \in Seq(Frames)
  BY DEF TypeOK, Frames
<1>2. stack[k] \in Frames
  BY <1>1 DEF Height
<1> QED BY <1>2 DEF Frames

\* A step that moves the top frame to another stage.
LEMMA GotoStack ==
    ASSUME TypeOK, StackInv, stack # <<>>, NEW st \in Stages, NEW nx \in Nat, nx >= 1,
           Goto(st, nx)
    PROVE  /\ stack' \in Seq(Frames) /\ stack' # <<>> /\ Height' = Height
           /\ Top' = stack'[1] /\ stack'[1] = [node |-> Top.node, stage |-> st, next |-> nx]
           /\ \A k \in 2 .. Height : stack'[k] = stack[k] /\ Visited(k)' = Visited(k)
           /\ StackInv'
<1> DEFINE f == [node |-> Top.node, stage |-> st, next |-> nx]
<1>1. /\ stack \in Seq(Frames) /\ Height \in Nat /\ Height >= 1
      /\ Top = stack[1] /\ Top.node \in Nodes
  BY TopFrame
<1>2. f \in Frames
  BY <1>1 DEF Frames
<1>3. stack' = <<f>> \o Tail(stack)
  BY DEF Goto, Frame
<1>4. /\ stack' \in Seq(Frames) /\ stack' # <<>> /\ Height' = Height
      /\ Top' = stack'[1] /\ stack'[1] = f
      /\ \A k \in 2 .. Height : stack'[k] = stack[k]
  BY <1>1, <1>2, <1>3, Replaced DEF Height, Top
<1>5. \A k \in 2 .. Height : Visited(k)' = Visited(k)
  BY <1>4 DEF Visited, Passed, Read
<1>6. \A k \in 1 .. Height : stack'[k].node = stack[k].node
  BY <1>1, <1>4
<1>7. StackInv'
  <2>1. \A k \in 1 .. Height : stack'[k].next >= 1
    BY <1>1, <1>4 DEF StackInv
  <2>2. ASSUME NEW k \in 2 .. Height
        PROVE  /\ stack'[k].stage = "upstream"
               /\ stack'[k].next - 1 \in DOMAIN Wiring[stack'[k].node]
               /\ Child(k)' = stack'[k - 1].node
               /\ \A j \in 1 .. (k - 1) : Provenance[stack'[j].node] \subseteq Provenance[Child(k)']
    <3>1. stack'[k] = stack[k] /\ Child(k)' = Child(k)
      BY <1>4 DEF Child, Read
    <3>2. \A j \in 1 .. (k - 1) : j \in 1 .. Height /\ k - 1 \in 1 .. Height
      BY <1>1
    <3>3. \A j \in 1 .. (k - 1) : stack'[j].node = stack[j].node
      BY <1>6, <3>2
    <3>4. k - 1 \in 1 .. (k - 1)
      OBVIOUS
    <3> QED BY <3>1, <3>3, <3>4 DEF StackInv
  <2> QED BY <1>4, <2>1, <2>2 DEF StackInv
<1> QED BY <1>4, <1>5, <1>7

\* A step that returns from the top frame: the frame under it has then been
\* through the node returned from.
LEMMA PopStack ==
    ASSUME TypeOK, StackInv, stack # <<>>, stack' = Tail(stack)
    PROVE  /\ stack' \in Seq(Frames) /\ StackInv'
           /\ ~Gathering' /\ ~Checking'
           /\ AllVisited' \subseteq AllVisited \cup {Top.node}
           /\ Height = 1 => AllVisited' = {}
<1>1. /\ stack \in Seq(Frames) /\ Height \in Nat /\ Height >= 1
      /\ Top = stack[1] /\ Top.node \in Nodes
  BY TopFrame
<1>2. /\ stack' \in Seq(Frames) /\ Height' = Height - 1
      /\ \A k \in 1 .. (Height - 1) : stack'[k] = stack[k + 1]
      /\ stack' # <<>> => Height >= 2 /\ Top' = stack[2]
  BY <1>1, Dropped DEF Height, Top
<1>3. StackInv'
  <2>1. \A k \in 1 .. Height' : stack'[k].next >= 1
    <3>1. ASSUME NEW k \in 1 .. Height' PROVE k \in 1 .. (Height - 1) /\ k + 1 \in 1 .. Height
      BY <1>1, <1>2
    <3>2. ASSUME NEW k \in 1 .. Height' PROVE stack'[k] = stack[k + 1]
      BY <1>2, <3>1
    <3> QED BY <3>1, <3>2 DEF StackInv
  <2>2. ASSUME NEW k \in 2 .. Height'
        PROVE  /\ stack'[k].stage = "upstream"
               /\ stack'[k].next - 1 \in DOMAIN Wiring[stack'[k].node]
               /\ Child(k)' = stack'[k - 1].node
               /\ \A j \in 1 .. (k - 1) : Provenance[stack'[j].node] \subseteq Provenance[Child(k)']
    <3>1. k + 1 \in 2 .. Height /\ (k + 1) - 1 = k
      BY <1>1, <1>2
    <3>2. stack'[k] = stack[k + 1] /\ stack'[k - 1] = stack[k]
      <4>1. k \in 1 .. (Height - 1) /\ k - 1 \in 1 .. (Height - 1) /\ (k - 1) + 1 = k
        BY <1>1, <1>2
      <4>2. stack'[k] = stack[k + 1] /\ stack'[k - 1] = stack[(k - 1) + 1]
        BY <1>2, <4>1
      <4> QED BY <4>1, <4>2
    <3>3. Child(k)' = Child(k + 1)
      BY <3>2 DEF Child, Read
    <3>4. ASSUME NEW j \in 1 .. (k - 1)
          PROVE  Provenance[stack'[j].node] \subseteq Provenance[Child(k)']
      <4>1. stack'[j] = stack[j + 1] /\ j + 1 \in 1 .. ((k + 1) - 1)
        <5>1. j \in 1 .. (Height - 1) /\ j + 1 \in 1 .. ((k + 1) - 1)
          BY <1>1, <1>2
        <5> QED BY <1>2, <5>1
      <4> QED BY <3>1, <3>3, <4>1 DEF StackInv
    <3> QED BY <3>1, <3>2, <3>3, <3>4 DEF StackInv
  <2> QED BY <2>1, <2>2 DEF StackInv
<1>4. ~Gathering' /\ ~Checking'
  <2>1. Height >= 2 => stack[2].stage = "upstream"
    BY <1>1 DEF StackInv
  <2> QED BY <1>2, <2>1 DEF Gathering, Checking
<1>5. ASSUME NEW k \in 2 .. Height' PROVE Visited(k)' = Visited(k + 1)
  <2>1. k \in 1 .. (Height - 1) /\ k # 1 /\ k + 1 # 1
    BY <1>1, <1>2
  <2>2. stack'[k] = stack[k + 1]
    BY <1>2, <2>1
  <2>3. \A i : /\ Read(k, i)' = Read(k + 1, i)
               /\ Passed(k, i)' <=> Passed(k + 1, i)
    BY <2>1, <2>2 DEF Passed, Read
  <2>4. DOMAIN Wiring[stack'[k].node] = DOMAIN Wiring[stack[k + 1].node]
    BY <2>2
  <2> QED BY <2>3, <2>4 DEF Visited
<1>6. ASSUME 1 \in 1 .. Height' PROVE Visited(1)' \subseteq Visited(2) \cup {Top.node}
  <2>1. 2 \in 2 .. Height /\ stack'[1] = stack[2]
    <3>1. 2 \in 2 .. Height /\ 1 \in 1 .. (Height - 1) /\ 1 + 1 = 2
      BY <1>1, <1>2, <1>6
    <3>2. stack'[1] = stack[1 + 1]
      BY <1>2, <3>1
    <3> QED BY <3>1, <3>2
  <2>2. /\ stack[2].stage = "upstream" /\ Child(2) = stack[1].node
        /\ stack[2].node \in Nodes /\ stack[2].next \in Nat
    BY <2>1, FrameType DEF StackInv
  <2>3. SUFFICES ASSUME NEW i \in DOMAIN Wiring[stack[2].node],
                        Wiring[stack[2].node][i] \in Nodes, i < stack[2].next
                 PROVE  Wiring[stack[2].node][i] \in Visited(2) \cup {Top.node}
    BY <2>1, <2>2 DEF Visited, Passed, Read
  <2>4. i \in Nat
    BY <2>2, Wired
  <2>5. CASE i = stack[2].next - 1
    BY <1>1, <2>2, <2>5 DEF Child, Read
  <2>6. CASE i < stack[2].next - 1
    BY <2>2, <2>3, <2>6 DEF Visited, Passed, Read
  <2> QED BY <2>2, <2>3, <2>4, <2>5, <2>6
<1>7. \A k \in 1 .. Height' : k = 1 \/ k \in 2 .. Height'
  BY <1>1, <1>2
<1>8. \A k \in 1 .. Height' : k + 1 \in 1 .. Height
  BY <1>1, <1>2
<1>9. AllVisited' \subseteq AllVisited \cup {Top.node}
  <2> SUFFICES ASSUME NEW k \in 1 .. Height', NEW n \in Visited(k)'
               PROVE  n \in AllVisited \cup {Top.node}
    BY DEF AllVisited
  <2>1. CASE k = 1
    BY <1>6, <1>8, <2>1 DEF AllVisited
  <2>2. CASE k \in 2 .. Height'
    BY <1>5, <1>8, <2>2 DEF AllVisited
  <2> QED BY <1>7, <2>1, <2>2
<1>10. Height = 1 => AllVisited' = {}
  BY <1>2 DEF AllVisited
<1> QED BY <1>2, <1>3, <1>4, <1>9, <1>10

\* A step that recurses into the next upstream node of the top frame.
LEMMA PushStack ==
    ASSUME TypeOK, StackInv, stack # <<>>, Top.stage = "upstream",
           NEW i \in Ahead, \A j \in Ahead : i <= j,
           stack' = <<Frame(Wiring[Top.node][i], "visit", 1), Frame(Top.node, "upstream", i + 1)>>
                      \o Tail(stack)
    PROVE  /\ stack' \in Seq(Frames) /\ stack' # <<>> /\ StackInv'
           /\ ~Gathering' /\ ~Checking'
           /\ AllVisited' \subseteq AllVisited
<1> DEFINE n == Top.node
           f == [node |-> Wiring[n][i], stage |-> "visit", next |-> 1]
           g == [node |-> n, stage |-> "upstream", next |-> i + 1]
<1>1. /\ stack \in Seq(Frames) /\ Height \in Nat /\ Height >= 1
      /\ Top = stack[1] /\ n \in Nodes /\ Top.next \in Nat /\ Top.next >= 1
  BY TopFrame DEF StackInv
<1>2. /\ i \in Nat /\ i >= 1 /\ i >= Top.next /\ i \in 1 .. Len(Wiring[n])
      /\ Wiring[n][i] \in Nodes /\ DOMAIN Wiring[n] = 1 .. Len(Wiring[n])
  BY <1>1, Wired DEF Ahead
<1>3. f \in Frames /\ g \in Frames
  BY <1>1, <1>2 DEF Frames, Stages
<1>0. stack' = <<f, g>> \o Tail(stack)
  BY DEF Frame
<1>4. /\ stack' \in Seq(Frames) /\ stack' # <<>> /\ Height' = Height + 1
      /\ stack'[1] = f /\ stack'[2] = g /\ Top' = f
      /\ \A k \in 3 .. (Height + 1) : stack'[k] = stack[k - 1]
  BY <1>0, <1>1, <1>3, Pushed DEF Height, Top
<1>9. /\ stack'[1].node = Wiring[n][i]
      /\ stack'[2].stage = "upstream" /\ stack'[2].node = n /\ stack'[2].next - 1 = i
  <2>1. /\ stack'[1].node = Wiring[n][i]
        /\ stack'[2].stage = "upstream" /\ stack'[2].node = n /\ stack'[2].next = i + 1
    BY <1>4
  <2> QED BY <1>2, <2>1
<1>5. \A k \in 1 .. Height' : k = 1 \/ k = 2 \/ (k \in 3 .. (Height + 1) /\ k - 1 \in 2 .. Height)
  BY <1>1, <1>4
<1>6. StackInv'
  <2>1. ASSUME NEW k \in 1 .. Height' PROVE stack'[k].next >= 1
    <3>1. \A j \in 2 .. Height : stack[j].next >= 1
      BY <1>1 DEF StackInv
    <3>2. f.next = 1 /\ g.next = i + 1 /\ i + 1 >= 1
      BY <1>2
    <3>4. stack'[1].next >= 1 /\ stack'[2].next >= 1
      BY <1>4, <3>2
    <3>3. ASSUME k \in 3 .. (Height + 1), k - 1 \in 2 .. Height PROVE stack'[k].next >= 1
      BY <1>4, <3>1, <3>3
    <3> QED BY <1>5, <3>3, <3>4
  <2>2. ASSUME NEW k \in 2 .. Height'
        PROVE  /\ stack'[k].stage = "upstream"
               /\ stack'[k].next - 1 \in DOMAIN Wiring[stack'[k].node]
               /\ Child(k)' = stack'[k - 1].node
               /\ \A j \in 1 .. (k - 1) : Provenance[stack'[j].node] \subseteq Provenance[Child(k)']
    <3>1. CASE k = 2
      <4>1. Child(2)' = Wiring[n][i]
        BY <1>9 DEF Child, Read
      <4>2. k - 1 = 1 /\ \A j \in 1 .. (k - 1) : j = 1
        BY <3>1
      <4> HIDE DEF n
      <4> QED BY <1>2, <1>9, <3>1, <4>1, <4>2
    <3>2. CASE k \in 3 .. (Height + 1)
      <4>1. k - 1 \in 2 .. Height /\ stack'[k] = stack[k - 1]
        <5>1. k - 1 \in 2 .. Height
          BY <1>1, <3>2
        <5> QED BY <1>4, <3>2, <5>1
      <4>2. Child(k)' = Child(k - 1)
        BY <4>1 DEF Child, Read
      <4>3. stack'[k - 1].node = stack[(k - 1) - 1].node
        <5>1. CASE k = 3
          BY <1>1, <1>4, <5>1
        <5>2. CASE k # 3
          <6>1. k - 1 \in 3 .. (Height + 1)
            BY <1>1, <3>2, <5>2
          <6> QED BY <1>4, <6>1
        <5> QED BY <5>1, <5>2
      <4>4. Provenance[n] \subseteq Provenance[Child(k - 1)]
        <5>1. 1 \in 1 .. ((k - 1) - 1)
          BY <1>1, <4>1
        <5> QED BY <1>1, <4>1, <5>1 DEF StackInv
      <4>5. ASSUME NEW j \in 1 .. (k - 1)
            PROVE  Provenance[stack'[j].node] \subseteq Provenance[Child(k)']
        <5>1. CASE j = 1
          <6>1. Provenance[Wiring[n][i]] \subseteq Provenance[n]
            BY <1>1, <1>2, Wired DEF Carried
          <6>2. stack'[j].node = Wiring[n][i]
            BY <1>9, <5>1
          <6> QED BY <4>2, <4>4, <6>1, <6>2
        <5>2. CASE j = 2
          <6>1. stack'[j].node = n
            BY <1>9, <5>2
          <6> QED BY <4>2, <4>4, <6>1
        <5>3. CASE j \in 3 .. (k - 1)
          <6>1. j \in 3 .. (Height + 1) /\ j - 1 \in 1 .. ((k - 1) - 1)
            BY <1>1, <3>2, <5>3
          <6>2. stack'[j] = stack[j - 1]
            BY <1>4, <6>1
          <6>3. Provenance[stack[j - 1].node] \subseteq Provenance[Child(k - 1)]
            BY <4>1, <6>1 DEF StackInv
          <6> QED BY <4>2, <6>2, <6>3
        <5>4. j = 1 \/ j = 2 \/ j \in 3 .. (k - 1)
          BY <1>1, <3>2
        <5> QED BY <5>1, <5>2, <5>3, <5>4
      <4> QED BY <4>1, <4>2, <4>3, <4>5 DEF StackInv
    <3>3. k \in 1 .. Height' /\ k # 1
      BY <1>1, <1>4
    <3> QED BY <1>5, <3>1, <3>2, <3>3
  <2> QED BY <2>1, <2>2 DEF StackInv
<1>7. ~Gathering' /\ ~Checking'
  BY <1>4 DEF Gathering, Checking
<1>8. ASSUME NEW k \in 1 .. Height', NEW m \in Visited(k)' PROVE m \in AllVisited
  <2>1. CASE k = 1
    BY <1>4, <2>1 DEF Visited, Passed
  <2>2. CASE k = 2
    <3>1. stack'[k] = g /\ (i + 1) - 1 = i
      BY <1>2, <1>4, <2>2
    <3>2. PICK j \in DOMAIN Wiring[n] : m = Wiring[n][j] /\ m \in Nodes /\ j < i
      BY <2>2, <3>1 DEF Visited, Passed, Read
    <3>3. j < Top.next
      <4>1. j \notin Ahead
        BY <1>2, <3>2
      <4> QED BY <1>1, <1>2, <3>2, <4>1 DEF Ahead
    <3>4. m \in Visited(1)
      BY <1>1, <3>2, <3>3 DEF Visited, Passed, Read
    <3> QED BY <1>1, <3>4 DEF AllVisited
  <2>3. CASE k \in 3 .. (Height + 1)
    <3>1. k - 1 \in 2 .. Height /\ k # 1 /\ k - 1 # 1 /\ k - 1 \in 1 .. Height
      BY <1>1, <2>3
    <3>0. stack'[k] = stack[k - 1]
      BY <1>4, <2>3
    <3>2. Visited(k)' = Visited(k - 1)
      BY <3>0, <3>1 DEF Visited, Passed, Read
    <3> QED BY <3>1, <3>2 DEF AllVisited
  <2> QED BY <1>5, <2>1, <2>2, <2>3
<1> QED BY <1>4, <1>6, <1>7, <1>8 DEF AllVisited

\* What the frames under the top one have been through.
Beneath == UNION {Visited(k) : k \in 2 .. Height}

\* Moving the top frame on visits no further node.
LEMMA GotoVisited ==
    ASSUME TypeOK, StackInv, stack # <<>>, NEW st \in Stages, NEW nx \in Nat, nx >= 1,
           Goto(st, nx)
    PROVE  /\ Beneath \subseteq AllVisited
           /\ st = "check" \/ (st = "upstream" /\ nx = 1) => AllVisited' \subseteq Beneath
           /\ st = "gather" /\ Top.stage = "gather" => AllVisited' \subseteq AllVisited
           /\ st = "gather" /\ Top.stage = "upstream" /\ Ahead = {} => AllVisited' \subseteq AllVisited
<1>1. /\ Height \in Nat /\ Height >= 1 /\ Top = stack[1] /\ Top.node \in Nodes /\ Top.next \in Nat
  BY TopFrame
<1>2. /\ Height' = Height /\ stack'[1] = [node |-> Top.node, stage |-> st, next |-> nx]
      /\ \A k \in 2 .. Height : Visited(k)' = Visited(k)
  BY GotoStack
<1>3. \A k \in 1 .. Height : k = 1 \/ k \in 2 .. Height
  BY <1>1
<1>4. AllVisited' \subseteq Visited(1)' \cup Beneath /\ Beneath \subseteq AllVisited
  BY <1>1, <1>2, <1>3 DEF AllVisited, Beneath
<1>5. Visited(1) \subseteq AllVisited
  BY <1>1 DEF AllVisited
<1>6. ASSUME st = "check" \/ (st = "upstream" /\ nx = 1) PROVE Visited(1)' = {}
  <2>1. DOMAIN Wiring[Top.node] = 1 .. Len(Wiring[Top.node])
    BY <1>1, Wired
  <2>2. \A j \in DOMAIN Wiring[Top.node] : ~(j < 1)
    BY <2>1
  <2> QED BY <1>2, <1>6, <2>2 DEF Visited, Passed, Read
<1>7. ASSUME st = "gather", Top.stage = "gather" PROVE Visited(1)' \subseteq Visited(1)
  BY <1>1, <1>2, <1>7 DEF Visited, Passed, Read
<1>8. ASSUME st = "gather", Top.stage = "upstream", Ahead = {}
      PROVE  Visited(1)' \subseteq Visited(1)
  <2> SUFFICES ASSUME NEW j \in DOMAIN Wiring[Top.node], Wiring[Top.node][j] \in Nodes
               PROVE  j < Top.next
    BY <1>1, <1>2, <1>8 DEF Visited, Passed, Read
  <2>1. j \in 1 .. Len(Wiring[Top.node]) /\ Len(Wiring[Top.node]) \in Nat
    BY <1>1, Wired
  <2> QED BY <1>1, <1>8, <2>1 DEF Ahead
<1> QED BY <1>4, <1>5, <1>6, <1>7, <1>8

-----------------------------------------------------------------------------
(* What a step does, seen from the walk. *)

\* A host's call finds no read in progress, and leaves memoized only nodes whose
\* slots it has neither written nor bound anew.
LEMMA HostSteps ==
    ASSUME TypeOK, HostCall
    PROVE  /\ stack = <<>> /\ UNCHANGED <<buffers, last_seen, stack, scan, input_scratch, due>>
           /\ node_clean' \subseteq node_clean /\ answer' = NoAnswer
           /\ inputs' \in [Slots -> Nat]
           /\ \A n \in node_clean', s \in Slots : s \in Provenance[n] =>
                shared_cells'[s] = shared_cells[s] /\ inputs'[s] = inputs[s]
<1> USE DEF TypeOK, HostIdle, Invalidate, Dirty, Dependents
<1>0. node_clean \subseteq Nodes
  OBVIOUS
<1>1. CASE SetInputs
  <2>1. /\ stack = <<>> /\ UNCHANGED <<buffers, last_seen, stack, scan, input_scratch, due>>
        /\ answer' = NoAnswer /\ UNCHANGED shared_cells
        /\ node_clean' = node_clean \ Dirty(Coordinates)
    BY <1>1 DEF SetInputs
  <2>2. PICK coords \in [Coordinates -> InputValues] :
          inputs' = [s \in Slots |-> IF s \in Coordinates THEN coords[s] ELSE inputs[s]]
    BY <1>1 DEF SetInputs
  <2>3. inputs' \in [Slots -> Nat]
    BY <2>2, InputValuesAssumption
  <2>4. \A s \in Slots : s \notin Coordinates => inputs'[s] = inputs[s]
    BY <2>2
  <2> QED BY <1>0, <2>1, <2>3, <2>4
<1>2. CASE ResetInputs
  <2>1. /\ stack = <<>> /\ UNCHANGED <<buffers, last_seen, stack, scan, input_scratch, due>>
        /\ answer' = NoAnswer /\ UNCHANGED shared_cells
    BY <1>2 DEF ResetInputs
  <2>2. PICK reset \in SUBSET Slots :
          /\ inputs' = [s \in Slots |-> IF s \in reset THEN 0 ELSE inputs[s]]
          /\ node_clean' = node_clean \ Dirty(reset)
    BY <1>2 DEF ResetInputs
  <2>3. inputs' \in [Slots -> Nat]
    BY <2>2
  <2>4. \A s \in Slots : s \notin reset => inputs'[s] = inputs[s]
    BY <2>2
  <2> QED BY <1>0, <2>1, <2>2, <2>3, <2>4
<1>3. CASE InvalidateAll
  BY <1>3 DEF InvalidateAll
<1>4. ASSUME NEW t \in Slots, SetInput(t)
      PROVE  /\ stack = <<>> /\ UNCHANGED <<buffers, last_seen, stack, scan, input_scratch, due>>
             /\ node_clean' \subseteq node_clean /\ answer' = NoAnswer
             /\ inputs' \in [Slots -> Nat]
             /\ \A n \in node_clean', s \in Slots : s \in Provenance[n] =>
                  shared_cells'[s] = shared_cells[s] /\ inputs'[s] = inputs[s]
  <2>1. /\ stack = <<>> /\ UNCHANGED <<buffers, last_seen, stack, scan, input_scratch, due>>
        /\ answer' = NoAnswer /\ UNCHANGED shared_cells
        /\ node_clean' = node_clean \ Dependents(t)
    BY <1>4 DEF SetInput
  <2>2. PICK v \in InputValues : inputs' = [inputs EXCEPT ![t] = v]
    BY <1>4 DEF SetInput
  <2>3. inputs' \in [Slots -> Nat] /\ \A s \in Slots : s # t => inputs'[s] = inputs[s]
    BY <2>2, InputValuesAssumption
  <2> QED BY <1>0, <2>1, <2>3
<1>5. ASSUME NEW t \in Slots, SetCellInput(t)
      PROVE  /\ stack = <<>> /\ UNCHANGED <<buffers, last_seen, stack, scan, input_scratch, due>>
             /\ node_clean' \subseteq node_clean /\ answer' = NoAnswer
             /\ UNCHANGED <<inputs, shared_cells>>
  BY <1>5 DEF SetCellInput
<1>6. ASSUME NEW pair \in Attachable, AttachSharedCell(pair[1], pair[2])
      PROVE  /\ stack = <<>> /\ UNCHANGED <<buffers, last_seen, stack, scan, input_scratch, due>>
             /\ node_clean' \subseteq node_clean /\ answer' = NoAnswer
             /\ inputs' \in [Slots -> Nat]
             /\ \A n \in node_clean', s \in Slots : s \in Provenance[n] =>
                  shared_cells'[s] = shared_cells[s] /\ inputs'[s] = inputs[s]
  <2>1. /\ stack = <<>> /\ UNCHANGED <<buffers, last_seen, stack, scan, input_scratch, due>>
        /\ answer' = NoAnswer /\ UNCHANGED inputs
        /\ node_clean' = node_clean \ Dependents(pair[1])
    BY <1>6 DEF AttachSharedCell
  <2>2. shared_cells' = [shared_cells EXCEPT ![pair[1]] = pair[2]]
    BY <1>6 DEF AttachSharedCell
  <2>3. \A s \in Slots : s # pair[1] => shared_cells'[s] = shared_cells[s]
    BY <2>2
  <2> QED BY <1>0, <2>1, <2>3
<1> QED BY <1>1, <1>2, <1>3, <1>4, <1>5, <1>6 DEF HostCall

\* A gather copies one source of a node: a slot, or a node visited in this read.
LEMMA GatherSource ==
    ASSUME WalkInv, Gather, NEW src, src = Wiring[Top.node][Top.next]
    PROVE  /\ Gathering /\ Gathering' /\ Top'.node = Top.node /\ Top'.next = Top.next + 1
           /\ Top.node \in Nodes /\ Top.next \in 1 .. Len(Wiring[Top.node])
           /\ src \in Slots \/ (src \notin Slots /\ src \in Nodes /\ src \in AllVisited)
           /\ Carried(src) \subseteq Provenance[Top.node]
           /\ \A s : Brought(s)' <=> Brought(s) \/ s \in Carried(src)
           /\ StackInv' /\ stack' \in Seq(Frames) /\ AllVisited' \subseteq AllVisited
           /\ UNCHANGED <<cellVars, inputs, shared_cells, node_clean, buffers, last_seen, scan,
                          answer, due>>
           /\ src \in Slots =>
                input_scratch' = [input_scratch EXCEPT ![src] = @ \cup {ReadInput(src)}]
           /\ src \notin Slots =>
                input_scratch' = [s \in Slots |-> input_scratch[s] \cup buffers[src][s]]
<1> USE DEF WalkInv
<1>1. /\ stack # <<>> /\ Top.stage = "gather" /\ Top.next <= Len(Wiring[Top.node])
      /\ Goto("gather", Top.next + 1)
  BY DEF Gather
<1>2. /\ Height >= 1 /\ Height \in Nat /\ Top = stack[1] /\ Top.node \in Nodes
      /\ Top.next \in Nat /\ Top.next >= 1
  BY <1>1, TopFrame DEF StackInv
<1>3. Top.next \in 1 .. Len(Wiring[Top.node]) /\ DOMAIN Wiring[Top.node] = 1 .. Len(Wiring[Top.node])
  BY <1>1, <1>2, Wired
<1>4. "gather" \in Stages /\ Top.next + 1 \in Nat /\ Top.next + 1 >= 1
  BY <1>2 DEF Stages
<1>5. /\ stack' # <<>> /\ StackInv' /\ stack' \in Seq(Frames)
      /\ Top' = [node |-> Top.node, stage |-> "gather", next |-> Top.next + 1]
      /\ AllVisited' \subseteq AllVisited
  BY <1>1, <1>2, <1>4, GotoStack, GotoVisited
<1>6. Gathering /\ Gathering' /\ Top'.node = Top.node /\ Top'.next = Top.next + 1
  BY <1>1, <1>5 DEF Gathering
<1>7. (src \in Slots \/ (src \notin Slots /\ src \in Nodes)) /\ Carried(src) \subseteq Provenance[Top.node]
  BY <1>2, <1>3, Wired
<1>8. ASSUME src \in Nodes PROVE src \in AllVisited
  <2>1. src \in Visited(1)
    BY <1>1, <1>2, <1>3, <1>8 DEF Visited, Passed, Read
  <2> QED BY <1>2, <2>1 DEF AllVisited
<1>9. ASSUME NEW s PROVE Brought(s)' <=> Brought(s) \/ s \in Carried(src)
  <2>1. \A i \in DOMAIN Wiring[Top.node] : i < Top.next + 1 <=> i < Top.next \/ i = Top.next
    BY <1>2, <1>3, Wired
  <2>2. Brought(s)' <=> \E i \in DOMAIN Wiring[Top.node] :
                          i < Top.next + 1 /\ s \in Carried(Wiring[Top.node][i])
    BY <1>6 DEF Brought, Carried
  <2> QED BY <1>3, <2>1, <2>2 DEF Brought
<1>10. Carried(src) \subseteq Provenance[Top.node]
  BY <1>2, <1>3, Wired
<1> QED BY <1>3, <1>2, <1>5, <1>6, <1>7, <1>8, <1>9, <1>10 DEF Gather

\* When a gather is done, every slot of the node's provenance has been brought.
LEMMA AllBrought ==
    ASSUME WalkInv, GatherDone
    PROVE  /\ Gathering /\ Top.node \in Nodes
           /\ \A s : Brought(s) <=> s \in Provenance[Top.node]
<1>1. /\ Gathering /\ Top.node \in Nodes /\ Top.next \in Nat /\ stack # <<>>
      /\ Top.next > Len(Wiring[Top.node])
  BY TopFrame DEF WalkInv, GatherDone, Gathering
<1>2. \A i \in DOMAIN Wiring[Top.node] : i < Top.next
  BY <1>1, Wired
<1> QED BY <1>1, <1>2, Wired DEF Brought

-----------------------------------------------------------------------------
(* The walk is well formed. *)

LEMMA WalkInit == Init /\ CellTypeOK => WalkInv
<1> SUFFICES ASSUME Init, CellTypeOK PROVE WalkInv
  OBVIOUS
<1> USE DEF Init, KernelInit
<1>1. TypeOK
  BY InputValuesAssumption, BindingAssumption DEF TypeOK, Blank, NoScan, Frames
<1>2. Height = 0
  BY DEF Height
<1> QED BY <1>1, <1>2 DEF WalkInv, ScanTypeOK, StackInv, NoStrays, Checking, Gathering, NoScan, Blank

LEMMA WalkNext ==
    ASSUME CellTypeOK', BindInv, BindInv', WalkInv, [Next]_vars
    PROVE  WalkInv'
<1> USE DEF WalkInv
<1>0. shared_cells' \in [Slots -> Cells \cup {NoCell}]
  BY DEF BindInv
<1>1. CASE UNCHANGED kernelVars
  BY <1>1 DEF kernelVars, TypeOK, ScanTypeOK, StackInv, NoStrays, Checking, Gathering, Brought,
     Height, Child, Read, Top, CellSlots
<1>2. CASE HostCall
  <2>1. /\ stack = <<>> /\ UNCHANGED <<buffers, last_seen, stack, scan, input_scratch, due>>
        /\ node_clean' \subseteq node_clean /\ answer' = NoAnswer /\ inputs' \in [Slots -> Nat]
    BY <1>2, HostSteps
  <2>2. TypeOK'
    BY <1>0, <2>1 DEF TypeOK, NoAnswer
  <2>3. ~Gathering' /\ ~Checking' /\ Height' = 0
    BY <2>1 DEF Gathering, Checking, Height
  <2> QED BY <2>1, <2>2, <2>3 DEF ScanTypeOK, StackInv, NoStrays
<1>3. ASSUME NEW out \in Outputs, BeginPull(out) PROVE WalkInv'
  <2>1. /\ UNCHANGED <<cellVars, inputs, shared_cells, buffers, last_seen, scan, input_scratch>>
        /\ node_clean' \subseteq node_clean /\ answer' = NoAnswer /\ due' = completed
        /\ stack' = <<[node |-> out, stage |-> "visit", next |-> 1]>>
    BY <1>3 DEF BeginPull, Frame
  <2>2. out \in Nodes
    BY OutputsAssumption
  <2>3. TypeOK'
    BY <1>0, <2>1, <2>2 DEF TypeOK, NoAnswer, Stages, CellTypeOK, cellVars
  <2>4. Height' = 1 /\ Top'.stage = "visit" /\ stack'[1].next = 1
    BY <2>1 DEF Height, Top
  <2>5. ~Gathering' /\ ~Checking'
    BY <2>4 DEF Gathering, Checking
  <2>6. StackInv'
    BY <2>4 DEF StackInv
  <2> QED BY <2>1, <2>3, <2>5, <2>6 DEF ScanTypeOK, NoStrays
<1>4. CASE Visit
  <2>1. /\ stack # <<>> /\ Top.stage = "visit"
        /\ UNCHANGED <<cellVars, inputs, shared_cells, node_clean, buffers, last_seen,
                       input_scratch, answer, due>>
    BY <1>4 DEF Visit
  <2>2. PICK st \in {"check", "upstream"} : Goto(st, 1) /\ (st = "check" => Top.node \in node_clean)
    BY <1>4 DEF Visit
  <2>3. st \in Stages /\ 1 \in Nat /\ 1 >= 1
    BY <2>2 DEF Stages
  <2>4. /\ stack' \in Seq(Frames) /\ StackInv'
        /\ Top' = [node |-> Top.node, stage |-> st, next |-> 1]
    BY <2>1, <2>2, <2>3, GotoStack
  <2>5. /\ scan' = [words |-> scan'.words, pending |-> scan'.pending, moved |-> scan'.moved]
        /\ scan'.pending \subseteq Slots /\ scan'.moved \subseteq (Slots \X Nat)
    BY <1>4 DEF Visit, ScanTypeOK, TypeOK
  <2>8. st = "check" => scan'.pending = {}
    BY <1>4, <2>2, <2>4 DEF Visit, Top
  <2>6. TypeOK'
    BY <1>0, <2>1, <2>4, <2>5 DEF TypeOK, Frames
  <2>7. ~Gathering' /\ (Checking' => Top'.node \in node_clean' /\ scan'.pending = {})
    BY <2>1, <2>2, <2>4, <2>8 DEF Gathering, Checking
  <2> QED BY <2>1, <2>4, <2>5, <2>6, <2>7 DEF ScanTypeOK, NoStrays
<1>5. CASE LoadIntent \/ LoadRevision
  <2>1. UNCHANGED <<cellVars, inputs, shared_cells, node_clean, buffers, last_seen, stack,
                    input_scratch, answer, due>>
    BY <1>5 DEF LoadIntent, LoadRevision
  <2>2. /\ scan' = [words |-> scan'.words, pending |-> scan'.pending, moved |-> scan'.moved]
        /\ scan'.pending \subseteq Slots /\ scan'.moved \subseteq (Slots \X Nat)
        /\ scan'.pending \subseteq CellSlots(Top.node)
    <3>1. CASE LoadIntent
      <4>1. CellSlots(Top.node) \subseteq Slots
        BY <3>1, TopFrame, ProvenanceSlots DEF CellSlots, LoadIntent
      <4> QED BY ZenonT(40), <3>1, <4>1 DEF LoadIntent, ScanTypeOK, TypeOK
    <3>2. CASE LoadRevision
      <4>1. PICK s \in scan.pending :
              scan' = [scan EXCEPT !.pending = @ \ {s},
                !.moved = IF revision[shared_cells[s]] # last_seen[shared_cells[s]]
                            THEN @ \cup {<<s, revision[shared_cells[s]]>>} ELSE @]
        BY <3>2 DEF LoadRevision
      <4>2. s \in Slots /\ scan.pending \subseteq CellSlots(Top.node)
        BY <3>2 DEF TypeOK, LoadRevision, Checking, ScanTypeOK
      <4>3. CASE revision[shared_cells[s]] # last_seen[shared_cells[s]]
        <5>1. shared_cells[s] \in Cells
          <6>1. s \in CellSlots(Top.node)
            BY <4>2
          <6> QED BY <4>2, <6>1 DEF CellSlots, BindInv
        <5>2. revision[shared_cells[s]] \in Nat
          BY <5>1 DEF TypeOK, CellTypeOK
        <5>3. <<s, revision[shared_cells[s]]>> \in Slots \X Nat
          BY <4>2, <5>2
        <5>4. scan' = [words |-> scan.words, pending |-> scan.pending \ {s},
                       moved |-> scan.moved \cup {<<s, revision[shared_cells[s]]>>}]
          BY <4>1, <4>3 DEF ScanTypeOK
        <5> QED BY <4>2, <5>3, <5>4 DEF TypeOK
      <4>4. CASE revision[shared_cells[s]] = last_seen[shared_cells[s]]
        BY <4>1, <4>2, <4>4 DEF ScanTypeOK, TypeOK
      <4> QED BY <4>3, <4>4
    <3> QED BY <1>5, <3>1, <3>2
  <2>3. TypeOK'
    BY <1>0, <2>1, <2>2 DEF TypeOK
  <2> QED BY <2>1, <2>2, <2>3 DEF ScanTypeOK, NoStrays, StackInv, Gathering, Checking, Brought, Top,
          Height, Child, Read, CellSlots
<1>6. CASE CheckClean
  <2>1. /\ stack # <<>> /\ Top.stage = "check" /\ stack' = Tail(stack)
        /\ answer' = IF Len(stack) = 1 THEN [node |-> Top.node, got |-> buffers[Top.node]] ELSE answer
        /\ UNCHANGED <<cellVars, inputs, shared_cells, node_clean, buffers, last_seen, scan,
                       input_scratch, due>>
    BY <1>6 DEF CheckClean, CheckDone, Return
  <2>2. Top.node \in Nodes /\ buffers[Top.node] \in [Slots -> SUBSET Nat]
    BY <2>1, TopFrame DEF TypeOK
  <2>3. stack' \in Seq(Frames) /\ StackInv' /\ ~Gathering' /\ ~Checking'
    BY <2>1, PopStack
  <2>4. answer' = NoAnswer \/ answer' \in [node : Nodes, got : [Slots -> SUBSET Nat]]
    BY <2>1, <2>2 DEF TypeOK, NoAnswer
  <2>5. TypeOK'
    BY <1>0, <2>1, <2>3, <2>4 DEF TypeOK, NoAnswer, Frames
  <2> QED BY <2>1, <2>3, <2>5 DEF ScanTypeOK, NoStrays
<1>7. CASE CheckMoved
  <2>1. /\ stack # <<>> /\ Top.stage = "check" /\ Goto("upstream", 1) /\ scan' = NoScan
        /\ UNCHANGED <<cellVars, inputs, shared_cells, buffers, input_scratch, answer, due>>
        /\ node_clean' \subseteq node_clean
    BY <1>7 DEF CheckMoved, CheckDone, Invalidate
  <2>2. "upstream" \in Stages /\ 1 \in Nat /\ 1 >= 1
    BY DEF Stages
  <2>3. /\ stack' \in Seq(Frames) /\ StackInv'
        /\ Top' = [node |-> Top.node, stage |-> "upstream", next |-> 1]
    BY <2>1, <2>2, GotoStack
  <2>4. last_seen' \in [Cells -> Nat]
    <3>1. last_seen' = [c \in Cells |->
            IF \E m \in scan.moved : shared_cells[m[1]] = c
              THEN (CHOOSE m \in scan.moved : shared_cells[m[1]] = c)[2]
              ELSE last_seen[c]]
      BY <1>7 DEF CheckMoved
    <3>2. \A m \in scan.moved : m[2] \in Nat
      BY DEF TypeOK
    <3>3. ASSUME NEW c \in Cells, \E m \in scan.moved : shared_cells[m[1]] = c
          PROVE  (CHOOSE m \in scan.moved : shared_cells[m[1]] = c) \in scan.moved
      BY <3>3
    <3>4. \A c \in Cells : last_seen[c] \in Nat
      BY DEF TypeOK
    <3> QED BY <3>1, <3>2, <3>3, <3>4
  <2>5. TypeOK'
    BY <1>0, <2>1, <2>3, <2>4 DEF TypeOK, Frames, NoScan
  <2>6. ~Gathering' /\ ~Checking'
    BY <2>3 DEF Gathering, Checking
  <2> QED BY <2>1, <2>3, <2>5, <2>6 DEF ScanTypeOK, NoStrays, NoScan
<1>8. CASE Descend
  <2>1. /\ stack # <<>> /\ Top.stage = "upstream"
        /\ UNCHANGED <<cellVars, inputs, shared_cells, node_clean, buffers, last_seen, scan,
                       input_scratch, answer, due>>
    BY <1>8 DEF Descend
  <2>2. PICK i \in Ahead :
          /\ \A j \in Ahead : i <= j
          /\ stack' = <<Frame(Wiring[Top.node][i], "visit", 1), Frame(Top.node, "upstream", i + 1)>>
                        \o Tail(stack)
    BY <1>8 DEF Descend
  <2>3. stack' \in Seq(Frames) /\ StackInv' /\ ~Gathering' /\ ~Checking'
    BY <2>1, <2>2, PushStack
  <2>4. TypeOK'
    BY <1>0, <2>1, <2>3 DEF TypeOK, Frames
  <2> QED BY <2>1, <2>3, <2>4 DEF ScanTypeOK, NoStrays
<1>9. CASE BeginGather
  <2>1. /\ stack # <<>> /\ Top.stage = "upstream" /\ Goto("gather", 1) /\ input_scratch' = Blank
        /\ UNCHANGED <<cellVars, inputs, shared_cells, node_clean, buffers, last_seen, scan,
                       answer, due>>
    BY <1>9 DEF BeginGather
  <2>2. "gather" \in Stages /\ 1 \in Nat /\ 1 >= 1
    BY DEF Stages
  <2>3. /\ stack' \in Seq(Frames) /\ StackInv'
        /\ Top' = [node |-> Top.node, stage |-> "gather", next |-> 1]
    BY <2>1, <2>2, GotoStack
  <2>4. TypeOK'
    BY <1>0, <2>1, <2>3 DEF TypeOK, Frames, Blank
  <2>5. ~Checking' /\ \A s \in Slots : input_scratch'[s] = {}
    BY <2>1, <2>3 DEF Checking, Blank
  <2> QED BY <2>1, <2>3, <2>4, <2>5 DEF ScanTypeOK, NoStrays
<1>10. CASE Gather
  <2> DEFINE src == Wiring[Top.node][Top.next]
  <2>1. /\ Gathering /\ Gathering' /\ Top.node \in Nodes
        /\ src \in Slots \/ (src \notin Slots /\ src \in Nodes)
        /\ \A s : Brought(s)' <=> Brought(s) \/ s \in Carried(src)
        /\ StackInv' /\ stack' \in Seq(Frames)
        /\ UNCHANGED <<cellVars, inputs, shared_cells, node_clean, buffers, last_seen, scan,
                       answer, due>>
    BY <1>10, GatherSource
  <2>2. ~Checking'
    BY <2>1 DEF Gathering, Checking
  <2>3. CASE src \in Slots
    <3>1. input_scratch' = [input_scratch EXCEPT ![src] = @ \cup {ReadInput(src)}]
      BY <1>10, <2>3, GatherSource
    <3>2. ReadInput(src) \in Nat
      BY <2>3 DEF ReadInput, TypeOK, CellTypeOK, BindInv
    <3>3. input_scratch' \in [Slots -> SUBSET Nat]
      BY <2>3, <3>1, <3>2 DEF TypeOK
    <3>4. TypeOK'
      BY <1>0, <2>1, <3>3 DEF TypeOK, Frames
    <3>5. ASSUME NEW s \in Slots, ~Brought(s)' PROVE input_scratch'[s] = {}
      <4>1. s # src /\ ~Brought(s)
        BY <2>1, <2>3, <3>5 DEF Carried
      <4>2. input_scratch'[s] = input_scratch[s]
        BY <2>3, <3>1, <4>1 DEF TypeOK
      <4> QED BY <2>1, <4>1, <4>2 DEF NoStrays
    <3> QED BY <2>1, <2>2, <3>4, <3>5 DEF ScanTypeOK, NoStrays
  <2>4. CASE src \notin Slots
    <3>1. input_scratch' = [s \in Slots |-> input_scratch[s] \cup buffers[src][s]]
      BY <1>10, <2>4, GatherSource
    <3>2. src \in Nodes /\ buffers[src] \in [Slots -> SUBSET Nat]
      BY <2>1, <2>4 DEF TypeOK
    <3>3. input_scratch' \in [Slots -> SUBSET Nat]
      BY <3>1, <3>2 DEF TypeOK
    <3>4. TypeOK'
      BY <1>0, <2>1, <3>3 DEF TypeOK, Frames
    <3>5. ASSUME NEW s \in Slots, ~Brought(s)' PROVE input_scratch'[s] = {}
      <4>1. s \notin Provenance[src] /\ ~Brought(s)
        BY <2>1, <2>4, <3>5 DEF Carried
      <4>2. input_scratch[s] = {} /\ buffers[src][s] = {}
        BY <2>1, <3>2, <4>1 DEF NoStrays
      <4> QED BY <3>1, <4>2
    <3> QED BY <2>1, <2>2, <3>4, <3>5 DEF ScanTypeOK, NoStrays
  <2> QED BY <2>3, <2>4
<1>11. CASE Evaluate
  <2>1. /\ GatherDone /\ stack # <<>> /\ stack' = Tail(stack)
        /\ buffers' = [buffers EXCEPT ![Top.node] = input_scratch]
        /\ node_clean' = node_clean \cup {Top.node}
        /\ answer' = IF Len(stack) = 1 THEN [node |-> Top.node, got |-> input_scratch] ELSE answer
        /\ UNCHANGED <<cellVars, inputs, shared_cells, last_seen, scan, input_scratch, due>>
    BY <1>11 DEF Evaluate, GatherDone, Return
  <2>2. Gathering /\ Top.node \in Nodes /\ \A s : Brought(s) <=> s \in Provenance[Top.node]
    BY <2>1, AllBrought
  <2>3. stack' \in Seq(Frames) /\ StackInv' /\ ~Gathering' /\ ~Checking'
    BY <2>1, PopStack
  <2>4. answer' = NoAnswer \/ answer' \in [node : Nodes, got : [Slots -> SUBSET Nat]]
    BY <2>1, <2>2 DEF TypeOK, NoAnswer
  <2>5. TypeOK'
    BY <1>0, <2>1, <2>2, <2>3, <2>4 DEF TypeOK, NoAnswer, Frames
  <2>6. ASSUME NEW n \in Nodes, NEW s \in Slots, s \notin Provenance[n] PROVE buffers'[n][s] = {}
    <3>1. CASE n = Top.node
      <4>1. buffers'[n] = input_scratch
        BY <2>1, <2>2, <3>1 DEF TypeOK
      <4> QED BY <2>2, <2>6, <3>1, <4>1 DEF NoStrays
    <3>2. CASE n # Top.node
      BY <2>1, <2>2, <2>6, <3>2 DEF TypeOK, NoStrays
    <3> QED BY <3>1, <3>2
  <2> QED BY <2>1, <2>3, <2>5, <2>6 DEF ScanTypeOK, NoStrays
<1>12. CASE EvalPanics
  <2>1. /\ stack' = <<>>
        /\ UNCHANGED <<cellVars, inputs, shared_cells, node_clean, buffers, last_seen, scan,
                       input_scratch, answer, due>>
    BY <1>12 DEF EvalPanics
  <2>2. TypeOK'
    BY <1>0, <2>1 DEF TypeOK
  <2>3. ~Gathering' /\ ~Checking' /\ Height' = 0
    BY <2>1 DEF Gathering, Checking, Height
  <2> QED BY <2>1, <2>2, <2>3 DEF ScanTypeOK, StackInv, NoStrays
<1>13. ASSUME NEW w \in Writers, StartPublish(w) \/ FinishPublish(w) PROVE UNCHANGED kernelVars
  BY <1>13 DEF StartPublish, FinishPublish
<1>14. UNCHANGED vars => UNCHANGED kernelVars
  BY DEF vars
<1> QED BY <1>1, <1>2, <1>3, <1>4, <1>5, <1>6, <1>7, <1>8, <1>9, <1>10, <1>11, <1>12, <1>13, <1>14
        DEF Next, WalkStep

\* The kernel's state stays well typed, and the walk well formed, whatever
\* other fibers publish inside a read.
LEMMA Walked == Spec => [](CellTypeOK /\ WalkInv)
<1>1. Spec => []CellTypeOK
  BY KernelKeepsProtocol, TypeCorrect, PTL
<1>2. CellTypeOK' /\ BindInv /\ BindInv' /\ WalkInv /\ [Next]_vars => WalkInv'
  BY WalkNext
<1> QED BY <1>1, <1>2, WalkInit, Bound, PTL DEF Spec

\* The type invariant of the kernel holds throughout (`EngineCore`,
\* `PolydatState`): for every program, panics and attachments included.
THEOREM KernelTypeCorrect == Spec => []TypeOK
<1>1. WalkInv => TypeOK
  BY DEF WalkInv
<1> QED BY <1>1, Walked, PTL

\* The steps of a read that compute nothing and return nothing.
PlainStep == Visit \/ LoadIntent \/ LoadRevision \/ Descend \/ BeginGather \/ EvalPanics
SearchStep == PlainStep \/ CheckMoved \/ \E out \in Outputs : BeginPull(out)

LEMMA SearchSteps ==
    ASSUME TypeOK, StackInv, SearchStep
    PROVE  /\ UNCHANGED <<cellVars, inputs, shared_cells, buffers>>
           /\ node_clean' \subseteq node_clean /\ AllVisited' \subseteq AllVisited
           /\ answer' = answer \/ answer' = NoAnswer
           /\ Gathering' => input_scratch' = Blank /\ \A s : ~Brought(s)'
<1>1. CASE Visit
  <2>1. /\ UNCHANGED <<cellVars, inputs, shared_cells, buffers, node_clean, answer>>
        /\ stack # <<>>
    BY <1>1 DEF Visit
  <2>2. PICK st \in {"check", "upstream"} : Goto(st, 1)
    BY <1>1 DEF Visit
  <2>3. st \in Stages /\ 1 \in Nat /\ 1 >= 1
    BY <2>2 DEF Stages
  <2>4. /\ Top' = [node |-> Top.node, stage |-> st, next |-> 1]
        /\ AllVisited' \subseteq AllVisited
    BY <2>1, <2>2, <2>3, GotoStack, GotoVisited
  <2>5. ~Gathering'
    BY <2>2, <2>4 DEF Gathering
  <2> QED BY <2>1, <2>4, <2>5
<1>2. CASE LoadIntent \/ LoadRevision
  <2>1. /\ UNCHANGED <<cellVars, inputs, shared_cells, buffers, node_clean, answer, stack>>
        /\ Top.stage = "check"
    BY <1>2 DEF LoadIntent, LoadRevision
  <2>2. AllVisited' = AllVisited
    BY <2>1 DEF AllVisited, Visited, Passed, Read, Height
  <2>3. ~Gathering'
    BY <2>1 DEF Gathering, Top
  <2> QED BY <2>1, <2>2, <2>3
<1>3. CASE CheckMoved
  <2>1. /\ UNCHANGED <<cellVars, inputs, shared_cells, buffers, answer>>
        /\ stack # <<>> /\ Goto("upstream", 1) /\ node_clean' \subseteq node_clean
    BY <1>3 DEF CheckMoved, CheckDone, Invalidate
  <2>2. "upstream" \in Stages /\ 1 \in Nat /\ 1 >= 1
    BY DEF Stages
  <2>3. /\ Top' = [node |-> Top.node, stage |-> "upstream", next |-> 1]
        /\ AllVisited' \subseteq AllVisited
    BY <2>1, <2>2, GotoStack, GotoVisited
  <2>4. ~Gathering'
    BY <2>3 DEF Gathering
  <2> QED BY <2>1, <2>3, <2>4
<1>4. CASE Descend
  <2>1. /\ UNCHANGED <<cellVars, inputs, shared_cells, buffers, node_clean, answer>>
        /\ stack # <<>> /\ Top.stage = "upstream"
    BY <1>4 DEF Descend
  <2>2. PICK i \in Ahead :
          /\ \A j \in Ahead : i <= j
          /\ stack' = <<Frame(Wiring[Top.node][i], "visit", 1), Frame(Top.node, "upstream", i + 1)>>
                        \o Tail(stack)
    BY <1>4 DEF Descend
  <2>3. AllVisited' \subseteq AllVisited /\ ~Gathering'
    BY <2>1, <2>2, PushStack
  <2> QED BY <2>1, <2>3
<1>5. CASE BeginGather
  <2>1. /\ UNCHANGED <<cellVars, inputs, shared_cells, buffers, node_clean, answer>>
        /\ stack # <<>> /\ Top.stage = "upstream" /\ Ahead = {} /\ Goto("gather", 1)
        /\ input_scratch' = Blank
    BY <1>5 DEF BeginGather
  <2>2. "gather" \in Stages /\ 1 \in Nat /\ 1 >= 1
    BY DEF Stages
  <2>3. /\ Top' = [node |-> Top.node, stage |-> "gather", next |-> 1]
        /\ AllVisited' \subseteq AllVisited
    BY <2>1, <2>2, GotoStack, GotoVisited
  <2>4. DOMAIN Wiring[Top.node] = 1 .. Len(Wiring[Top.node])
    BY <2>1, TopFrame, Wired
  <2>5. \A i \in DOMAIN Wiring[Top.node] : ~(i < 1)
    BY <2>4
  <2>6. \A s : ~Brought(s)'
    BY <2>3, <2>5 DEF Brought
  <2> QED BY <2>1, <2>3, <2>6
<1>6. CASE EvalPanics
  <2>1. UNCHANGED <<cellVars, inputs, shared_cells, buffers, node_clean, answer>> /\ stack' = <<>>
    BY <1>6 DEF EvalPanics
  <2>2. ~Gathering' /\ AllVisited' = {}
    BY <2>1 DEF Gathering, AllVisited, Height
  <2> QED BY <2>1, <2>2
<1>7. ASSUME NEW out \in Outputs, BeginPull(out)
      PROVE  /\ UNCHANGED <<cellVars, inputs, shared_cells, buffers>>
             /\ node_clean' \subseteq node_clean /\ AllVisited' = {}
             /\ answer' = NoAnswer /\ ~Gathering'
  <2>1. /\ UNCHANGED <<cellVars, inputs, shared_cells, buffers>>
        /\ node_clean' \subseteq node_clean /\ answer' = NoAnswer
        /\ stack' = <<[node |-> out, stage |-> "visit", next |-> 1]>>
    BY <1>7 DEF BeginPull, Frame
  <2>2. Height' = 1 /\ stack'[1].stage = "visit" /\ Top'.stage = "visit"
    BY <2>1 DEF Height, Top
  <2>3. Visited(1)' = {}
    BY <2>2 DEF Visited, Passed
  <2>4. AllVisited' = {}
    BY <2>2, <2>3 DEF AllVisited
  <2> QED BY <2>1, <2>2, <2>4 DEF Gathering
<1> QED BY <1>1, <1>2, <1>3, <1>4, <1>5, <1>6, <1>7 DEF SearchStep, PlainStep

\* The steps of a read that hand a buffer back: a memoization hit, or an evaluation.
LEMMA ReturnSteps ==
    ASSUME WalkInv, CheckClean \/ Evaluate
    PROVE  /\ UNCHANGED <<cellVars, inputs, shared_cells, last_seen, due, input_scratch>>
           /\ Top.node \in Nodes /\ ~Gathering' /\ ~Checking'
           /\ AllVisited' \subseteq AllVisited \cup {Top.node}
           /\ node_clean' \subseteq node_clean \cup {Top.node}
           /\ answer' = answer \/ answer' = [node |-> Top.node, got |-> buffers'[Top.node]]
           /\ \A n \in Nodes : n # Top.node => buffers'[n] = buffers[n]
           /\ CheckClean => UNCHANGED buffers /\ Top.node \in node_clean /\ Checking
           /\ Evaluate => /\ GatherDone /\ Gathering /\ buffers'[Top.node] = input_scratch
                          /\ \A s : Brought(s) <=> s \in Provenance[Top.node]
<1> USE DEF WalkInv
<1>1. stack # <<>> /\ stack' = Tail(stack)
  BY DEF CheckClean, CheckDone, Evaluate, GatherDone, Return
<1>2. Top.node \in Nodes /\ ~Gathering' /\ ~Checking' /\ AllVisited' \subseteq AllVisited \cup {Top.node}
  BY <1>1, TopFrame, PopStack
<1>3. CASE CheckClean
  <2>1. /\ UNCHANGED <<cellVars, inputs, shared_cells, last_seen, due, input_scratch, node_clean, buffers>>
        /\ answer' = answer \/ answer' = [node |-> Top.node, got |-> buffers[Top.node]]
        /\ Top.stage = "check"
    BY <1>3 DEF CheckClean, CheckDone, Return
  <2>2. Checking /\ Top.node \in node_clean /\ ~Evaluate
    BY <1>1, <2>1 DEF Checking, ScanTypeOK, Evaluate, GatherDone
  <2> QED BY <1>2, <2>1, <2>2
<1>4. CASE Evaluate
  <2>1. /\ UNCHANGED <<cellVars, inputs, shared_cells, last_seen, due, input_scratch>>
        /\ node_clean' = node_clean \cup {Top.node}
        /\ answer' = answer \/ answer' = [node |-> Top.node, got |-> input_scratch]
        /\ buffers' = [buffers EXCEPT ![Top.node] = input_scratch]
        /\ GatherDone
    BY <1>4 DEF Evaluate, Return
  <2>2. /\ buffers'[Top.node] = input_scratch
        /\ \A n \in Nodes : n # Top.node => buffers'[n] = buffers[n]
    BY <1>2, <2>1 DEF TypeOK
  <2>3. Gathering /\ \A s : Brought(s) <=> s \in Provenance[Top.node]
    BY <2>1, AllBrought
  <2>4. ~CheckClean
    BY <2>1 DEF CheckClean, CheckDone, GatherDone
  <2> QED BY <1>2, <2>1, <2>2, <2>3, <2>4
<1> QED BY <1>3, <1>4

\* Every step is one of these.
LEMMA StepCases ==
    ASSUME [Next]_vars
    PROVE  \/ UNCHANGED kernelVars
           \/ HostCall
           \/ SearchStep
           \/ Gather
           \/ CheckClean \/ Evaluate
BY DEF Next, WalkStep, SearchStep, PlainStep, StartPublish, FinishPublish, vars

\* No read in progress, nothing visited and nothing gathered.
LEMMA IdleWalk ==
    ASSUME stack = <<>> PROVE AllVisited = {} /\ ~Gathering /\ ~Checking
<1>1. Height = 0
  BY DEF Height
<1> QED BY <1>1 DEF AllVisited, Gathering, Checking

\* The nodes the walk and the answer are about.
LEMMA VisitedNodes ==
    ASSUME TypeOK
    PROVE  AllVisited \subseteq Nodes /\ (Answered => answer.node \in Nodes)
<1>1. \A k \in 1 .. Height : Visited(k) \subseteq Nodes
  BY DEF Visited
<1> QED BY <1>1 DEF AllVisited, Answered, TypeOK

-----------------------------------------------------------------------------
(* Local writes. *)

LEMMA LocalInit == Init => LocalInv
<1> SUFFICES ASSUME Init PROVE LocalInv
  OBVIOUS
<1>1. AllVisited = {} /\ ~Gathering
  BY IdleWalk DEF Init, KernelInit
<1>2. ~Answered
  BY DEF Init, KernelInit, Answered
<1> QED BY <1>1, <1>2 DEF LocalInv, ReadsSeeLocalWrites, Init, KernelInit

LEMMA LocalNext ==
    ASSUME WalkInv, LocalInv, [Next]_vars
    PROVE  LocalInv'
<1> USE DEF WalkInv
<1>0. node_clean \subseteq Nodes /\ AllVisited \subseteq Nodes
  BY VisitedNodes DEF TypeOK
<1>1. CASE UNCHANGED kernelVars
  BY <1>1 DEF kernelVars, LocalInv, LocalRight, AllVisited, Visited, Passed, Read, Height,
     Gathering, Brought, Top, ReadsSeeLocalWrites, Answered
<1>2. CASE HostCall
  <2>1. /\ stack' = <<>> /\ UNCHANGED buffers
        /\ node_clean' \subseteq node_clean /\ answer' = NoAnswer
        /\ \A n \in node_clean', s \in Slots : s \in Provenance[n] =>
             shared_cells'[s] = shared_cells[s] /\ inputs'[s] = inputs[s]
    BY <1>2, HostSteps
  <2>2. AllVisited' = {} /\ ~Gathering' /\ ~Answered'
    BY <2>1, IdleWalk DEF Answered, AllVisited, Gathering, Height
  <2>3. ASSUME NEW n \in node_clean' PROVE LocalRight(n)'
    <3>1. LocalRight(n) /\ Provenance[n] \subseteq Slots
      BY <1>0, <2>1, ProvenanceSlots DEF LocalInv
    <3> QED BY <2>1, <3>1 DEF LocalRight
  <2> QED BY <2>2, <2>3 DEF LocalInv, ReadsSeeLocalWrites
<1>3. CASE SearchStep
  <2>1. /\ UNCHANGED <<inputs, shared_cells, buffers>>
        /\ node_clean' \subseteq node_clean /\ AllVisited' \subseteq AllVisited
        /\ answer' = answer \/ answer' = NoAnswer
        /\ Gathering' => input_scratch' = Blank /\ \A s : ~Brought(s)'
    BY <1>3, SearchSteps
  <2>2. \A n : LocalRight(n) => LocalRight(n)'
    BY <2>1 DEF LocalRight
  <2>3. ReadsSeeLocalWrites'
    BY <2>1 DEF LocalInv, ReadsSeeLocalWrites, Answered
  <2> QED BY <2>1, <2>2, <2>3 DEF LocalInv
<1>4. CASE Gather
  <2> DEFINE src == Wiring[Top.node][Top.next]
  <2>1. /\ Gathering
        /\ src \in Slots \/ (src \notin Slots /\ src \in Nodes /\ src \in AllVisited)
        /\ \A s : Brought(s)' <=> Brought(s) \/ s \in Carried(src)
        /\ AllVisited' \subseteq AllVisited
        /\ UNCHANGED <<inputs, shared_cells, node_clean, buffers, answer>>
    BY <1>4, GatherSource
  <2>2. \A n : LocalRight(n) => LocalRight(n)'
    BY <2>1 DEF LocalRight
  <2>3. ReadsSeeLocalWrites'
    BY <2>1 DEF LocalInv, ReadsSeeLocalWrites, Answered
  <2>4. ASSUME NEW s \in Slots, shared_cells[s] = NoCell, Brought(s)'
        PROVE  input_scratch'[s] = {inputs[s]}
    <3>1. Brought(s) => input_scratch[s] = {inputs[s]}
      BY <2>1, <2>4 DEF LocalInv
    <3>2. ~Brought(s) => input_scratch[s] = {}
      BY <2>1 DEF NoStrays
    <3>3. CASE src \in Slots
      <4>1. input_scratch' = [input_scratch EXCEPT ![src] = @ \cup {ReadInput(src)}]
        BY <1>4, <3>3, GatherSource
      <4>2. Brought(s) \/ s = src
        BY <2>1, <2>4, <3>3 DEF Carried
      <4>3. s # src => input_scratch'[s] = input_scratch[s]
        BY <3>3, <4>1 DEF TypeOK
      <4>4. s = src => input_scratch'[s] = input_scratch[s] \cup {inputs[s]}
        BY <2>4, <3>3, <4>1 DEF TypeOK, ReadInput
      <4> QED BY <3>1, <3>2, <4>2, <4>3, <4>4
    <3>4. CASE src \notin Slots
      <4>1. input_scratch'[s] = input_scratch[s] \cup buffers[src][s]
        BY <1>4, <3>4, GatherSource
      <4>2. s \in Provenance[src] => buffers[src][s] = {inputs[s]}
        BY <2>1, <2>4, <3>4 DEF LocalInv, LocalRight
      <4>3. s \notin Provenance[src] => buffers[src][s] = {}
        BY <2>1, <3>4 DEF NoStrays
      <4>4. Brought(s) \/ s \in Provenance[src]
        BY <2>1, <2>4, <3>4 DEF Carried
      <4> QED BY <3>1, <3>2, <4>1, <4>2, <4>3, <4>4
    <3> QED BY <3>3, <3>4
  <2> QED BY <2>1, <2>2, <2>3, <2>4 DEF LocalInv
<1>5. CASE CheckClean \/ Evaluate
  <2>1. /\ UNCHANGED <<inputs, shared_cells>> /\ Top.node \in Nodes /\ ~Gathering'
        /\ AllVisited' \subseteq AllVisited \cup {Top.node}
        /\ node_clean' \subseteq node_clean \cup {Top.node}
        /\ answer' = answer \/ answer' = [node |-> Top.node, got |-> buffers'[Top.node]]
        /\ \A n \in Nodes : n # Top.node => buffers'[n] = buffers[n]
    BY <1>5, ReturnSteps
  <2>2. ASSUME NEW top, top = Top.node PROVE LocalRight(top)'
    <3>1. CASE CheckClean
      <4>1. UNCHANGED buffers /\ top \in node_clean
        BY <2>2, <3>1, ReturnSteps
      <4> QED BY <2>1, <4>1 DEF LocalInv, LocalRight
    <3>2. CASE Evaluate
      <4>1. /\ Gathering /\ buffers'[top] = input_scratch
            /\ \A s : Brought(s) <=> s \in Provenance[top]
        BY <2>2, <3>2, ReturnSteps
      <4>2. Provenance[top] \subseteq Slots
        BY <2>1, <2>2, ProvenanceSlots
      <4>3. \A s \in Provenance[top] : shared_cells[s] = NoCell => input_scratch[s] = {inputs[s]}
        BY <4>1, <4>2 DEF LocalInv
      <4> QED BY <2>1, <4>1, <4>3 DEF LocalRight
    <3> QED BY <1>5, <3>1, <3>2
  <2>3. ASSUME NEW n \in Nodes, n # Top.node, LocalRight(n) PROVE LocalRight(n)'
    BY <2>1, <2>3 DEF LocalRight
  <2>4. ASSUME NEW n \in node_clean' \cup AllVisited' PROVE LocalRight(n)'
    <3>1. CASE n = Top.node
      BY <2>2, <3>1
    <3>2. CASE n # Top.node
      BY <1>0, <2>1, <2>3, <3>2 DEF LocalInv
    <3> QED BY <3>1, <3>2
  <2>5. ReadsSeeLocalWrites'
    <3>1. CASE answer' = answer
      BY <2>1, <3>1 DEF LocalInv, ReadsSeeLocalWrites, Answered
    <3>2. CASE answer' = [node |-> Top.node, got |-> buffers'[Top.node]]
      <4>2. PICK top : top = Top.node
        OBVIOUS
      <4>3. LocalRight(top)' /\ answer'.node = top /\ answer'.got = buffers'[top]
        BY <2>2, <3>2, <4>2
      <4> QED BY <4>3 DEF LocalRight, ReadsSeeLocalWrites
    <3> QED BY <2>1, <3>1, <3>2
  <2> QED BY <2>1, <2>4, <2>5 DEF LocalInv
<1> QED BY <1>1, <1>2, <1>3, <1>4, <1>5, StepCases

\* A read is computed from the host's latest writes to the local slots that reach
\* the node, for every program and every interleaving of writes, resets,
\* attachments, panics and other fibers' publishes.
THEOREM LocalWritesAreRead == Spec => []ReadsSeeLocalWrites
<1>1. WalkInv /\ LocalInv /\ [Next]_vars => LocalInv'
  BY LocalNext
<1>2. LocalInv => ReadsSeeLocalWrites
  BY DEF LocalInv
<1> QED BY <1>1, <1>2, LocalInit, Walked, PTL DEF Spec

-----------------------------------------------------------------------------
(* Cell writes. *)

\* A step of the cells moves the counters forward, and leaves what a kernel can
\* find out to be stale as easy to find out.
LEMMA CellsMove ==
    ASSUME CellTypeOK, CellTypeOK', CountersInv, [CellNext]_cellVars, UNCHANGED <<last_seen, due>>,
           last_seen \in [Cells -> Nat], due \in [Cells -> Nat]
    PROVE  /\ CountersInv'
           /\ \A c \in Cells : revision'[c] >= revision[c]
           /\ \A c \in Cells, v \in Nat : Sound(c, v) => Sound(c, v)'
<1> USE DEF CellTypeOK, CountersInv
<1>1. ASSUME NEW w \in Writers, NEW d \in Cells, Store(w, d)
      PROVE  /\ CountersInv'
             /\ \A c \in Cells : revision'[c] >= revision[c]
             /\ \A c \in Cells, v \in Nat : Sound(c, v) => Sound(c, v)'
  <2>1. /\ UNCHANGED <<revision, completed>> /\ value' = [value EXCEPT ![d] = @ + 1]
        /\ publishing[w] = Idle
        /\ publishing' = [publishing EXCEPT ![w] =
             [stage |-> "stored", cell |-> d, stamp |-> value[d] + 1]]
    BY <1>1 DEF Store, InPublish
  <2>2. \A c \in Cells : value'[c] >= value[c] /\ value'[c] \in Nat /\ value[c] \in Nat
    BY <2>1
  <2>3. value'[d] = value[d] + 1
    BY <2>1
  <2>4. \A x \in Writers : x # w => publishing'[x] = publishing[x]
    BY <2>1
  <2>5. publishing'[w] = [stage |-> "stored", cell |-> d, stamp |-> value[d] + 1]
    BY <2>1
  <2>6. CountersInv'
    <3>1. \A c \in Cells : completed'[c] <= value'[c] /\ due'[c] <= completed'[c]
                           /\ last_seen'[c] <= revision'[c]
      BY <2>1, <2>2
    <3>2. ASSUME NEW x \in Writers, publishing'[x].stage \in {"stored", "bumped"}
          PROVE  publishing'[x].stamp <= value'[publishing'[x].cell]
      <4>1. CASE x = w
        BY <2>3, <2>5, <4>1, <2>2
      <4>2. CASE x # w
        <5>1. publishing[x] \in [stage : {"stored", "bumped"}, cell : Cells, stamp : Nat]
          BY <2>4, <3>2, <4>2, InPublishType
        <5>2. publishing[x].stamp <= value[publishing[x].cell]
          BY <2>4, <3>2, <4>2
        <5> QED BY <2>2, <2>4, <4>2, <5>1, <5>2
      <4> QED BY <4>1, <4>2
    <3> QED BY <3>1, <3>2
  <2>7. ASSUME NEW c \in Cells, NEW v \in Nat, Sound(c, v) PROVE Sound(c, v)'
    <3>1. Superseded(c, v)' => Superseded(c, v)
      BY <2>1, <2>4, <2>5 DEF Superseded
    <3> QED BY <2>1, <2>2, <2>7, <3>1 DEF Sound
  <2> QED BY <2>1, <2>6, <2>7
<1>2. ASSUME NEW w \in Writers, Bump(w)
      PROVE  /\ CountersInv'
             /\ \A c \in Cells : revision'[c] >= revision[c]
             /\ \A c \in Cells, v \in Nat : Sound(c, v) => Sound(c, v)'
  <2> DEFINE d == publishing[w].cell
  <2>1. /\ UNCHANGED <<value, completed>> /\ publishing[w].stage = "stored"
        /\ revision' = [revision EXCEPT ![d] = @ + 1]
        /\ publishing' = [publishing EXCEPT ![w].stage = "bumped"]
    BY <1>2 DEF Bump
  <2>2. d \in Cells /\ publishing[w] \in [stage : {"stored", "bumped"}, cell : Cells, stamp : Nat]
    BY <2>1, InPublishType
  <2>3. \A c \in Cells : /\ revision'[c] >= revision[c]
                         /\ revision'[c] \in Nat /\ revision[c] \in Nat
    BY <2>1, <2>2
  <2>4. revision'[d] = revision[d] + 1
    BY <2>1, <2>2
  <2>5. \A x \in Writers : x # w => publishing'[x] = publishing[x]
    BY <2>1
  <2>6. publishing'[w].cell = d /\ publishing'[w].stamp = publishing[w].stamp
    BY <2>1
  <2>7. CountersInv'
    <3>1. \A c \in Cells : completed'[c] <= value'[c] /\ due'[c] <= completed'[c]
                           /\ last_seen'[c] <= revision'[c]
      BY <2>1, <2>3
    <3>2. publishing[w].stamp <= value[d]
      BY <2>1
    <3>3. ASSUME NEW x \in Writers, publishing'[x].stage \in {"stored", "bumped"}
          PROVE  publishing'[x].stamp <= value'[publishing'[x].cell]
      <4>1. CASE x = w
        BY <2>1, <2>6, <3>2, <4>1
      <4>2. CASE x # w
        BY <2>1, <2>5, <3>3, <4>2
      <4> QED BY <4>1, <4>2
    <3> QED BY <3>1, <3>3
  <2>8. ASSUME NEW c \in Cells, NEW v \in Nat, Sound(c, v) PROVE Sound(c, v)'
    <3>1. CASE c = d
      <4>1. last_seen'[c] < revision'[c]
        BY <2>2, <2>3, <2>4, <3>1
      <4> QED BY <2>1, <2>8, <4>1 DEF Sound
    <3>2. CASE c # d
      <4>1. Superseded(c, v)' => Superseded(c, v)
        BY <2>1, <2>5, <2>6, <3>2 DEF Superseded
      <4>2. revision'[c] = revision[c]
        BY <2>1, <2>2, <3>2
      <4> QED BY <2>1, <2>8, <4>1, <4>2 DEF Sound
    <3> QED BY <3>1, <3>2
  <2> QED BY <2>3, <2>7, <2>8
<1>3. ASSUME NEW w \in Writers, Mark(w)
      PROVE  /\ CountersInv'
             /\ \A c \in Cells : revision'[c] >= revision[c]
             /\ \A c \in Cells, v \in Nat : Sound(c, v) => Sound(c, v)'
  <2> DEFINE d == publishing[w].cell
  <2>1. /\ UNCHANGED <<value, revision>> /\ publishing[w].stage = "bumped"
        /\ publishing' = [publishing EXCEPT ![w] = Idle]
        /\ completed' = [completed EXCEPT ![d] =
             IF publishing[w].stamp > @ THEN publishing[w].stamp ELSE @]
    BY <1>3 DEF Mark
  <2>2. /\ d \in Cells /\ publishing[w].stamp \in Nat
        /\ publishing[w].stamp <= value[d]
    BY <2>1, InPublishType
  <2>3. /\ completed'[d] = IF publishing[w].stamp > completed[d] THEN publishing[w].stamp
                                                                   ELSE completed[d]
        /\ \A c \in Cells : c # d => completed'[c] = completed[c]
    BY <2>1, <2>2
  <2>4. \A x \in Writers : /\ x # w => publishing'[x] = publishing[x]
                           /\ x = w => publishing'[x].stage = "idle"
    BY <2>1 DEF Idle
  <2>5. \A c \in Cells : /\ completed'[c] <= value[c] /\ completed'[c] >= completed[c]
                         /\ completed[c] \in Nat /\ completed'[c] \in Nat
    BY <2>2, <2>3
  <2>6. CountersInv'
    <3>1. \A c \in Cells : completed'[c] <= value'[c] /\ due'[c] <= completed'[c]
                           /\ last_seen'[c] <= revision'[c]
      <4>1. \A c \in Cells : due[c] <= completed[c] /\ last_seen[c] <= revision[c]
        OBVIOUS
      <4>2. \A c \in Cells : due[c] <= completed'[c]
        <5> SUFFICES ASSUME NEW c \in Cells PROVE due[c] <= completed'[c]
          OBVIOUS
        <5>1. due[c] \in Nat /\ due[c] <= completed[c] /\ completed'[c] >= completed[c]
              /\ completed[c] \in Nat /\ completed'[c] \in Nat
          BY <2>5, <4>1
        <5> QED BY <5>1
      <4> QED BY <2>1, <2>5, <4>1, <4>2
    <3>2. \A x \in Writers : publishing'[x].stage \in {"stored", "bumped"} =>
                               publishing'[x].stamp <= value'[publishing'[x].cell]
      BY <2>1, <2>4
    <3> QED BY <3>1, <3>2
  <2>7. ASSUME NEW c \in Cells, NEW v \in Nat, Sound(c, v) PROVE Sound(c, v)'
    <3>1. ASSUME completed'[c] > v PROVE Superseded(c, v)
      <4>1. CASE c = d
        BY <2>1, <2>2, <2>3, <3>1, <4>1 DEF Superseded
      <4>2. CASE c # d
        BY <2>3, <3>1, <4>2 DEF Superseded
      <4> QED BY <4>1, <4>2
    <3>2. Superseded(c, v)' => Superseded(c, v)
      BY <2>4, <3>1 DEF Superseded
    <3> QED BY <2>1, <2>7, <3>2 DEF Sound
  <2> QED BY <2>1, <2>6, <2>7
<1>4. CASE UNCHANGED cellVars
  BY <1>4 DEF cellVars, Sound, Superseded
<1> QED BY <1>1, <1>2, <1>3, <1>4 DEF CellNext, Publish

\* A value read from the cell now is superseded by nothing.
LEMMA NewestIsSound ==
    ASSUME CellTypeOK, CountersInv, due \in [Cells -> Nat], NEW c \in Cells
    PROVE  Sound(c, value[c]) /\ value[c] >= due[c]
<1>1. value[c] \in Nat /\ completed[c] \in Nat /\ completed[c] <= value[c] /\ due[c] <= completed[c]
  BY DEF CellTypeOK, CountersInv
<1>2. ~Superseded(c, value[c])
  <2> SUFFICES ASSUME Superseded(c, value[c]) PROVE FALSE
    OBVIOUS
  <2>1. PICK w \in Writers : /\ publishing[w].stage = "bumped"
                             /\ publishing[w].cell = c /\ publishing[w].stamp > value[c]
    BY <1>1 DEF Superseded
  <2>2. publishing[w].stamp \in Nat /\ publishing[w].stamp <= value[c]
    BY <2>1, InPublishType DEF CountersInv
  <2> QED BY <1>1, <2>1, <2>2
<1>3. value[c] >= due[c]
  <2>1. due[c] \in Nat
    OBVIOUS
  <2> QED BY <1>1, <2>1
<1> QED BY <1>1, <1>2, <1>3 DEF Sound

\* What the frames under the top one have been through depends on no cell the
\* top node depends on.
LEMMA VisitedApart ==
    ASSUME WalkInv, OnePath, stack # <<>>, NEW n \in Beneath,
           NEW s \in Provenance[n], NEW c \in Cells, MayBind(s, c)
    PROVE  s \notin Provenance[Top.node]
<1> USE DEF WalkInv
<1> SUFFICES ASSUME s \in Provenance[Top.node] PROVE FALSE
  OBVIOUS
<1>1. PICK k \in 2 .. Height : n \in Visited(k)
  BY DEF Beneath
<1>2. /\ Height \in Nat /\ Top = stack[1] /\ k \in 1 .. Height /\ k - 1 \in 1 .. Height
      /\ k # 1 /\ 1 \in 1 .. (k - 1)
  BY TopFrame
<1>3. stack[k].node \in Nodes /\ stack[k - 1].node \in Nodes /\ stack[k].next \in Nat
  BY <1>2, FrameType
<1> DEFINE W == Wiring[stack[k].node]
           j == stack[k].next - 1
<1>4. /\ stack[k].stage = "upstream" /\ j \in DOMAIN W /\ W[j] = stack[k - 1].node
      /\ Provenance[Top.node] \subseteq Provenance[W[j]]
  BY <1>2 DEF StackInv, Child, Read
<1>5. PICK i \in DOMAIN W : n = W[i] /\ n \in Nodes /\ i < j
  BY <1>1, <1>2, <1>4 DEF Visited, Passed, Read
<1>6. s \in Carried(W[i]) /\ s \in Carried(W[j])
  BY <1>3, <1>4, <1>5, SlotsAssumption DEF Carried
<1>7. i = j
  BY <1>3, <1>4, <1>5, <1>6 DEF OnePath
<1> QED BY <1>3, <1>5, <1>7

\* The standing of values under a step that consumes no revision.
LEMMA StandingKept ==
    ASSUME TypeOK, BindInv, CellTypeOK', CountersInv, [CellNext]_cellVars,
           UNCHANGED <<last_seen, due>>,
           NEW s \in Slots, NEW values \in SUBSET Nat, shared_cells'[s] = shared_cells[s]
    PROVE  /\ Detectable(s, values) => Detectable(s, values)'
           /\ Fresh(s, values) => Fresh(s, values)'
<1>1. \A c \in Cells, v \in Nat : Sound(c, v) => Sound(c, v)'
  BY CellsMove DEF TypeOK
<1>2. shared_cells[s] # NoCell => shared_cells[s] \in Cells
  BY DEF BindInv
<1>3. ASSUME Detectable(s, values) PROVE Detectable(s, values)'
  <2> SUFFICES ASSUME shared_cells'[s] # NoCell, NEW v \in values
               PROVE  Sound(shared_cells[s], v)'
    BY DEF Detectable, Sound, Superseded
  <2> DEFINE c == shared_cells[s]
  <2>1. PICK d \in Cells : d = shared_cells[s]
    BY <1>2
  <2>2. Sound(d, v) /\ v \in Nat
    BY <1>3, <2>1 DEF Detectable
  <2>3. Sound(d, v)'
    BY <1>1, <2>2
  <2> QED BY <2>1, <2>3 DEF Sound, Superseded
<1>4. Fresh(s, values) => Fresh(s, values)'
  BY DEF Fresh
<1> QED BY <1>3, <1>4

\* A plain step consumes no revision and forgets no node.
LEMMA PlainSteps ==
    ASSUME PlainStep PROVE UNCHANGED <<last_seen, due, answer, node_clean>>
BY DEF PlainStep, Visit, LoadIntent, LoadRevision, Descend, BeginGather, EvalPanics

\* A value that no counted store has superseded is as new as any read must return.
LEMMA SettledIsFresh ==
    ASSUME TypeOK, CountersInv, NEW c \in Cells, NEW v \in Nat, Sound(c, v), last_seen[c] = revision[c]
    PROVE  v >= due[c]
<1>1. ~(completed[c] > v)
  BY DEF Sound, Superseded, TypeOK, CellTypeOK
<1> QED BY <1>1 DEF TypeOK, CellTypeOK, CountersInv

\* The check of a node's cells leaves unlooked at only what is fresh.
LEMMA ScanNext ==
    ASSUME TypeOK, ScanTypeOK, StackInv, BindInv, CountersInv, ScanInv, CompletedIsAdvertised,
           \A n \in node_clean : \A s \in Provenance[n] : Detectable(s, buffers[n][s]),
           Visit \/ LoadIntent \/ LoadRevision
    PROVE  ScanInv'
<1>0. stack # <<>> /\ Top.node \in Nodes
  BY TopFrame DEF Visit, LoadIntent, LoadRevision
<1>1. CASE Visit
  <2>1. UNCHANGED <<cellVars, shared_cells, buffers, due>>
    BY <1>1 DEF Visit
  <2>2. PICK st \in {"check", "upstream"} :
          /\ Goto(st, 1)
          /\ st = "check" => scan' = [words |-> ConeWords(Top.node), pending |-> {}, moved |-> {}]
    BY <1>1 DEF Visit
  <2>3. st \in Stages /\ 1 \in Nat /\ 1 >= 1
    BY <2>2 DEF Stages
  <2>4. Top' = [node |-> Top.node, stage |-> st, next |-> 1]
    BY <1>0, <2>2, <2>3, GotoStack
  <2>5. Checking' => st = "check" /\ Top'.node = Top.node
    BY <2>2, <2>4 DEF Checking
  <2>7. \A s \in CellSlots(Top.node) : Word[shared_cells[s]] \in ConeWords(Top.node)
    BY DEF ConeWords
  <2>8. Checking' => /\ scan'.moved = {} /\ scan'.words = ConeWords(Top.node)
    BY <2>2, <2>5
  <2>9. Top'.node = Top.node
    BY <2>4
  <2>10. CellSlots(Top.node)' = CellSlots(Top.node)
    BY <2>1, <2>9 DEF CellSlots
  <2>11. Checking' => \A s \in CellSlots(Top.node)' : Word[shared_cells'[s]] \in scan'.words
    BY <2>1, <2>7, <2>8, <2>10
  <2> QED BY <2>8, <2>11 DEF ScanInv
<1>2. CASE LoadIntent
  <2>1. /\ UNCHANGED <<cellVars, shared_cells, node_clean, buffers, last_seen, stack, due>>
        /\ Checking
    BY <1>2 DEF LoadIntent, Checking
  <2>2. PICK w \in scan.words :
          scan' = [scan EXCEPT
           !.words = @ \ {w},
           !.pending = {s \in CellSlots(Top.node) :
                          Word[shared_cells[s]] = w /\ shared_cells[s] \in intent}]
    BY <1>2 DEF LoadIntent
  <2>3. /\ scan'.words = scan.words \ {w} /\ scan'.moved = scan.moved
        /\ scan'.pending = {s \in CellSlots(Top.node) :
                              Word[shared_cells[s]] = w /\ shared_cells[s] \in intent}
    BY <2>2 DEF ScanTypeOK
  <2>4. scan.pending = {}
    BY <1>2 DEF LoadIntent
  <2>5. ASSUME NEW s \in CellSlots(Top.node)
        PROVE  \/ Word[shared_cells[s]] \in scan'.words
               \/ s \in scan'.pending
               \/ \E m \in scan'.moved : m[1] = s
               \/ Fresh(s, buffers[Top.node][s])
    <3>1. CASE Word[shared_cells[s]] = w /\ shared_cells[s] \notin intent
      <4>1. s \in Slots /\ shared_cells[s] \in Cells
        BY <1>0, ProvenanceSlots DEF CellSlots, BindInv
      <4>2. completed[shared_cells[s]] = 0
        BY <3>1, <4>1 DEF CompletedIsAdvertised, TypeOK, CellTypeOK
      <4>3. due[shared_cells[s]] = 0
        BY <4>1, <4>2 DEF CountersInv, TypeOK
      <4>4. buffers[Top.node][s] \subseteq Nat
        BY <1>0, <4>1 DEF TypeOK
      <4> QED BY <4>3, <4>4 DEF Fresh
    <3>2. CASE Word[shared_cells[s]] = w /\ shared_cells[s] \in intent
      BY <2>3, <3>2
    <3>3. CASE Word[shared_cells[s]] # w
      BY <2>1, <2>3, <2>4, <3>3 DEF ScanInv
    <3> QED BY <3>1, <3>2, <3>3
  <2> QED BY <2>1, <2>3, <2>5 DEF ScanInv, Checking, Top, CellSlots, Fresh, cellVars
<1>3. CASE LoadRevision
  <2>1. /\ UNCHANGED <<cellVars, shared_cells, node_clean, buffers, last_seen, stack, due>>
        /\ Checking
    BY <1>3 DEF LoadRevision, Checking
  <2>2. PICK t \in scan.pending :
          scan' = [scan EXCEPT
           !.pending = @ \ {t},
           !.moved = IF revision[shared_cells[t]] # last_seen[shared_cells[t]]
                       THEN @ \cup {<<t, revision[shared_cells[t]]>>} ELSE @]
    BY <1>3 DEF LoadRevision
  <2>3. t \in CellSlots(Top.node) /\ t \in Slots /\ shared_cells[t] \in Cells /\ t \in Provenance[Top.node]
    BY <1>0, <2>1, ProvenanceSlots DEF ScanTypeOK, CellSlots, BindInv
  <2>4. scan'.words = scan.words /\ scan'.pending = scan.pending \ {t}
    BY <2>2 DEF ScanTypeOK
  <2>5. scan'.moved = IF revision[shared_cells[t]] # last_seen[shared_cells[t]]
                        THEN scan.moved \cup {<<t, revision[shared_cells[t]]>>} ELSE scan.moved
    BY <2>2 DEF ScanTypeOK
  <2>6. revision[shared_cells[t]] \in Nat
    BY <2>3 DEF TypeOK, CellTypeOK
  <2>7. ASSUME NEW m \in scan'.moved
        PROVE  m[1] \in CellSlots(Top.node) /\ m[2] <= revision[shared_cells[m[1]]]
    <3>1. CASE m \in scan.moved
      BY <2>1, <3>1 DEF ScanInv
    <3>2. CASE m = <<t, revision[shared_cells[t]]>>
      BY <2>3, <2>6, <3>2
    <3> QED BY <2>5, <3>1, <3>2
  <2>8. ASSUME NEW s \in CellSlots(Top.node)
        PROVE  \/ Word[shared_cells[s]] \in scan'.words
               \/ s \in scan'.pending
               \/ \E m \in scan'.moved : m[1] = s
               \/ Fresh(s, buffers[Top.node][s])
    <3>1. CASE s # t
      BY <2>1, <2>4, <2>5, <3>1 DEF ScanInv
    <3>2. CASE s = t /\ revision[shared_cells[t]] # last_seen[shared_cells[t]]
      <4>1. <<t, revision[shared_cells[t]]>> \in scan'.moved
        BY <2>5, <3>2
      <4> QED BY <3>2, <4>1
    <3>3. CASE s = t /\ revision[shared_cells[t]] = last_seen[shared_cells[t]]
      <4>1. Detectable(t, buffers[Top.node][t]) /\ buffers[Top.node][t] \subseteq Nat
        BY <1>0, <2>1, <2>3 DEF ScanTypeOK, TypeOK
      <4>2. \A v \in buffers[Top.node][t] : Sound(shared_cells[t], v) /\ v \in Nat
        BY <2>3, <4>1 DEF Detectable, CellSlots
      <4>3. \A v \in buffers[Top.node][t] : v >= due[shared_cells[t]]
        BY <2>3, <3>3, <4>2, SettledIsFresh
      <4> QED BY <3>3, <4>3 DEF Fresh
    <3> QED BY <3>1, <3>2, <3>3
  <2> QED BY <2>1, <2>7, <2>8 DEF ScanInv, Checking, Top, CellSlots, Fresh, cellVars
<1> QED BY <1>1, <1>2, <1>3

\* Consuming the moved revisions takes a sign of staleness from no value that
\* stays: a node left memoized and a node already visited depend on no moved slot.
LEMMA CheckMovedKeeps ==
    ASSUME WalkInv, BindInv, OneSlotPerCell, OnePath, CellInv, CheckMoved
    PROVE  /\ CountersInv'
           /\ \A n \in node_clean' : \A s \in Provenance[n] : Detectable(s, buffers[n][s])'
           /\ \A n \in AllVisited' : \A s \in Provenance[n] : Detectable(s, buffers[n][s])'
<1> USE DEF WalkInv
<1>1. /\ UNCHANGED <<cellVars, shared_cells, buffers, due>> /\ stack # <<>> /\ Checking
      /\ Goto("upstream", 1)
      /\ node_clean' = node_clean \ (Dirty({m[1] : m \in scan.moved}) \cup {Top.node})
      /\ last_seen' = [c \in Cells |->
            IF \E m \in scan.moved : shared_cells[m[1]] = c
              THEN (CHOOSE m \in scan.moved : shared_cells[m[1]] = c)[2]
              ELSE last_seen[c]]
  BY DEF CheckMoved, CheckDone, Checking, Invalidate, CheckInvalidates
<1>2. Top.node \in Nodes /\ Provenance[Top.node] \subseteq Slots /\ node_clean \subseteq Nodes
  BY <1>1, TopFrame, ProvenanceSlots DEF TypeOK
<1>3. \A m \in scan.moved : /\ m[1] \in Provenance[Top.node] /\ m[1] \in Slots
                            /\ shared_cells[m[1]] # NoCell
                            /\ m[2] <= revision[shared_cells[m[1]]]
  BY <1>1, <1>2 DEF CellInv, ScanInv, CellSlots
<1>4. ASSUME NEW c \in Cells, ~\E m \in scan.moved : shared_cells[m[1]] = c
      PROVE  last_seen'[c] = last_seen[c]
  BY <1>1, <1>4
<1>5. CountersInv'
  <2>1. ASSUME NEW c \in Cells PROVE last_seen'[c] <= revision[c]
    <3>1. CASE \E m \in scan.moved : shared_cells[m[1]] = c
      <4> DEFINE x == CHOOSE m \in scan.moved : shared_cells[m[1]] = c
      <4>1. x \in scan.moved /\ shared_cells[x[1]] = c
        BY <3>1
      <4>2. last_seen'[c] = x[2]
        BY <1>1, <3>1
      <4> HIDE DEF x
      <4> QED BY <1>3, <4>1, <4>2
    <3>2. CASE ~\E m \in scan.moved : shared_cells[m[1]] = c
      BY <1>4, <3>2 DEF CellInv, CountersInv
    <3> QED BY <3>1, <3>2
  <2> QED BY <1>1, <2>1 DEF CellInv, CountersInv, cellVars
<1>6. ASSUME NEW n \in Nodes, NEW s \in Provenance[n], Detectable(s, buffers[n][s]),
             \A m \in scan.moved : m[1] # s
      PROVE  Detectable(s, buffers[n][s])'
  <2>1. s \in Slots
    BY ProvenanceSlots
  <2>2. CASE shared_cells[s] = NoCell
    BY <1>1, <2>2 DEF Detectable
  <2>3. CASE shared_cells[s] # NoCell
    <3>1. shared_cells[s] \in Cells /\ MayBind(s, shared_cells[s])
      BY <2>1, <2>3 DEF BindInv
    <3>2. ~\E m \in scan.moved : shared_cells[m[1]] = shared_cells[s]
      BY <1>3, <1>6, <2>1, <3>1 DEF OneSlotPerCell, BindInv
    <3>3. last_seen'[shared_cells[s]] = last_seen[shared_cells[s]]
      BY <1>4, <3>1, <3>2
    <3> QED BY <1>1, <1>6, <3>3 DEF Detectable, Sound, Superseded, cellVars
  <2> QED BY <2>2, <2>3
<1>7. ASSUME NEW n \in node_clean', NEW s \in Provenance[n] PROVE Detectable(s, buffers[n][s])'
  <2>1. n \in node_clean /\ n \in Nodes /\ n \notin Dirty({m[1] : m \in scan.moved})
    BY <1>1, <1>2
  <2>2. \A m \in scan.moved : m[1] # s
    BY <2>1, <1>7 DEF Dirty
  <2> QED BY <1>6, <2>1, <2>2 DEF CellInv
<1>8. ASSUME NEW n \in AllVisited', NEW s \in Provenance[n] PROVE Detectable(s, buffers[n][s])'
  <2>1. "upstream" \in Stages /\ 1 \in Nat /\ 1 >= 1
    BY DEF Stages
  <2>2. n \in Beneath /\ n \in AllVisited
    BY <1>1, <2>1, GotoVisited
  <2>3. n \in Nodes /\ Detectable(s, buffers[n][s])
    BY <2>2, VisitedNodes DEF CellInv
  <2>4. ASSUME NEW m \in scan.moved PROVE m[1] # s
    <3> SUFFICES ASSUME m[1] = s PROVE FALSE
      OBVIOUS
    <3>1. shared_cells[s] \in Cells /\ MayBind(s, shared_cells[s]) /\ s \in Provenance[Top.node]
      BY <1>3 DEF BindInv
    <3> QED BY <1>1, <2>2, <3>1, VisitedApart
  <2> QED BY <1>6, <2>3, <2>4
<1> QED BY <1>5, <1>7, <1>8

LEMMA CellInvInit == Init => CellInv
<1> SUFFICES ASSUME Init PROVE CellInv
  OBVIOUS
<1>1. AllVisited = {} /\ ~Gathering /\ ~Checking /\ ~Answered
  BY IdleWalk DEF Init, KernelInit, Answered
<1>2. CountersInv
  BY DEF CountersInv, Init, KernelInit, CellInit, Idle
<1> QED BY <1>1, <1>2 DEF CellInv, ScanInv, ReadsSeeCompletedWrites, Init, KernelInit

LEMMA CellInvNext ==
    ASSUME CellTypeOK', BindInv, WalkInv, CompletedIsAdvertised, OneSlotPerCell, OnePath,
           CellInv, [Next]_vars
    PROVE  CellInv'
<1> USE DEF WalkInv
<1>0. /\ [CellNext]_cellVars /\ CountersInv /\ CellTypeOK
      /\ node_clean \subseteq Nodes /\ AllVisited \subseteq Nodes
      /\ last_seen \in [Cells -> Nat] /\ due \in [Cells -> Nat]
  BY CellStep, VisitedNodes DEF CellInv, TypeOK
<1>a. ASSUME NEW n \in Nodes, NEW s \in Provenance[n]
      PROVE  s \in Slots /\ buffers[n][s] \in SUBSET Nat
  BY ProvenanceSlots DEF TypeOK
<1>1. CASE UNCHANGED kernelVars
  <2>1. UNCHANGED <<shared_cells, node_clean, buffers, last_seen, stack, scan, input_scratch, answer, due>>
    BY <1>1 DEF kernelVars
  <2>2. CountersInv' /\ \A c \in Cells : revision'[c] >= revision[c]
    BY <1>0, <2>1, CellsMove
  <2>3. ASSUME NEW s \in Slots, NEW values \in SUBSET Nat
        PROVE  /\ Detectable(s, values) => Detectable(s, values)'
               /\ Fresh(s, values) => Fresh(s, values)'
    BY <1>0, <2>1, StandingKept
  <2>4. /\ AllVisited' = AllVisited /\ (Gathering' <=> Gathering) /\ (Checking' <=> Checking)
        /\ Top' = Top /\ CellSlots(Top.node)' = CellSlots(Top.node)
    BY <2>1 DEF AllVisited, Visited, Passed, Read, Height, Gathering, Checking, Top, CellSlots
  <2>5. ScanInv'
    <3>1. ASSUME Checking, NEW m \in scan.moved
          PROVE  /\ m[1] \in CellSlots(Top.node)
                 /\ m[2] <= revision'[shared_cells[m[1]]]
      <4>1. m[1] \in CellSlots(Top.node) /\ m[2] <= revision[shared_cells[m[1]]] /\ m[2] \in Nat
        BY <3>1 DEF CellInv, ScanInv, TypeOK
      <4>2. shared_cells[m[1]] \in Cells
        BY <4>1 DEF CellSlots, BindInv, TypeOK
      <4>3. /\ revision[shared_cells[m[1]]] \in Nat /\ revision'[shared_cells[m[1]]] \in Nat
            /\ revision'[shared_cells[m[1]]] >= revision[shared_cells[m[1]]]
        BY <1>0, <2>2, <4>2 DEF CellTypeOK
      <4> QED BY <4>1, <4>3
    <3> QED BY <2>1, <2>4, <3>1 DEF CellInv, ScanInv, Fresh
  <2>6. /\ \A n \in node_clean' : \A s \in Provenance[n] : Detectable(s, buffers[n][s])'
        /\ \A n \in AllVisited' : \A s \in Provenance[n] :
             Fresh(s, buffers[n][s])' /\ Detectable(s, buffers[n][s])'
    BY <1>0, <1>a, <2>1, <2>3, <2>4 DEF CellInv
  <2>7. Gathering' => \A s \in Slots : Fresh(s, input_scratch[s])' /\ Detectable(s, input_scratch[s])'
    <3>1. \A s \in Slots : input_scratch[s] \in SUBSET Nat
      BY DEF TypeOK
    <3> QED BY <2>1, <2>3, <2>4, <3>1 DEF CellInv
  <2>8. ReadsSeeCompletedWrites'
    BY <2>1 DEF CellInv, ReadsSeeCompletedWrites, Answered
  <2> QED BY <2>2, <2>5, <2>6, <2>7, <2>8 DEF CellInv
<1>2. CASE HostCall
  <2>1. /\ stack = <<>> /\ UNCHANGED <<buffers, last_seen, stack, due>>
        /\ node_clean' \subseteq node_clean /\ answer' = NoAnswer
        /\ \A n \in node_clean', s \in Slots : s \in Provenance[n] => shared_cells'[s] = shared_cells[s]
    BY <1>2, HostSteps
  <2>2. CountersInv'
    BY <1>0, <2>1, CellsMove
  <2>3. AllVisited' = {} /\ ~Gathering' /\ ~Checking' /\ ~Answered'
    BY <2>1 DEF Answered, AllVisited, Gathering, Checking, Height
  <2>4. ASSUME NEW n \in node_clean', NEW s \in Provenance[n] PROVE Detectable(s, buffers[n][s])'
    <3>1. /\ n \in node_clean /\ n \in Nodes /\ s \in Slots /\ buffers[n][s] \in SUBSET Nat
          /\ shared_cells'[s] = shared_cells[s] /\ Detectable(s, buffers[n][s])
      BY <1>0, <1>a, <2>1 DEF CellInv
    <3>2. \A values \in SUBSET Nat : Detectable(s, values) => Detectable(s, values)'
      BY <1>0, <2>1, <3>1, StandingKept
    <3> QED BY <2>1, <3>1, <3>2
  <2> QED BY <2>2, <2>3, <2>4 DEF CellInv, ScanInv, ReadsSeeCompletedWrites
<1>3. ASSUME NEW out \in Outputs, BeginPull(out) PROVE CellInv'
  <2>1. /\ UNCHANGED <<cellVars, shared_cells, buffers, last_seen>>
        /\ node_clean' \subseteq node_clean /\ answer' = NoAnswer /\ due' = completed
        /\ stack' = <<[node |-> out, stage |-> "visit", next |-> 1]>>
    BY <1>3 DEF BeginPull, Frame
  <2>2. Height' = 1 /\ stack'[1].stage = "visit" /\ Top'.stage = "visit"
    BY <2>1 DEF Height, Top
  <2>3. Visited(1)' = {}
    BY <2>2 DEF Visited, Passed
  <2>4. AllVisited' = {} /\ ~Gathering' /\ ~Checking' /\ ~Answered'
    BY <2>1, <2>2, <2>3 DEF AllVisited, Gathering, Checking, Answered
  <2>5. CountersInv'
    <3>1. \A c \in Cells : completed[c] \in Nat /\ completed[c] <= completed[c]
      BY <1>0 DEF CellTypeOK
    <3> QED BY <1>0, <2>1, <3>1 DEF CountersInv, cellVars
  <2>6. \A n \in node_clean' : \A s \in Provenance[n] : Detectable(s, buffers[n][s])'
    BY <2>1 DEF CellInv, Detectable, Sound, Superseded, cellVars
  <2> QED BY <2>4, <2>5, <2>6 DEF CellInv, ScanInv, ReadsSeeCompletedWrites
<1>4. CASE PlainStep
  <2>0. UNCHANGED <<last_seen, due, answer, node_clean>>
    BY <1>4, PlainSteps
  <2>1. /\ UNCHANGED <<cellVars, shared_cells, buffers>> /\ AllVisited' \subseteq AllVisited
        /\ Gathering' => input_scratch' = Blank
    BY <1>4, SearchSteps DEF SearchStep
  <2>2. CountersInv'
    BY <1>0, <2>0, <2>1 DEF CountersInv, cellVars
  <2>3. /\ \A n \in node_clean' : \A s \in Provenance[n] : Detectable(s, buffers[n][s])'
        /\ \A n \in AllVisited' : \A s \in Provenance[n] :
             Fresh(s, buffers[n][s])' /\ Detectable(s, buffers[n][s])'
    BY <2>0, <2>1 DEF CellInv, Detectable, Fresh, Sound, Superseded, cellVars
  <2>4. Gathering' => \A s \in Slots : Fresh(s, input_scratch[s])' /\ Detectable(s, input_scratch[s])'
    BY <2>1 DEF Blank, Fresh, Detectable
  <2>5. ReadsSeeCompletedWrites'
    BY <2>0, <2>1 DEF CellInv, ReadsSeeCompletedWrites, Answered
  <2>6. ScanInv'
    <3>1. CASE Visit \/ LoadIntent \/ LoadRevision
      BY <3>1, ScanNext DEF CellInv
    <3>2. CASE Descend
      <4>1. ~Checking'
        BY <3>2, PushStack DEF Descend
      <4> QED BY <4>1 DEF ScanInv
    <3>3. CASE BeginGather
      <4>1. stack # <<>> /\ Goto("gather", 1) /\ "gather" \in Stages /\ 1 \in Nat /\ 1 >= 1
        BY <3>3 DEF BeginGather, Stages
      <4>2. Top' = [node |-> Top.node, stage |-> "gather", next |-> 1]
        BY <4>1, GotoStack
      <4>3. ~Checking'
        BY <4>2 DEF Checking
      <4> QED BY <4>3 DEF ScanInv
    <3>4. CASE EvalPanics
      BY <3>4 DEF EvalPanics, ScanInv, Checking
    <3> QED BY <1>4, <3>1, <3>2, <3>3, <3>4 DEF PlainStep
  <2> QED BY <2>2, <2>3, <2>4, <2>5, <2>6 DEF CellInv
<1>5. CASE CheckMoved
  <2>1. /\ UNCHANGED <<cellVars, shared_cells, buffers, due, answer>> /\ AllVisited' \subseteq AllVisited
        /\ Gathering' => input_scratch' = Blank
    BY <1>5, SearchSteps DEF SearchStep, CheckMoved
  <2>2. /\ CountersInv'
        /\ \A n \in node_clean' : \A s \in Provenance[n] : Detectable(s, buffers[n][s])'
        /\ \A n \in AllVisited' : \A s \in Provenance[n] : Detectable(s, buffers[n][s])'
    BY <1>5, CheckMovedKeeps
  <2>3. \A n \in AllVisited' : \A s \in Provenance[n] : Fresh(s, buffers[n][s])'
    BY <2>1 DEF CellInv, Fresh
  <2>4. Gathering' => \A s \in Slots : Fresh(s, input_scratch[s])' /\ Detectable(s, input_scratch[s])'
    BY <2>1 DEF Blank, Fresh, Detectable
  <2>5. ReadsSeeCompletedWrites'
    BY <2>1 DEF CellInv, ReadsSeeCompletedWrites, Answered
  <2>6. ScanInv'
    BY <1>5 DEF CheckMoved, NoScan, ScanInv, Checking, Goto, Top, Frame
  <2> QED BY <2>2, <2>3, <2>4, <2>5, <2>6 DEF CellInv
<1>6. CASE Gather
  <2> DEFINE src == Wiring[Top.node][Top.next]
  <2>1. /\ Gathering /\ Gathering'
        /\ src \in Slots \/ (src \notin Slots /\ src \in Nodes /\ src \in AllVisited)
        /\ AllVisited' \subseteq AllVisited
        /\ UNCHANGED <<cellVars, inputs, shared_cells, node_clean, buffers, last_seen, scan,
                       answer, due>>
    BY <1>6, GatherSource
  <2>2. /\ \A s, values : Detectable(s, values)' <=>
             (shared_cells[s] # NoCell => \A v \in values : Sound(shared_cells[s], v))
        /\ \A s, values : Fresh(s, values)' <=> Fresh(s, values)
    BY <2>1 DEF Detectable, Fresh, Sound, Superseded, cellVars
  <2>3. CountersInv' /\ ReadsSeeCompletedWrites' /\ ScanInv'
    BY <1>0, <2>1 DEF CountersInv, cellVars, CellInv, ReadsSeeCompletedWrites, Answered, ScanInv,
       Gathering, Checking
  <2>4. /\ \A n \in node_clean' : \A s \in Provenance[n] : Detectable(s, buffers[n][s])'
        /\ \A n \in AllVisited' : \A s \in Provenance[n] :
             Fresh(s, buffers[n][s])' /\ Detectable(s, buffers[n][s])'
    BY <2>1 DEF CellInv, Detectable, Fresh, Sound, Superseded, cellVars
  <2>5. ASSUME NEW s \in Slots, shared_cells[s] # NoCell, NEW v \in input_scratch'[s]
        PROVE  v >= due[shared_cells[s]] /\ Sound(shared_cells[s], v)
    <3>1. shared_cells[s] \in Cells
      BY <2>5 DEF BindInv
    <3>2. ASSUME v \in input_scratch[s]
          PROVE  v >= due[shared_cells[s]] /\ Sound(shared_cells[s], v)
      BY <2>1, <2>5, <3>2 DEF CellInv, Fresh, Detectable
    <3>3. CASE src \in Slots
      <4>1. input_scratch' = [input_scratch EXCEPT ![src] = @ \cup {ReadInput(src)}]
        BY <1>6, <3>3, GatherSource
      <4>2. v \in input_scratch[s] \/ v = value[shared_cells[s]]
        BY <2>5, <3>3, <4>1 DEF TypeOK, ReadInput
      <4> QED BY <1>0, <3>1, <3>2, <4>2, NewestIsSound
    <3>4. CASE src \notin Slots
      <4>1. v \in input_scratch[s] \cup buffers[src][s]
        BY <1>6, <2>5, <3>4, GatherSource
      <4>2. s \in Provenance[src] => Fresh(s, buffers[src][s]) /\ Detectable(s, buffers[src][s])
        BY <2>1, <3>4 DEF CellInv
      <4>3. s \notin Provenance[src] => buffers[src][s] = {}
        BY <2>1, <3>4 DEF NoStrays
      <4> QED BY <2>5, <3>2, <4>1, <4>2, <4>3 DEF Fresh, Detectable
    <3> QED BY <3>3, <3>4
  <2>6. \A s \in Slots : Fresh(s, input_scratch[s])' /\ Detectable(s, input_scratch[s])'
    BY <2>1, <2>5 DEF Fresh, Detectable, Sound, Superseded, cellVars
  <2> QED BY <2>3, <2>4, <2>6 DEF CellInv
<1>7. CASE CheckClean \/ Evaluate
  <2>1. /\ UNCHANGED <<cellVars, inputs, shared_cells, last_seen, due>>
        /\ Top.node \in Nodes /\ ~Gathering' /\ ~Checking'
        /\ AllVisited' \subseteq AllVisited \cup {Top.node}
        /\ node_clean' \subseteq node_clean \cup {Top.node}
        /\ answer' = answer \/ answer' = [node |-> Top.node, got |-> buffers'[Top.node]]
        /\ \A n \in Nodes : n # Top.node => buffers'[n] = buffers[n]
    BY <1>7, ReturnSteps
  <2>2. PICK top : top = Top.node
    OBVIOUS
  <2>3. \A s, values : /\ Detectable(s, values)' <=> Detectable(s, values)
                       /\ Fresh(s, values)' <=> Fresh(s, values)
    BY <2>1 DEF Detectable, Fresh, Sound, Superseded, cellVars
  <2>4. ASSUME NEW s \in Provenance[top]
        PROVE  Fresh(s, buffers'[top][s]) /\ Detectable(s, buffers'[top][s])
    <3>1. s \in Slots
      BY <2>1, <2>2, <2>4, ProvenanceSlots
    <3>2. CASE CheckClean
      <4>1. UNCHANGED buffers /\ top \in node_clean /\ Checking
        BY <2>2, <3>2, ReturnSteps
      <4>2. scan.words = {} /\ scan.pending = {} /\ scan.moved = {}
        BY <3>2 DEF CheckClean, CheckDone
      <4>3. Fresh(s, buffers[top][s])
        <5>1. CASE shared_cells[s] = NoCell
          BY <5>1 DEF Fresh
        <5>2. CASE shared_cells[s] # NoCell
          BY <2>2, <2>4, <4>1, <4>2, <5>2 DEF CellInv, ScanInv, CellSlots
        <5> QED BY <5>1, <5>2
      <4> QED BY <2>4, <4>1, <4>3 DEF CellInv
    <3>3. CASE Evaluate
      BY <2>2, <3>1, <3>3, ReturnSteps DEF CellInv
    <3> QED BY <1>7, <3>2, <3>3
  <2>5. ASSUME NEW n \in node_clean', NEW s \in Provenance[n]
        PROVE  Detectable(s, buffers'[n][s])
    <3>1. CASE n = top
      BY <2>4, <3>1
    <3>2. CASE n # top
      BY <1>0, <2>1, <2>2, <3>2 DEF CellInv
    <3> QED BY <3>1, <3>2
  <2>6. ASSUME NEW n \in AllVisited', NEW s \in Provenance[n]
        PROVE  Fresh(s, buffers'[n][s]) /\ Detectable(s, buffers'[n][s])
    <3>1. CASE n = top
      BY <2>4, <3>1
    <3>2. CASE n # top
      BY <1>0, <2>1, <2>2, <3>2 DEF CellInv
    <3> QED BY <3>1, <3>2
  <2>7. ReadsSeeCompletedWrites'
    <3>1. CASE answer' = answer
      BY <2>1, <3>1 DEF CellInv, ReadsSeeCompletedWrites, Answered
    <3>2. CASE answer' = [node |-> Top.node, got |-> buffers'[Top.node]]
      BY <2>1, <2>2, <2>4, <3>2 DEF ReadsSeeCompletedWrites, Fresh
    <3> QED BY <2>1, <3>1, <3>2
  <2>8. CountersInv' /\ ScanInv'
    BY <1>0, <2>1 DEF CountersInv, cellVars, ScanInv
  <2>9. /\ \A n \in node_clean' : \A s \in Provenance[n] : Detectable(s, buffers[n][s])'
        /\ \A n \in AllVisited' : \A s \in Provenance[n] :
             Fresh(s, buffers[n][s])' /\ Detectable(s, buffers[n][s])'
    BY <2>1, <2>5, <2>6 DEF Detectable, Fresh, Sound, Superseded, cellVars
  <2> QED BY <2>1, <2>7, <2>8, <2>9 DEF CellInv
<1> QED BY <1>1, <1>2, <1>3, <1>4, <1>5, <1>6, <1>7, StepCases DEF SearchStep

LEMMA CellsRead ==
    ASSUME OneSlotPerCell, OnePath
    PROVE  Spec => [](CompletedIsAdvertised /\ BindInv /\ WalkInv /\ CellInv)
<1>1. CellTypeOK' /\ BindInv /\ WalkInv /\ CompletedIsAdvertised /\ CellInv /\ [Next]_vars => CellInv'
  BY CellInvNext
<1>2. Spec => []CompletedIsAdvertised
  BY KernelKeepsProtocol, CompletedAdvertised, PTL
<1> QED BY <1>1, <1>2, CellInvInit, Bound, Walked, PTL DEF Spec

\* The contract of cross_fiber_invalidation.md: a write whose publish returned
\* before a read began is observed by that read, for every program in which a
\* cell-bound slot reaches a node along one path and no cell has two slots, and
\* for every interleaving of publishes with the steps of the reads.
THEOREM CompletedWritesAreRead ==
    ASSUME OneSlotPerCell, OnePath
    PROVE  Spec => []ReadsSeeCompletedWrites
<1>1. CellInv => ReadsSeeCompletedWrites
  BY DEF CellInv
<1> QED BY <1>1, CellsRead, PTL

\* A memoized node older than a completed write always keeps the sign the next
\* check needs: the cell's bit, and a revision not consumed.
THEOREM StalenessIsDetectable ==
    ASSUME OneSlotPerCell, OnePath
    PROVE  Spec => []StaleIsDetectable
<1>1. CompletedIsAdvertised /\ BindInv /\ WalkInv /\ CellInv => StaleIsDetectable
  <2> SUFFICES ASSUME CompletedIsAdvertised, BindInv, WalkInv, CellInv,
                      NEW n \in node_clean, NEW s \in CellSlots(n),
                      NEW v \in buffers[n][s], v < completed[shared_cells[s]]
               PROVE  /\ shared_cells[s] \in intent
                      /\ revision[shared_cells[s]] # last_seen[shared_cells[s]]
    BY DEF StaleIsDetectable
  <2>1. n \in Nodes /\ s \in Provenance[n] /\ shared_cells[s] # NoCell /\ s \in Slots
    BY ProvenanceSlots DEF WalkInv, TypeOK, CellSlots
  <2>2. PICK c \in Cells : c = shared_cells[s]
    BY <2>1 DEF BindInv
  <2>3. /\ v \in Nat /\ completed[c] \in Nat /\ revision[c] \in Nat /\ last_seen[c] \in Nat
    BY <2>1 DEF WalkInv, TypeOK, CellTypeOK
  <2>4. Sound(c, v)
    BY <2>1, <2>2 DEF CellInv, Detectable
  <2>5. last_seen[c] < revision[c]
    BY <2>2, <2>3, <2>4 DEF Sound, Superseded
  <2>6. c \in intent
    BY <2>2, <2>3 DEF CompletedIsAdvertised
  <2> QED BY <2>2, <2>3, <2>5, <2>6
<1> QED BY <1>1, CellsRead, PTL

-----------------------------------------------------------------------------
(* No step back in time. *)

\* A cell's value never gives way to an earlier one.
LEMMA ValueGrows ==
    ASSUME CellTypeOK, [CellNext]_cellVars
    PROVE  \A c \in Cells : value[c] \in Nat /\ value'[c] \in Nat /\ value[c] <= value'[c]
<1> USE DEF CellTypeOK
<1>1. ASSUME NEW w \in Writers, NEW d \in Cells, Store(w, d)
      PROVE  \A c \in Cells : value[c] \in Nat /\ value'[c] \in Nat /\ value[c] <= value'[c]
  BY <1>1 DEF Store
<1>2. \A w \in Writers : Bump(w) \/ Mark(w) => UNCHANGED value
  BY DEF Bump, Mark
<1>3. UNCHANGED cellVars => UNCHANGED value
  BY DEF cellVars
<1>4. UNCHANGED value => \A c \in Cells : value[c] \in Nat /\ value'[c] \in Nat /\ value[c] <= value'[c]
  OBVIOUS
<1> QED BY <1>1, <1>2, <1>3, <1>4 DEF CellNext, Publish

\* A step of the cells under unchanged buffers keeps the buffers in order.
LEMMA OrderedKept ==
    ASSUME TypeOK, BindInv, Ordered, [CellNext]_cellVars, UNCHANGED <<shared_cells, buffers>>
    PROVE  Ordered'
<1>1. SUFFICES ASSUME NEW n \in Nodes, NEW s \in Slots, shared_cells[s] # NoCell,
                      NEW i \in DOMAIN Wiring[n], s \in Carried(Wiring[n][i])
               PROVE  /\ buffers[n][s] # {} => Supply(Wiring[n][i], s)' # {}
                      /\ \A old \in buffers[n][s], new \in Supply(Wiring[n][i], s)' : old <= new
  BY DEF Ordered, Supply
<1>2. /\ buffers[n][s] # {} => Supply(Wiring[n][i], s) # {}
      /\ \A old \in buffers[n][s], new \in Supply(Wiring[n][i], s) : old <= new
  BY <1>1 DEF Ordered
<1>3. CASE Wiring[n][i] \in Slots
  <2>1. /\ shared_cells[s] \in Cells /\ value[shared_cells[s]] \in Nat
        /\ value'[shared_cells[s]] \in Nat /\ value[shared_cells[s]] <= value'[shared_cells[s]]
    BY <1>1, ValueGrows DEF BindInv, TypeOK
  <2>2. \A old \in buffers[n][s] : old \in Nat /\ old <= value[shared_cells[s]]
    BY <1>2, <1>3 DEF Supply, TypeOK
  <2>3. Supply(Wiring[n][i], s)' = {value'[shared_cells[s]]}
    BY <1>3 DEF Supply
  <2>4. \A old \in buffers[n][s] : old <= value'[shared_cells[s]]
    BY <2>1, <2>2
  <2> QED BY <2>3, <2>4
<1>4. CASE Wiring[n][i] \notin Slots
  BY <1>2, <1>4 DEF Supply
<1> QED BY <1>3, <1>4

LEMMA ForwardInit == Init => ForwardInv
<1> SUFFICES ASSUME Init PROVE ForwardInv
  OBVIOUS
<1>1. AllVisited = {} /\ ~Gathering
  BY IdleWalk DEF Init, KernelInit
<1>2. \A n \in Nodes, s \in Slots : buffers[n][s] = {}
  BY DEF Init, KernelInit, Blank
<1>3. Ordered
  BY <1>2 DEF Ordered
<1> QED BY <1>1, <1>3 DEF ForwardInv, GatherOrdered, Filled, Init, KernelInit

\* Without a late attachment every slot keeps its register.
LEMMA RegistersStay ==
    ASSUME Attachable = {}, [Next]_vars
    PROVE  UNCHANGED shared_cells
BY DEF Next, WalkStep, HostCall, Visit, LoadIntent, LoadRevision, CheckClean, CheckMoved, Descend,
   BeginGather, Gather, Evaluate, EvalPanics, SetInputs, ResetInputs, InvalidateAll, SetInput,
   SetCellInput, BeginPull, StartPublish, FinishPublish, kernelVars, vars

\* A gather's new values come from one source, and lie where they must.
LEMMA GatherForward ==
    ASSUME WalkInv, BindInv, OnePath, ForwardInv, Gather
    PROVE  GatherOrdered' /\ (Gathering' => \A s \in Slots : Brought(s)' => input_scratch'[s] # {})
<1> USE DEF WalkInv
<1> DEFINE src == Wiring[Top.node][Top.next]
<1>1. /\ Gathering /\ Gathering' /\ Top'.node = Top.node /\ Top'.next = Top.next + 1
      /\ Top.node \in Nodes /\ Top.next \in 1 .. Len(Wiring[Top.node])
      /\ src \in Slots \/ (src \notin Slots /\ src \in Nodes /\ src \in AllVisited)
      /\ \A s : Brought(s)' <=> Brought(s) \/ s \in Carried(src)
      /\ UNCHANGED <<cellVars, inputs, shared_cells, node_clean, buffers, last_seen, scan, answer, due>>
  BY GatherSource
<1>2. /\ DOMAIN Wiring[Top.node] = 1 .. Len(Wiring[Top.node]) /\ Len(Wiring[Top.node]) \in Nat
      /\ Top.next \in DOMAIN Wiring[Top.node]
  BY <1>1, Wired
\* What the step puts into the scratch.
<1>3. ASSUME NEW s \in Slots, s \notin Carried(src) PROVE input_scratch'[s] = input_scratch[s]
  <2>1. CASE src \in Slots
    <3>1. input_scratch' = [input_scratch EXCEPT ![src] = @ \cup {ReadInput(src)}]
      BY <2>1, GatherSource
    <3> QED BY <1>3, <2>1, <3>1 DEF TypeOK, Carried
  <2>2. CASE src \notin Slots
    <3>1. input_scratch'[s] = input_scratch[s] \cup buffers[src][s]
      BY <2>2, GatherSource
    <3>2. buffers[src][s] = {}
      BY <1>1, <1>3, <2>2 DEF NoStrays, Carried
    <3> QED BY <3>1, <3>2
  <2> QED BY <2>1, <2>2
<1>4. ASSUME NEW s \in Slots, s \in Carried(src), shared_cells[s] # NoCell
      PROVE  input_scratch'[s] = input_scratch[s] \cup Supply(src, s)
  <2>1. CASE src \in Slots
    <3>1. input_scratch' = [input_scratch EXCEPT ![src] = @ \cup {ReadInput(src)}]
      BY <2>1, GatherSource
    <3> QED BY <1>4, <2>1, <3>1 DEF TypeOK, Carried, Supply, ReadInput
  <2>2. CASE src \notin Slots
    BY <2>2, GatherSource DEF Supply
  <2> QED BY <2>1, <2>2
<1>5. ASSUME NEW s \in Slots, s \in Carried(src), shared_cells[s] # NoCell
      PROVE  ~Brought(s) /\ input_scratch[s] = {}
  <2>1. shared_cells[s] \in Cells /\ MayBind(s, shared_cells[s])
    BY <1>5 DEF BindInv
  <2>2. ~Brought(s)
    <3> SUFFICES ASSUME NEW i \in DOMAIN Wiring[Top.node], i < Top.next,
                        s \in Carried(Wiring[Top.node][i])
                 PROVE  FALSE
      BY DEF Brought
    <3>1. i = Top.next
      BY <1>1, <1>2, <1>5, <2>1 DEF OnePath
    <3> QED BY <1>1, <1>2, <3>1
  <2> QED BY <1>1, <2>2 DEF NoStrays
<1>6. \A n, s : Supply(n, s)' = Supply(n, s)
  BY <1>1 DEF Supply, cellVars
<1>7. ASSUME NEW s \in Slots, shared_cells[s] # NoCell,
             NEW i \in DOMAIN Wiring[Top.node], i < Top.next + 1,
             s \in Carried(Wiring[Top.node][i]), NEW v \in input_scratch'[s]
      PROVE  /\ \A new \in Supply(Wiring[Top.node][i], s) : v <= new
             /\ \A old \in buffers[Top.node][s] : old <= v
             /\ \A v2 \in input_scratch'[s] : v = v2
  <2>1. CASE i = Top.next
    <3>1. input_scratch'[s] = Supply(src, s)
      BY <1>4, <1>5, <1>7, <2>1
    <3>2. \A old \in buffers[Top.node][s] : old <= v
      BY <1>1, <1>7, <2>1, <3>1 DEF ForwardInv, Ordered
    <3>3. \A v2 \in Supply(src, s) : v = v2
      <4>1. CASE src \in Slots
        BY <1>7, <3>1, <4>1 DEF Supply
      <4>2. CASE src \notin Slots
        <5>1. v \in buffers[src][s] /\ src \in Nodes
          BY <1>1, <1>7, <3>1, <4>2 DEF Supply
        <5> QED BY <1>7, <4>2, <5>1 DEF Supply, ForwardInv, Ordered
      <4> QED BY <4>1, <4>2
    <3>4. v \in Nat
      <4>1. CASE src \in Slots
        BY <1>7, <3>1, <4>1 DEF Supply, TypeOK, CellTypeOK, BindInv
      <4>2. CASE src \notin Slots
        BY <1>1, <1>7, <3>1, <4>2 DEF Supply, TypeOK
      <4> QED BY <4>1, <4>2
    <3>5. \A new \in Supply(src, s) : v <= new
      BY <3>3, <3>4
    <3> QED BY <2>1, <3>1, <3>2, <3>3, <3>5
  <2>2. CASE i # Top.next
    <3>1. i < Top.next
      BY <1>1, <1>2, <1>7, <2>2
    <3>2. s \notin Carried(src)
      BY <1>5, <1>7, <3>1 DEF Brought
    <3>3. input_scratch'[s] = input_scratch[s]
      BY <1>3, <3>2
    <3> QED BY <1>1, <1>7, <3>1, <3>3 DEF ForwardInv, GatherOrdered
  <2> QED BY <2>1, <2>2
<1>8. GatherOrdered'
  BY <1>1, <1>6, <1>7 DEF GatherOrdered
<1>9. ASSUME NEW s \in Slots, Brought(s)' PROVE input_scratch'[s] # {}
  <2>1. CASE s \notin Carried(src)
    BY <1>1, <1>3, <1>9, <2>1 DEF ForwardInv, Filled
  <2>2. CASE s \in Carried(src) /\ src \in Slots
    <3>1. input_scratch' = [input_scratch EXCEPT ![src] = @ \cup {ReadInput(src)}]
      BY <2>2, GatherSource
    <3> QED BY <2>2, <3>1 DEF TypeOK, Carried
  <2>3. CASE s \in Carried(src) /\ src \notin Slots
    <3>1. input_scratch'[s] = input_scratch[s] \cup buffers[src][s]
      BY <2>3, GatherSource
    <3>2. buffers[src][s] # {}
      BY <1>1, <2>3 DEF ForwardInv, Filled, Carried
    <3> QED BY <3>1, <3>2
  <2> QED BY <2>1, <2>2, <2>3
<1> QED BY <1>8, <1>9

LEMMA ForwardNext ==
    ASSUME CellTypeOK', BindInv, WalkInv, OnePath, Attachable = {}, ForwardInv, [Next]_vars
    PROVE  ForwardInv'
<1> USE DEF WalkInv
<1>0. /\ [CellNext]_cellVars /\ UNCHANGED shared_cells
      /\ node_clean \subseteq Nodes /\ AllVisited \subseteq Nodes
  BY CellStep, RegistersStay, VisitedNodes DEF TypeOK
<1>1. CASE UNCHANGED kernelVars
  <2>1. UNCHANGED <<shared_cells, node_clean, buffers, stack, input_scratch>>
    BY <1>1 DEF kernelVars
  <2>2. Ordered'
    BY <1>0, <2>1, OrderedKept DEF ForwardInv
  <2>3. /\ AllVisited' = AllVisited /\ (Gathering' <=> Gathering) /\ Top' = Top
        /\ \A s : Brought(s)' <=> Brought(s)
    BY <2>1 DEF AllVisited, Visited, Passed, Read, Height, Gathering, Top, Brought
  <2>4. Filled'
    BY <2>1, <2>3 DEF ForwardInv, Filled
  <2>5. ASSUME Gathering, NEW s \in Slots, shared_cells[s] # NoCell,
               NEW i \in DOMAIN Wiring[Top.node], i < Top.next,
               s \in Carried(Wiring[Top.node][i]), NEW v \in input_scratch[s]
        PROVE  \A new \in Supply(Wiring[Top.node][i], s)' : v <= new
    <3>1. \A new \in Supply(Wiring[Top.node][i], s) : v <= new
      BY <2>5 DEF ForwardInv, GatherOrdered
    <3>2. PICK src : src = Wiring[Top.node][i]
      OBVIOUS
    <3>3. Supply(Wiring[Top.node][i], s)' =
            IF src \in Slots THEN {value'[shared_cells'[s]]} ELSE buffers'[src][s]
      BY <2>3, <3>2 DEF Supply
    <3>4. CASE src \in Slots
      <4>1. /\ shared_cells[s] \in Cells /\ value[shared_cells[s]] \in Nat
            /\ value'[shared_cells[s]] \in Nat /\ value[shared_cells[s]] <= value'[shared_cells[s]]
        BY <1>0, <2>5, ValueGrows DEF BindInv, TypeOK
      <4>2. v \in Nat /\ v <= value[shared_cells[s]]
        BY <2>5, <3>1, <3>2, <3>4 DEF Supply, TypeOK
      <4>3. v <= value'[shared_cells[s]]
        BY <4>1, <4>2
      <4> QED BY <2>1, <3>3, <3>4, <4>3
    <3>5. CASE src \notin Slots
      BY <2>1, <3>1, <3>2, <3>3, <3>5 DEF Supply
    <3> QED BY <3>4, <3>5
  <2>6. GatherOrdered'
    BY <2>1, <2>3, <2>5 DEF ForwardInv, GatherOrdered
  <2> QED BY <2>2, <2>4, <2>6 DEF ForwardInv
<1>2. CASE HostCall
  <2>1. UNCHANGED <<buffers, stack>> /\ node_clean' \subseteq node_clean /\ stack = <<>>
    BY <1>2, HostSteps
  <2>2. AllVisited' = {} /\ ~Gathering'
    BY <2>1 DEF AllVisited, Gathering, Height
  <2>3. Ordered'
    BY <1>0, <2>1, OrderedKept DEF ForwardInv
  <2> QED BY <2>1, <2>2, <2>3 DEF ForwardInv, Filled, GatherOrdered
<1>3. CASE SearchStep
  <2>1. /\ UNCHANGED <<cellVars, buffers>>
        /\ node_clean' \subseteq node_clean /\ AllVisited' \subseteq AllVisited
        /\ Gathering' => \A s : ~Brought(s)'
    BY <1>3, SearchSteps
  <2>2. Ordered'
    BY <1>0, <2>1, OrderedKept DEF ForwardInv
  <2>3. Filled'
    BY <2>1 DEF ForwardInv, Filled
  <2>4. GatherOrdered'
    BY <2>1 DEF GatherOrdered, Brought
  <2> QED BY <2>2, <2>3, <2>4 DEF ForwardInv
<1>4. CASE Gather
  <2>1. /\ UNCHANGED <<cellVars, node_clean, buffers>> /\ AllVisited' \subseteq AllVisited
    BY <1>4, GatherSource
  <2>2. Ordered'
    BY <1>0, <2>1, OrderedKept DEF ForwardInv
  <2>3. GatherOrdered' /\ Filled'
    BY <1>4, <2>1, GatherForward DEF ForwardInv, Filled
  <2> QED BY <2>2, <2>3 DEF ForwardInv
<1>5. CASE CheckClean
  <2>1. /\ UNCHANGED <<cellVars, node_clean, buffers>> /\ ~Gathering'
        /\ AllVisited' \subseteq AllVisited \cup {Top.node} /\ Top.node \in node_clean
    BY <1>5, ReturnSteps DEF CheckClean
  <2>2. Ordered'
    BY <1>0, <2>1, OrderedKept DEF ForwardInv
  <2> QED BY <2>1, <2>2 DEF ForwardInv, Filled, GatherOrdered
<1>6. CASE Evaluate
  <2>1. PICK top : top = Top.node
    OBVIOUS
  <2>2. /\ UNCHANGED <<cellVars, shared_cells>> /\ top \in Nodes /\ ~Gathering'
        /\ AllVisited' \subseteq AllVisited \cup {top}
        /\ node_clean' \subseteq node_clean \cup {top}
        /\ \A n \in Nodes : n # top => buffers'[n] = buffers[n]
        /\ GatherDone /\ Gathering /\ buffers'[top] = input_scratch
        /\ \A s : Brought(s) <=> s \in Provenance[top]
    BY <1>6, <2>1, ReturnSteps
  <2>3. /\ DOMAIN Wiring[top] = 1 .. Len(Wiring[top]) /\ Len(Wiring[top]) \in Nat
        /\ Provenance[top] \subseteq Slots
    BY <2>2, Wired, ProvenanceSlots
  <2>4. \A i \in DOMAIN Wiring[top] : i < Top.next
    BY <2>1, <2>2, <2>3, TopFrame DEF GatherDone
  <2>5. ASSUME NEW s \in Slots, shared_cells[s] # NoCell, NEW i \in DOMAIN Wiring[top],
               s \in Carried(Wiring[top][i]), NEW v \in input_scratch[s]
        PROVE  /\ \A new \in Supply(Wiring[top][i], s) : v <= new
               /\ \A old \in buffers[top][s] : old <= v
               /\ \A v2 \in input_scratch[s] : v = v2
    BY <2>1, <2>2, <2>4, <2>5 DEF ForwardInv, GatherOrdered
  <2>6. ASSUME NEW s \in Slots, input_scratch[s] # {}
        PROVE  \E i \in DOMAIN Wiring[top] : s \in Carried(Wiring[top][i])
    BY <2>1, <2>2, <2>6 DEF NoStrays, Brought
  <2>7. ASSUME NEW n \in Nodes, NEW i \in DOMAIN Wiring[n], Wiring[n][i] \in Nodes
        PROVE  Wiring[n][i] # n /\ Wiring[n][i] \notin Slots
    <3>1. Wiring[n][i] \in Sources(n)
      BY <2>7 DEF Sources, ToSet
    <3>2. Wiring[n][i] \notin Slots
      BY <2>7, SlotsAssumption
    <3>3. Wiring[n][i] < n
      BY <3>1, <3>2, WiringAssumption
    <3> QED BY <2>7, <3>2, <3>3, NodeCountAssumption DEF Nodes
  <2>8. \A m, s : /\ m = top => Supply(m, s)' = IF m \in Slots THEN Supply(m, s) ELSE input_scratch[s]
                  /\ m # top /\ (m \in Slots \/ m \in Nodes) => Supply(m, s)' = Supply(m, s)
    BY <2>2 DEF Supply, cellVars
  <2>9. ASSUME NEW n \in Nodes, NEW i \in DOMAIN Wiring[n]
        PROVE  Wiring[n][i] \in Slots \/ Wiring[n][i] \in Nodes
    BY <2>9, Wired
  <2>10. ASSUME NEW s \in Slots, shared_cells[s] # NoCell, NEW i \in DOMAIN Wiring[top],
                s \in Carried(Wiring[top][i])
         PROVE  /\ input_scratch[s] # {} => Supply(Wiring[top][i], s)' # {}
                /\ \A old \in input_scratch[s], new \in Supply(Wiring[top][i], s)' : old <= new
    <3>1. Wiring[top][i] # top
      BY <2>2, <2>7
    <3>2. Supply(Wiring[top][i], s)' = Supply(Wiring[top][i], s)
      BY <2>2, <2>8, <2>9, <3>1
    <3>3. Supply(Wiring[top][i], s) # {}
      <4>1. CASE Wiring[top][i] \in Slots
        BY <4>1 DEF Supply
      <4>2. CASE Wiring[top][i] \notin Slots
        <5>1. Wiring[top][i] \in Nodes
          BY <2>2, <2>9, <4>2
        <5>2. Wiring[top][i] \in Visited(1)
          BY <2>1, <2>2, <5>1, TopFrame DEF Visited, Passed, Read, Gathering
        <5>3. Wiring[top][i] \in AllVisited
          BY <2>2, <5>2, TopFrame DEF AllVisited, Gathering
        <5> QED BY <2>10, <4>2, <5>3 DEF ForwardInv, Filled, Carried, Supply
      <4> QED BY <4>1, <4>2
    <3> QED BY <2>5, <2>10, <3>2, <3>3
  <2>11. ASSUME NEW n \in Nodes, n # top, NEW s \in Slots, shared_cells[s] # NoCell,
                NEW i \in DOMAIN Wiring[n], s \in Carried(Wiring[n][i])
         PROVE  /\ buffers[n][s] # {} => Supply(Wiring[n][i], s)' # {}
                /\ \A old \in buffers[n][s], new \in Supply(Wiring[n][i], s)' : old <= new
    <3>1. /\ buffers[n][s] # {} => Supply(Wiring[n][i], s) # {}
          /\ \A old \in buffers[n][s], new \in Supply(Wiring[n][i], s) : old <= new
      BY <2>11 DEF ForwardInv, Ordered
    <3>2. CASE Wiring[n][i] # top
      BY <2>8, <2>9, <3>1, <3>2
    <3>3. CASE Wiring[n][i] = top
      <4>1. Wiring[n][i] \notin Slots
        BY <2>2, <2>7, <3>3
      <4>2. s \in Provenance[top] /\ Supply(top, s) = buffers[top][s] /\ Supply(top, s)' = input_scratch[s]
        BY <2>8, <2>11, <3>3, <4>1 DEF Carried, Supply
      <4>3. input_scratch[s] # {}
        BY <2>2, <4>2 DEF ForwardInv, Filled
      <4>4. PICK j \in DOMAIN Wiring[top] : s \in Carried(Wiring[top][j])
        BY <2>6, <4>3
      <4>5. ASSUME NEW old \in buffers[n][s], NEW new \in input_scratch[s] PROVE old <= new
        <5>1. PICK x \in buffers[top][s] : old <= x
          BY <3>1, <3>3, <4>2, <4>5
        <5>2. x <= new
          BY <2>5, <2>11, <4>4, <4>5, <5>1
        <5>3. old \in Nat /\ x \in Nat /\ new \in Nat
          BY <2>2 DEF TypeOK
        <5> QED BY <5>1, <5>2, <5>3
      <4> QED BY <3>3, <4>2, <4>3, <4>5
    <3> QED BY <3>2, <3>3
  <2>12. Ordered'
    <3> SUFFICES ASSUME NEW n \in Nodes, NEW s \in Slots, shared_cells'[s] # NoCell
                 PROVE  /\ \A v, v2 \in buffers'[n][s] : v = v2
                        /\ \A i \in DOMAIN Wiring[n] : s \in Carried(Wiring[n][i]) =>
                             /\ buffers'[n][s] # {} => Supply(Wiring[n][i], s)' # {}
                             /\ \A old \in buffers'[n][s], new \in Supply(Wiring[n][i], s)' : old <= new
      BY DEF Ordered
    <3>1. CASE n = top
      <4>1. \A v, v2 \in input_scratch[s] : v = v2
        BY <2>2, <2>5, <2>6
      <4> QED BY <2>2, <2>10, <3>1, <4>1
    <3>2. CASE n # top
      <4>1. \A v, v2 \in buffers[n][s] : v = v2
        BY <2>2 DEF ForwardInv, Ordered
      <4> QED BY <2>2, <2>11, <3>2, <4>1
    <3> QED BY <3>1, <3>2
  <2>13. Filled'
    <3>1. \A s \in Provenance[top] : buffers'[top][s] # {}
      BY <2>2, <2>3 DEF ForwardInv, Filled
    <3> QED BY <1>0, <2>2, <3>1 DEF ForwardInv, Filled
  <2> QED BY <2>2, <2>12, <2>13 DEF ForwardInv, GatherOrdered
<1> QED BY <1>1, <1>2, <1>3, <1>4, <1>5, <1>6, StepCases

\* A step replaces no value of a cell by an earlier one.
LEMMA StepsMoveForward ==
    ASSUME BindInv, WalkInv, ForwardInv, [Next]_vars
    PROVE  \A n \in Nodes, s \in Slots :
             shared_cells[s] # NoCell /\ shared_cells'[s] = shared_cells[s] =>
               \A old \in buffers[n][s], new \in buffers'[n][s] : new >= old
<1> USE DEF WalkInv
<1> SUFFICES ASSUME NEW n \in Nodes, NEW s \in Slots, shared_cells[s] # NoCell,
                    NEW old \in buffers[n][s], NEW new \in buffers'[n][s]
             PROVE  new >= old
  OBVIOUS
<1>1. old \in Nat
  BY DEF TypeOK
<1>2. CASE buffers'[n] = buffers[n]
  BY <1>1, <1>2 DEF ForwardInv, Ordered
<1>3. CASE Evaluate /\ n = Top.node
  <2>1. /\ GatherDone /\ Gathering /\ buffers'[n] = input_scratch
    BY <1>3, ReturnSteps
  <2>2. DOMAIN Wiring[n] = 1 .. Len(Wiring[n]) /\ Len(Wiring[n]) \in Nat
    BY Wired
  <2>3. \A i \in DOMAIN Wiring[n] : i < Top.next
    BY <1>3, <2>1, <2>2, TopFrame DEF GatherDone
  <2>4. PICK i \in DOMAIN Wiring[n] : i < Top.next /\ s \in Carried(Wiring[n][i])
    BY <1>3, <2>1 DEF NoStrays, Brought
  <2>5. old <= new
    BY <1>3, <2>1, <2>4 DEF ForwardInv, GatherOrdered
  <2>6. new \in Nat
    BY <2>1 DEF TypeOK
  <2> QED BY <1>1, <2>5, <2>6
<1>4. CASE Evaluate /\ n # Top.node
  BY <1>2, <1>4, ReturnSteps
<1>5. CASE ~Evaluate
  <2>1. UNCHANGED buffers
    BY <1>5, StepCases, HostSteps, SearchSteps, GatherSource DEF kernelVars, CheckClean
  <2> QED BY <1>2, <2>1
<1> QED BY <1>3, <1>4, <1>5

\* Memoization never takes a kernel back in time: for every program in which a
\* cell-bound slot reaches a node along one path and no slot is bound anew, what
\* a node is recomputed from is at least as new as what it was computed from.
THEOREM MemoMovesForward ==
    ASSUME OnePath, Attachable = {}
    PROVE  Spec => BuffersMoveForward
<1>1. CellTypeOK' /\ BindInv /\ WalkInv /\ ForwardInv /\ [Next]_vars => ForwardInv'
  BY ForwardNext
<1>2. BindInv /\ WalkInv /\ ForwardInv /\ [Next]_vars =>
        [\A n \in Nodes, s \in Slots :
           shared_cells[s] # NoCell /\ shared_cells'[s] = shared_cells[s] =>
             \A old \in buffers[n][s], new \in buffers'[n][s] : new >= old]_vars
  BY StepsMoveForward
<1> QED BY <1>1, <1>2, ForwardInit, Bound, Walked, PTL DEF Spec, BuffersMoveForward

=============================================================================
