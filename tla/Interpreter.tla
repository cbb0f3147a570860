---------------------------- MODULE Interpreter ----------------------------
(***************************************************************************)
(* The interpreter's kernel state (`EngineCore` and `PolydatState`,        *)
(* kernel/engines.rs) on one fiber, while other fibers publish to the      *)
(* cells its input slots are bound to.                                     *)
(*                                                                         *)
(* A read walks the cone of the pulled node by recursion (`eval_node`).    *)
(* The walk is a stack of frames here, one action for each access to       *)
(* shared memory, so a publish can fall between any two of them.           *)
(*                                                                         *)
(* The value in a node's buffer is represented by what it was computed     *)
(* from: buffers[n][s] is the set of values of slot s that went into it,   *)
(* one value unless the slot reached the node along two paths that read    *)
(* it at different times.                                                  *)
(***************************************************************************)
EXTENDS SharedCells, Program

CONSTANTS
    NoCell,           \* the register of a slot bound to no cell
    Binding,          \* Binding[s]: the cell slot s is bound to at the start
    Attachable,       \* the <<slot, cell>> pairs a host attaches later
    Coordinates,      \* the slots `set_inputs` writes; never cell-bound
    InputValues,      \* what a host writes to a local slot; 0 is the default
    Outputs,          \* the nodes the host pulls
    FailingNodes,     \* the nodes whose evaluation may panic
    Self,             \* this kernel's fiber, as a publisher
    Interleaved       \* whether other fibers run during a read

ASSUME SelfAssumption == Self \in Writers
ASSUME BindingAssumption ==
    /\ Binding \in [Slots -> Cells \cup {NoCell}]
    /\ Attachable \subseteq (Slots \X Cells)
    /\ NoCell \notin Cells
    /\ Coordinates \subseteq {s \in Slots : Binding[s] = NoCell}
    /\ \A pair \in Attachable : pair[1] \notin Coordinates
ASSUME InputValuesAssumption == InputValues \subseteq Nat /\ 0 \in InputValues
ASSUME OutputsAssumption == Outputs \subseteq Nodes /\ FailingNodes \subseteq Nodes
ASSUME InterleavedAssumption == Interleaved \in BOOLEAN

VARIABLES
    inputs,           \* the local registers
    shared_cells,     \* the cell each slot is bound to, or NoCell
    node_clean,       \* the memoized nodes
    buffers,          \* buffers[n][s]: the values of s in n's buffer
    last_seen,        \* the revision last observed of each cell
    stack,            \* the frames of the read in progress, innermost first
    scan,             \* the cell check of the innermost frame
    input_scratch,    \* the inputs gathered for the innermost frame
    answer,           \* the last read's output, until the host's next call
    due               \* history: completed publishes when that read began

kernelVars == <<inputs, shared_cells, node_clean, buffers, last_seen,
                stack, scan, input_scratch, answer, due>>
vars == <<cellVars, kernelVars>>

NoScan == [words |-> {}, pending |-> {}, moved |-> {}]
NoAnswer == [node |-> 0]
Blank == [s \in Slots |-> {}]

Top == Head(stack)
Frame(n, stage, next) == [node |-> n, stage |-> stage, next |-> next]
Goto(stage, next) == stack' = <<Frame(Top.node, stage, next)>> \o Tail(stack)

\* The host's thread is in no call, neither a read nor a publish; a host with
\* one thread for all its kernels is in no other kernel's publish either.
HostIdle ==
    /\ stack = <<>> /\ ~InPublish(Self)
    /\ Interleaved \/ \A w \in Writers : ~InPublish(w)

\* `build_cell_cone`: the cell-bound slots of n's provenance, by word.
CellSlots(n) == {s \in Provenance[n] : shared_cells[s] # NoCell}

\* Mutant of ConeWords: only the first intent word of the cone is checked.
FirstConeWord(n) == IF CellSlots(n) = {} THEN {}
                    ELSE {CHOOSE w \in {Word[shared_cells[s]] : s \in CellSlots(n)} : TRUE}

ConeWords(n) == {Word[shared_cells[s]] : s \in CellSlots(n)}

Dirty(slots) == {n \in Nodes : Provenance[n] \cap slots # {}}
Invalidate(nodes) == node_clean' = node_clean \ nodes

KernelInit ==
    /\ inputs = [s \in Slots |-> 0]
    /\ shared_cells = Binding
    /\ node_clean = {}
    /\ buffers = [n \in Nodes |-> Blank]
    /\ last_seen = [c \in Cells |-> 0]
    /\ stack = <<>>
    /\ scan = NoScan
    /\ input_scratch = Blank
    /\ answer = NoAnswer
    /\ due = [c \in Cells |-> 0]

Init == CellInit /\ KernelInit

-----------------------------------------------------------------------------
(* The walk of one read.                                                   *)

\* Return from the innermost `eval_node` with n's buffer holding `held`; the
\* outermost return is the answer of the read.
Return(held) ==
    /\ stack' = Tail(stack)
    /\ answer' = IF Len(stack) = 1 THEN [node |-> Top.node, got |-> held] ELSE answer

\* `pull`, `pull_by_index`: a read re-arms every volatile node, then walks.
BeginPull(out) ==
    /\ HostIdle
    /\ node_clean' = node_clean \ NondetNodes
    /\ stack' = <<Frame(out, "visit", 1)>>
    /\ answer' = NoAnswer
    /\ due' = completed
    /\ UNCHANGED <<cellVars, inputs, shared_cells, buffers, last_seen, scan, input_scratch>>

\* Enter `eval_node`: a memoized node goes to `check_cell_clean`, any other to
\* its upstream nodes.
Visit ==
    /\ stack # <<>> /\ Top.stage = "visit"
    /\ IF Top.node \in node_clean
         THEN /\ Goto("check", 1)
              /\ scan' = [words |-> ConeWords(Top.node), pending |-> {}, moved |-> {}]
         ELSE Goto("upstream", 1) /\ UNCHANGED scan
    /\ UNCHANGED <<cellVars, inputs, shared_cells, node_clean, buffers, last_seen,
                   input_scratch, answer, due>>

\* Pass 1: load one intent word; only the cells whose bit is set are looked at.
LoadIntent ==
    /\ stack # <<>> /\ Top.stage = "check" /\ scan.pending = {}
    /\ \E w \in scan.words :
         scan' = [scan EXCEPT
           !.words = @ \ {w},
           !.pending = {s \in CellSlots(Top.node) :
                          Word[shared_cells[s]] = w /\ shared_cells[s] \in intent}]
    /\ UNCHANGED <<cellVars, inputs, shared_cells, node_clean, buffers, last_seen, stack,
                   input_scratch, answer, due>>

\* Pass 1: load one cell's revision and compare it with the last one seen.
LoadRevision ==
    /\ stack # <<>> /\ Top.stage = "check"
    /\ \E s \in scan.pending :
         LET c == shared_cells[s] IN
         scan' = [scan EXCEPT
           !.pending = @ \ {s},
           !.moved = IF revision[c] # last_seen[c] THEN @ \cup {<<s, revision[c]>>} ELSE @]
    /\ UNCHANGED <<cellVars, inputs, shared_cells, node_clean, buffers, last_seen, stack,
                   input_scratch, answer, due>>

CheckDone == /\ stack # <<>> /\ Top.stage = "check"
             /\ scan.words = {} /\ scan.pending = {}

\* Every cell of the cone is at the revision last seen: a memoization hit.
CheckClean ==
    /\ CheckDone /\ scan.moved = {}
    /\ Return(buffers[Top.node])
    /\ UNCHANGED <<cellVars, inputs, shared_cells, node_clean, buffers, last_seen, scan,
                   input_scratch, due>>

\* Mutant of CheckInvalidates: a moved cell invalidates the checked node alone.
InvalidatesNodeAlone(n, slots) == {n}

\* What pass 2 invalidates: every node a moved slot reaches.
CheckInvalidates(n, slots) == Dirty(slots) \cup {n}

\* Pass 2: consume the moved revisions and invalidate what they reach, then
\* evaluate the node.
CheckMoved ==
    /\ CheckDone /\ scan.moved # {}
    /\ last_seen' = [c \in Cells |->
         IF \E m \in scan.moved : shared_cells[m[1]] = c
           THEN (CHOOSE m \in scan.moved : shared_cells[m[1]] = c)[2]
           ELSE last_seen[c]]
    /\ Invalidate(CheckInvalidates(Top.node, {m[1] : m \in scan.moved}))
    /\ scan' = NoScan
    /\ Goto("upstream", 1)
    /\ UNCHANGED <<cellVars, inputs, shared_cells, buffers, input_scratch, answer, due>>

\* The reads of the innermost frame's node not yet recursed into.
Ahead == {i \in Top.next .. Len(Wiring[Top.node]) : Wiring[Top.node][i] \in Nodes}

\* Recurse into the next upstream node, in wiring order.
Descend ==
    /\ stack # <<>> /\ Top.stage = "upstream"
    /\ \E i \in Ahead :
         /\ \A j \in Ahead : i <= j
         /\ stack' = <<Frame(Wiring[Top.node][i], "visit", 1),
                       Frame(Top.node, "upstream", i + 1)>> \o Tail(stack)
    /\ UNCHANGED <<cellVars, inputs, shared_cells, node_clean, buffers, last_seen, scan,
                   input_scratch, answer, due>>

\* Mutant of BeginGather: the scratch is not cleared between nodes.
BeginGatherUncleared ==
    /\ stack # <<>> /\ Top.stage = "upstream" /\ Ahead = {}
    /\ Goto("gather", 1)
    /\ UNCHANGED <<cellVars, inputs, shared_cells, node_clean, buffers, last_seen, scan,
                   input_scratch, answer, due>>

BeginGather ==
    /\ stack # <<>> /\ Top.stage = "upstream" /\ Ahead = {}
    /\ Goto("gather", 1)
    /\ input_scratch' = Blank
    /\ UNCHANGED <<cellVars, inputs, shared_cells, node_clean, buffers, last_seen, scan,
                   answer, due>>

\* `read_input`: a cell-bound slot reads its cell, any other its register.
ReadInput(s) == IF shared_cells[s] = NoCell THEN inputs[s] ELSE value[shared_cells[s]]

\* Copy one source into the scratch.
Gather ==
    /\ stack # <<>> /\ Top.stage = "gather" /\ Top.next <= Len(Wiring[Top.node])
    /\ LET src == Wiring[Top.node][Top.next] IN
       input_scratch' =
         IF src \in Slots THEN [input_scratch EXCEPT ![src] = @ \cup {ReadInput(src)}]
                          ELSE [s \in Slots |-> input_scratch[s] \cup buffers[src][s]]
    /\ Goto("gather", Top.next + 1)
    /\ UNCHANGED <<cellVars, inputs, shared_cells, node_clean, buffers, last_seen, scan,
                   answer, due>>

GatherDone == /\ stack # <<>> /\ Top.stage = "gather"
              /\ Top.next > Len(Wiring[Top.node])

\* Evaluate the node (or propagate a `None` among its inputs) and memoize it.
Evaluate ==
    /\ GatherDone
    /\ buffers' = [buffers EXCEPT ![Top.node] = input_scratch]
    /\ node_clean' = node_clean \cup {Top.node}
    /\ Return(input_scratch)
    /\ UNCHANGED <<cellVars, inputs, shared_cells, last_seen, scan, input_scratch, due>>

\* Mutant of EvalPanics: the node is marked clean before it is evaluated.
EvalPanicsClean ==
    /\ GatherDone /\ Top.node \in FailingNodes
    /\ stack' = <<>>
    /\ node_clean' = node_clean \cup {Top.node}
    /\ UNCHANGED <<cellVars, inputs, shared_cells, buffers, last_seen, scan,
                   input_scratch, answer, due>>

\* The node's evaluation panics: it stays not clean, and the panic unwinds
\* through every frame of the read to the host.
EvalPanics ==
    /\ GatherDone /\ Top.node \in FailingNodes
    /\ stack' = <<>>
    /\ UNCHANGED <<cellVars, inputs, shared_cells, node_clean, buffers, last_seen, scan,
                   input_scratch, answer, due>>

WalkStep == Visit \/ LoadIntent \/ LoadRevision \/ CheckClean \/ CheckMoved
            \/ Descend \/ BeginGather \/ Gather \/ Evaluate \/ EvalPanics

-----------------------------------------------------------------------------
(* The host's other calls.                                                 *)

\* `set_inputs`: write every coordinate, changed or not.
SetInputs ==
    /\ HostIdle
    /\ \E coords \in [Coordinates -> InputValues] :
         inputs' = [s \in Slots |-> IF s \in Coordinates THEN coords[s] ELSE inputs[s]]
    /\ Invalidate(Dirty(Coordinates))
    /\ answer' = NoAnswer
    /\ UNCHANGED <<cellVars, shared_cells, buffers, last_seen, stack, scan, input_scratch, due>>

\* `set_input` on a local slot.
SetInput(s) ==
    /\ HostIdle /\ shared_cells[s] = NoCell
    /\ \E v \in InputValues : inputs' = [inputs EXCEPT ![s] = v]
    /\ Invalidate(Dependents(s))
    /\ answer' = NoAnswer
    /\ UNCHANGED <<cellVars, shared_cells, buffers, last_seen, stack, scan, input_scratch, due>>

\* `set_input` on a cell-bound slot: publish, then invalidate.  No one reads
\* node_clean before the publish returns, so the invalidation is put with the
\* publish's first step.
SetCellInput(s) ==
    /\ HostIdle /\ shared_cells[s] # NoCell
    /\ Store(Self, shared_cells[s])
    /\ Invalidate(Dependents(s))
    /\ answer' = NoAnswer
    /\ UNCHANGED <<inputs, shared_cells, buffers, last_seen, stack, scan, input_scratch, due>>

\* `attach_shared_cell`: the cell becomes the slot's register.
AttachSharedCell(s, c) ==
    /\ HostIdle
    /\ shared_cells' = [shared_cells EXCEPT ![s] = c]
    /\ Invalidate(Dependents(s))
    /\ answer' = NoAnswer
    /\ UNCHANGED <<cellVars, inputs, buffers, last_seen, stack, scan, input_scratch, due>>

\* `reset_inputs_from(coord_count)`: the local slots past the coordinates go
\* back to their defaults; a cell-bound slot is left alone.
ResetInputs ==
    LET reset == {s \in Slots \ Coordinates : shared_cells[s] = NoCell /\ inputs[s] # 0} IN
    /\ HostIdle
    /\ inputs' = [s \in Slots |-> IF s \in reset THEN 0 ELSE inputs[s]]
    /\ Invalidate(Dirty(reset))
    /\ answer' = NoAnswer
    /\ UNCHANGED <<cellVars, shared_cells, buffers, last_seen, stack, scan, input_scratch, due>>

InvalidateAll ==
    /\ HostIdle
    /\ node_clean' = {}
    /\ answer' = NoAnswer
    /\ UNCHANGED <<cellVars, inputs, shared_cells, buffers, last_seen, stack, scan,
                   input_scratch, due>>

HostCall ==
    \/ SetInputs
    \/ ResetInputs
    \/ InvalidateAll
    \/ \E s \in Slots : SetInput(s) \/ SetCellInput(s)
    \/ \E pair \in Attachable : AttachSharedCell(pair[1], pair[2])

-----------------------------------------------------------------------------
(* Other fibers, and the specification.                                    *)

\* A host that drives its kernels from one thread publishes only between its
\* reads, and one publish at a time.
MayPublish(w) == Interleaved \/ (stack = <<>> /\ \A v \in Writers \ {w} : ~InPublish(v))

\* Another fiber starts a publish.  (This kernel's own starts in SetCellInput.)
StartPublish(w) ==
    /\ w # Self /\ MayPublish(w)
    /\ \E c \in Cells : Store(w, c)
    /\ UNCHANGED kernelVars

\* A fiber inside a publish takes its next step.
FinishPublish(w) ==
    /\ MayPublish(w)
    /\ Bump(w) \/ Mark(w)
    /\ UNCHANGED kernelVars

Next ==
    \/ WalkStep
    \/ HostCall
    \/ \E out \in Outputs : BeginPull(out)
    \/ \E w \in Writers : StartPublish(w) \/ FinishPublish(w)

Spec == Init /\ [][Next]_vars

\* A thread in a call keeps running, and the host keeps pulling each output.
Fairness ==
    /\ WF_vars(WalkStep)
    /\ \A w \in Writers : WF_vars(FinishPublish(w))
    /\ \A out \in Outputs : WF_vars(BeginPull(out))

FairSpec == Spec /\ Fairness

-----------------------------------------------------------------------------

Stages == {"visit", "check", "upstream", "gather"}

\* The type invariant.
TypeOK ==
    /\ CellTypeOK
    /\ inputs \in [Slots -> Nat]
    /\ shared_cells \in [Slots -> Cells \cup {NoCell}]
    /\ node_clean \in SUBSET Nodes
    /\ buffers \in [Nodes -> [Slots -> SUBSET Nat]]
    /\ last_seen \in [Cells -> Nat]
    /\ stack \in Seq([node : Nodes, stage : Stages, next : Nat])
    /\ scan.pending \subseteq Slots
    /\ scan.moved \subseteq (Slots \X Nat)
    /\ input_scratch \in [Slots -> SUBSET Nat]
    /\ answer = NoAnswer \/ answer \in [node : Nodes, got : [Slots -> SUBSET Nat]]
    /\ due \in [Cells -> Nat]

Answered == answer # NoAnswer

\* cross_fiber_invalidation.md, the contract: a write whose publish returned
\* before a read began is observed by that read.  For every cell in the
\* provenance of the node read, no value older than that write went into the
\* answer, by whichever path the cell reaches the node.
ReadsSeeCompletedWrites ==
    Answered => \A s \in Provenance[answer.node] :
                  shared_cells[s] # NoCell =>
                    \A v \in answer.got[s] : v >= due[shared_cells[s]]

\* A read is computed from the host's latest write to every local slot that
\* reaches the node, and from nothing else: whatever was memoized, reset,
\* invalidated or abandoned by a panic in between.
ReadsSeeLocalWrites ==
    Answered => \A s \in Provenance[answer.node] :
                  shared_cells[s] = NoCell => answer.got[s] = {inputs[s]}

\* Staleness is always detectable: a memoized node computed from a value older
\* than a completed write keeps what the check needs to find out, the cell's
\* bit and a revision this kernel has not consumed yet.  Consuming a revision
\* without invalidating everything it reaches would lose the write for good.
StaleIsDetectable ==
    \A n \in node_clean : \A s \in CellSlots(n) :
        LET c == shared_cells[s] IN
        (\E v \in buffers[n][s] : v < completed[c]) =>
            c \in intent /\ revision[c] # last_seen[c]

\* Memoization never takes a kernel back in time: what a node is recomputed
\* from is at least as new as what it was computed from before.
BuffersMoveForward ==
    [][\A n \in Nodes, s \in Slots :
         shared_cells[s] # NoCell /\ shared_cells'[s] = shared_cells[s] =>
           \A old \in buffers[n][s], new \in buffers'[n][s] : new >= old]_vars

\* Once the writes stop, a host that keeps pulling ends up reading the last of
\* them: no kernel is left with a memoized value nothing will refresh.
ReadsConverge ==
    <>[](Answered => \A s \in Provenance[answer.node] :
                       shared_cells[s] # NoCell =>
                         answer.got[s] = {value[shared_cells[s]]})

=============================================================================
