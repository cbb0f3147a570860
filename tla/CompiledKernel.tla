--------------------------- MODULE CompiledKernel ---------------------------
(***************************************************************************)
(* The compiled kernels' state (`KernelCore`: the closure tier in          *)
(* compile/closures.rs, the bookkeeping every compiled engine shares in    *)
(* compile/mod.rs, the extern table in compile/externs.rs) on one fiber,   *)
(* while other fibers publish to the cells its externs are bound to.       *)
(*                                                                         *)
(* A kernel keeps a flat buffer: a register per input slot and the output  *)
(* of every step.  A write marks the kernel `stale`; the first read after  *)
(* it begins an evaluation round.  What a read recomputes depends on the   *)
(* provenance mode; the modes are meant to differ in nothing else.         *)
(*                                                                         *)
(* As in Interpreter, a step's output is represented by the values of each *)
(* input slot that went into it.  Running the steps of one read touches    *)
(* only this kernel's state and is one action; taking the cells' values is *)
(* one action for each access to shared memory.                            *)
(***************************************************************************)
EXTENDS SharedCells, Program, Integers

CONSTANTS
    NoCell,           \* the cell of an input bound to no cell
    Binding,          \* Binding[s]: the cell slot s is bound to at the start
    Attachable,       \* the <<slot, cell>> pairs attached later
    Coordinates,      \* the coordinate slots; the other slots are externs
    InputValues,      \* what a host writes to a local slot; 0 is the default
    Builds,           \* the kernels to run: a provenance mode, and the call
                      \* surfaces (`Kernel`, `SlotKernel`) their host uses
    SideSteps,        \* the side channels among the steps
    FailingSteps,     \* the steps whose evaluation may panic
    Outputs,          \* the steps a host reads
    AnyNone,          \* whether some extern is unset (`any_none`)
    CellWrites,       \* whether the host writes cell-bound externs
    Self,             \* this kernel's fiber, as a publisher
    Interleaved       \* whether other fibers run during its calls

ASSUME SelfAssumption == Self \in Writers
ASSUME BindingAssumption ==
    /\ Binding \in [Slots -> Cells \cup {NoCell}]
    /\ Attachable \subseteq (Slots \X Cells)
    /\ NoCell \notin Cells
    /\ Coordinates \subseteq {s \in Slots : Binding[s] = NoCell}
    /\ \A pair \in Attachable : pair[1] \notin Coordinates
ASSUME InputValuesAssumption == InputValues \subseteq Nat /\ 0 \in InputValues
ASSUME StepsAssumption ==
    SideSteps \subseteq Nodes /\ FailingSteps \subseteq Nodes /\ Outputs \subseteq Nodes
ASSUME BuildsAssumption ==
    Builds \subseteq {"Raw", "Push", "Pull", "PushPull"} \X SUBSET {"Kernel", "SlotKernel"}
ASSUME FlagsAssumption == {AnyNone, CellWrites, Interleaved} \subseteq BOOLEAN

VARIABLES
    mode,             \* the provenance mode the kernel was built with
    surfaces,         \* the call surfaces its host uses
    cell,             \* the cell of each slot, or NoCell
    seen,             \* the revision a slot last took its value from
    regs,             \* the registers of the input slots
    outs,             \* outs[i][s]: the values of s in step i's output
    coords,           \* `drive.coords`: the coordinates set through the trait
    stale,            \* `drive.stale`: a write since the last round began
    ran,              \* the steps that ran in the round (ran[i] = epoch)
    all_ran,          \* a full evaluation happened in the round
    clean,            \* the steps marked current
    changed,          \* `changed_mask` of the cone guard
    force_run,        \* an extern changed: the cone guard must not skip
    call,             \* the host's call in progress
    todo,             \* the slots its poll or refresh has left
    fetched,          \* the slots its refresh changed
    answer,           \* what the last read returned, until the host's next call
    wanted,           \* history: the host's latest value for each local slot
    due,              \* history: completed publishes when the read began
    owed,             \* history: the steps with a write upstream since they last ran
    torn              \* history: the slots whose value and revision were loaded on
                      \* two sides of a publish

kernelVars == <<mode, surfaces, cell, seen, regs, outs, coords, stale, ran, all_ran, clean, changed,
                force_run, call, todo, fetched, answer, wanted, due, owed>>
vars == <<cellVars, kernelVars, torn>>

build == <<mode, surfaces>>

Unseen == -1
NoCall == [phase |-> "idle"]
NoCoords == [s \in {} |-> 0]

\* An answer is the outputs returned and the side channels that fired.
NoAnswer == [outputs |-> [i \in {} |-> 0], fired |-> {}]
Returned(out, fired) == [outputs |-> [i \in out |-> outs'[i]], fired |-> fired]

HostIdle == /\ call = NoCall /\ ~InPublish(Self)
            /\ Interleaved \/ \A w \in Writers : ~InPublish(w)

CellSlots == {s \in Slots : cell[s] # NoCell}

\* The modes that skip a current step, and the modes with the cone guard.
UseClean == mode \in {"Push", "PushPull"}
ConeGuard == mode \in {"Pull", "PushPull"}

Reached(slots) == {i \in Nodes : Provenance[i] \cap slots # {}}

\* Mutant of DirtySteps: a write marks the readers of the slot, not the steps
\* downstream of them.
DirectReaders(slots) == {i \in Nodes : Sources(i) \cap slots # {}}

\* `dirty`: what a write marks not current in this mode.  A mode that never
\* consults a pure step's currency marks the side channels alone.
DirtySteps(slots) == IF UseClean THEN Reached(slots) ELSE Reached(slots) \cap SideSteps

\* `plan.cones`: the steps an output needs.
Cone(out) == LET reach[i \in Nodes] == {i} \cup UNION {reach[u] : u \in Upstream(i)}
             IN reach[out]

KernelInit ==
    /\ \E b \in Builds : mode = b[1] /\ surfaces = b[2]
    /\ cell = Binding
    /\ seen = [s \in Slots |-> IF Binding[s] = NoCell THEN Unseen ELSE 0]
    /\ regs = [s \in Slots |-> 0]
    /\ outs = [i \in Nodes |-> [s \in Slots |-> {}]]
    /\ coords = NoCoords
    /\ stale = TRUE
    /\ ran = {} /\ all_ran = FALSE
    \* build_core folds the constants, once
    /\ clean = {i \in Nodes : Provenance[i] = {} /\ i \notin NondetNodes}
    /\ changed = Slots
    /\ force_run = FALSE
    /\ call = NoCall /\ todo = {} /\ fetched = {}
    /\ answer = NoAnswer
    /\ wanted = [s \in Slots |-> 0]
    /\ due = [c \in Cells |-> 0]
    /\ owed = Nodes \ clean
    /\ torn = {}

Init == CellInit /\ KernelInit

-----------------------------------------------------------------------------
(* Writes.                                                                 *)

\* What every write to some slots leaves behind for the next evaluation.
MarkDirty(slots) ==
    /\ clean' = clean \ DirtySteps(slots)
    /\ owed' = owed \cup Reached(slots)

\* An extern changed: a new round, which no cone guard may skip.
ExternWritten(slots) ==
    /\ MarkDirty(slots)
    /\ stale' = TRUE
    /\ force_run' = (force_run \/ ConeGuard)

\* `Kernel::set_inputs`: the coordinates are kept for the next read.
SetInputs ==
    /\ "Kernel" \in surfaces /\ HostIdle
    /\ coords' \in [Coordinates -> InputValues]
    /\ wanted' = [s \in Slots |-> IF s \in Coordinates THEN coords'[s] ELSE wanted[s]]
    /\ stale' = TRUE
    /\ answer' = NoAnswer
    /\ UNCHANGED <<cellVars, build, cell, seen, regs, outs, ran, all_ran, clean, changed,
                   force_run, call, todo, fetched, due, owed, torn>>

\* `set_input` on a local extern: written through now.
SetInput(s) ==
    /\ HostIdle /\ s \notin Coordinates /\ cell[s] = NoCell
    /\ \E v \in InputValues :
         /\ regs' = [regs EXCEPT ![s] = v]
         /\ wanted' = [wanted EXCEPT ![s] = v]
    /\ ExternWritten({s})
    /\ answer' = NoAnswer
    /\ UNCHANGED <<cellVars, build, cell, seen, outs, coords, ran, all_ran, changed, call,
                   todo, fetched, due, torn>>

\* `set_input` of a name or a value the extern table refuses: a round is pending
\* all the same.
RefusedWrite ==
    /\ HostIdle
    /\ stale' = TRUE
    /\ answer' = NoAnswer
    /\ UNCHANGED <<cellVars, build, cell, seen, regs, outs, coords, ran, all_ran, clean, changed,
                   force_run, call, todo, fetched, wanted, due, owed, torn>>

\* `set_input` on a cell-bound extern: the publish begins.
SetCellInput(s) ==
    /\ CellWrites /\ HostIdle /\ cell[s] # NoCell
    /\ Store(Self, cell[s])
    /\ call' = [phase |-> "own", slot |-> s, stamp |-> value'[cell[s]]]
    /\ torn' = torn \ {s}
    /\ answer' = NoAnswer
    /\ UNCHANGED <<build, cell, seen, regs, outs, coords, stale, ran, all_ran, clean, changed,
                   force_run, todo, fetched, wanted, due, owed>>

\* Mutant of TakeOwnRevision: the write does not reach the register.
TakeRevisionAlone ==
    /\ call.phase = "own" /\ ~InPublish(Self)
    /\ seen' = [seen EXCEPT ![call.slot] = revision[cell[call.slot]]]
    /\ ExternWritten({call.slot})
    /\ call' = NoCall
    /\ UNCHANGED <<cellVars, build, cell, regs, outs, coords, ran, all_ran, changed, todo,
                   fetched, answer, wanted, due, torn>>

\* The publish has returned: the revision loaded now is taken as this kernel's
\* own, and the value it wrote is written through.
TakeOwnRevision ==
    /\ call.phase = "own" /\ ~InPublish(Self)
    /\ seen' = [seen EXCEPT ![call.slot] = revision[cell[call.slot]]]
    /\ regs' = [regs EXCEPT ![call.slot] = call.stamp]
    /\ ExternWritten({call.slot})
    /\ call' = NoCall
    /\ UNCHANGED <<cellVars, build, cell, outs, coords, ran, all_ran, changed, todo, fetched,
                   answer, wanted, due, torn>>

\* `attach_shared_cell`: a slot that has a cell takes another one.
AttachSharedCell(s, c) ==
    /\ HostIdle /\ cell[s] # NoCell
    /\ cell' = [cell EXCEPT ![s] = c]
    /\ seen' = [seen EXCEPT ![s] = Unseen]
    /\ torn' = torn \ {s}
    /\ wanted' = [wanted EXCEPT ![s] = 0]
    /\ MarkDirty({s})
    /\ stale' = TRUE
    /\ answer' = NoAnswer
    /\ UNCHANGED <<cellVars, build, regs, outs, coords, ran, all_ran, changed, force_run, call,
                   todo, fetched, due>>

\* `bind_input_cell`: the binder's attach, to any extern, and no new round.
BindInputCell(s, c) ==
    /\ HostIdle
    /\ cell' = [cell EXCEPT ![s] = c]
    /\ seen' = [seen EXCEPT ![s] = Unseen]
    /\ torn' = torn \ {s}
    /\ wanted' = [wanted EXCEPT ![s] = 0]
    /\ MarkDirty({s})
    /\ answer' = NoAnswer
    /\ UNCHANGED <<cellVars, build, regs, outs, coords, stale, ran, all_ran, changed, force_run,
                   call, todo, fetched, due>>

\* `reset_inputs`: the local externs go back to their defaults.
ResetInputs ==
    LET reset == {s \in Slots \ Coordinates : cell[s] = NoCell /\ regs[s] # 0} IN
    /\ HostIdle /\ reset # {}
    /\ regs' = [s \in Slots |-> IF s \in reset THEN 0 ELSE regs[s]]
    /\ wanted' = [s \in Slots |-> IF s \in reset THEN 0 ELSE wanted[s]]
    /\ ExternWritten(reset)
    /\ answer' = NoAnswer
    /\ UNCHANGED <<cellVars, build, cell, seen, outs, coords, ran, all_ran, changed, call, todo,
                   fetched, due, torn>>

InvalidateAll ==
    /\ HostIdle
    /\ clean' = {} /\ all_ran' = FALSE /\ stale' = TRUE
    /\ force_run' = (force_run \/ ConeGuard)
    /\ owed' = Nodes
    /\ answer' = NoAnswer
    /\ UNCHANGED <<cellVars, build, cell, seen, regs, outs, coords, ran, changed, call, todo,
                   fetched, wanted, due, torn>>

HostWrite ==
    \/ SetInputs \/ ResetInputs \/ InvalidateAll \/ RefusedWrite
    \/ \E s \in Slots : SetInput(s) \/ SetCellInput(s)
    \/ \E pair \in Attachable : AttachSharedCell(pair[1], pair[2]) \/ BindInputCell(pair[1], pair[2])

-----------------------------------------------------------------------------
(* Reads: apply the coordinates, poll the cells, refresh, run.             *)

\* `set_coords`: only a coordinate that changed dirties anything.
WriteCoords(f) ==
    LET moved == {s \in DOMAIN f : f[s] # regs[s]} IN
    /\ regs' = [s \in Slots |-> IF s \in moved THEN f[s] ELSE regs[s]]
    /\ changed' = moved
    /\ MarkDirty(moved)

Poll(do, out) ==
    /\ call' = [phase |-> "poll", do |-> do, out |-> out]
    /\ todo' = CellSlots
    /\ fetched' = {}
    /\ answer' = NoAnswer
    /\ due' = completed

\* `pull`: the kept coordinates first, if a write is pending.
Pull(out) ==
    /\ "Kernel" \in surfaces /\ HostIdle
    /\ IF stale THEN WriteCoords(coords) ELSE UNCHANGED <<regs, changed, clean, owed>>
    /\ Poll("cone", out)
    /\ UNCHANGED <<cellVars, build, cell, seen, outs, coords, stale, ran, all_ran, force_run,
                   wanted, torn>>

\* `eval(coords)`: a new round over every step.
BeginEval(f, do) ==
    /\ WriteCoords(f)
    /\ stale' = TRUE
    /\ force_run' = FALSE
    /\ Poll(do, 0)
    /\ UNCHANGED <<cellVars, build, cell, seen, outs, coords, ran, all_ran, torn>>

\* `Kernel::eval`: evaluate for the kept coordinates.
Eval ==
    /\ "Kernel" \in surfaces /\ HostIdle
    /\ BeginEval(coords, "eval")
    /\ UNCHANGED wanted

WantCoords(f) ==
    wanted' = [s \in Slots |-> IF s \in Coordinates THEN f[s] ELSE wanted[s]]

\* The concrete kernels' `eval(coords)`, which `Kernel::set_inputs` is not told of.
EvalAt ==
    /\ "SlotKernel" \in surfaces /\ HostIdle
    /\ \E f \in [Coordinates -> InputValues] : BeginEval(f, "eval_at") /\ WantCoords(f)

\* `eval_for_slot`: unless the cone guard finds that no changed coordinate
\* reaches the output, and then its register is the answer as it stands.
GuardSkips(out, moved) == ConeGuard /\ ~force_run /\ Provenance[out] \cap moved = {}

EvalForSlot(out) ==
    /\ "SlotKernel" \in surfaces /\ HostIdle
    /\ \E f \in [Coordinates -> InputValues] :
         /\ WantCoords(f)
         /\ IF GuardSkips(out, {s \in Coordinates : f[s] # regs[s]})
              THEN /\ WriteCoords(f)
                   /\ due' = completed
                   /\ outs' = outs
                   /\ answer' = Returned({out}, {})
                   /\ UNCHANGED <<cellVars, build, cell, seen, coords, stale, ran, all_ran,
                                  force_run, call, todo, fetched, torn>>
              ELSE BeginEval(f, "eval_at")

ReadVars == <<cellVars, build, cell, regs, outs, coords, stale, ran, all_ran, clean, changed,
              force_run, answer, wanted, due, torn>>

\* `cells_dirty`: one revision load a cell, until one differs.
PollCell ==
    /\ call.phase = "poll"
    /\ \E s \in todo :
         IF revision[cell[s]] = seen[s]
           THEN todo' = todo \ {s} /\ UNCHANGED call
           ELSE todo' = CellSlots /\ call' = [call EXCEPT !.phase = "refresh"]
    /\ UNCHANGED <<ReadVars, seen, fetched, owed>>

\* `refresh_cells`, one slot: skip it if its cell's revision is the one seen.
RefreshCell ==
    /\ call.phase = "refresh"
    /\ \E s \in todo :
         /\ todo' = todo \ {s}
         /\ call' = IF revision[cell[s]] = seen[s] THEN call
                    ELSE [phase |-> "take", do |-> call.do, out |-> call.out, slot |-> s]
    /\ UNCHANGED <<ReadVars, seen, fetched, owed>>

\* `snapshot`, the value: written through to the register.
TakeValue ==
    /\ call.phase = "take"
    /\ regs' = [regs EXCEPT ![call.slot] = value[cell[call.slot]]]
    /\ call' = [call EXCEPT !.phase = "stamp"]
    /\ torn' = torn \ {call.slot}
    /\ UNCHANGED <<cellVars, build, cell, seen, outs, coords, stale, ran, all_ran, clean, changed,
                   force_run, todo, fetched, answer, wanted, due, owed>>

\* `snapshot`, the revision: kept as the one this value was taken at.
TakeRevision ==
    /\ call.phase = "stamp"
    /\ seen' = [seen EXCEPT ![call.slot] = revision[cell[call.slot]]]
    /\ fetched' = fetched \cup {call.slot}
    /\ owed' = owed \cup Reached({call.slot})
    /\ call' = [phase |-> "refresh", do |-> call.do, out |-> call.out]
    /\ UNCHANGED <<ReadVars, todo>>

Polled == call.phase \in {"poll", "refresh"} /\ todo = {}

\* Mutants of ranNow and cleanNow: a read in a round that has begun keeps the
\* steps a refreshed cell reaches, or the volatile ones; a new round starts from
\* nothing; a refreshed cell leaves the steps it reaches current.
ranAnyway == IF stale THEN {} ELSE ran \ NondetNodes
ranVolatile == IF stale THEN {} ELSE ran \ Reached(fetched)
cleanSlate == IF stale THEN {} ELSE clean \ Reached(fetched)

\* What `begin_epoch` (a write was pending) or `rearm_volatile` (none was), and
\* `dirty_refreshed`, leave for the run.
ranNow == IF stale THEN {} ELSE ran \ (Reached(fetched) \cup NondetNodes)
allNow == all_ran /\ ~stale /\ fetched = {} /\ NondetNodes = {}
cleanNow == (clean \ Reached(fetched)) \ (IF stale THEN NondetNodes ELSE {})

Current(i) == i \in cleanNow /\ i \notin NondetNodes
Order == IF call.do = "cone" THEN Cone(call.out) ELSE Nodes

\* `run_fresh` runs every step of a round that has just begun, in a mode that
\* skips none; `run_order` runs the steps of an order that the round has left.
FreshRun == call.do # "cone" /\ stale /\ ~UseClean /\ ~AnyNone
Wanted ==
    IF FreshRun THEN {i \in Nodes : ~(i \in SideSteps /\ Current(i))}
    ELSE {i \in Order : ~(allNow \/ i \in ranNow \/ ((UseClean \/ i \in SideSteps) /\ Current(i)))}

\* The outputs once the steps in `steps` have run, in order.
OutputsAfter(steps) ==
    LET new[i \in Nodes] ==
          IF i \notin steps THEN outs[i]
          ELSE [s \in Slots |-> UNION {IF src \in Slots THEN (IF src = s THEN {regs[s]} ELSE {})
                                       ELSE new[src][s] : src \in Sources(i)}]
    IN new

\* Mutant of MarkedCurrent: a step is marked before it runs, in both loops.
MarkedBefore(executed, begun) == begun \ NondetNodes

\* Which steps are marked current.  `run_order` marks a step that has run;
\* `run_fresh` marks a side channel it is about to run, and no other step.
MarkedCurrent(executed, begun) ==
    (IF FreshRun THEN begun \cap SideSteps ELSE executed) \ NondetNodes

\* Run `done`, a prefix of the order; `begun` also has the step that panics.
RunSteps(done, begun) ==
    /\ outs' = OutputsAfter(Wanted \cap done)
    /\ ran' = ranNow \cup (IF FreshRun \/ allNow THEN {} ELSE done)
    /\ clean' = cleanNow \cup MarkedCurrent(Wanted \cap done, Wanted \cap begun)
    /\ owed' = owed \ (Wanted \cap done)
    /\ stale' = FALSE
    /\ call' = NoCall /\ todo' = {} /\ fetched' = {}

Run ==
    /\ Polled
    /\ RunSteps(Order, Order)
    /\ all_ran' = (allNow \/ FreshRun)
    /\ answer' = Returned(IF call.do = "cone" THEN {call.out} ELSE Outputs, Wanted \cap SideSteps)
    /\ UNCHANGED <<cellVars, build, cell, seen, regs, coords, changed, force_run, wanted, due,
                   torn>>

\* A step panics, and the panic unwinds to the host.  `eval_pending` had taken
\* the kept coordinates out of `drive` and does not put them back.
RunPanics ==
    /\ Polled
    /\ \E f \in Wanted \cap FailingSteps :
         /\ RunSteps({i \in Order : i < f}, {i \in Order : i <= f})
         /\ answer' = [NoAnswer EXCEPT !.fired = {i \in Wanted \cap SideSteps : i < f}]
    /\ all_ran' = allNow
    /\ coords' = IF call.do = "eval" THEN NoCoords ELSE coords
    /\ UNCHANGED <<cellVars, build, cell, seen, regs, changed, force_run, wanted, due, torn>>

ReadStep == PollCell \/ RefreshCell \/ TakeValue \/ TakeRevision \/ Run \/ RunPanics
            \/ TakeOwnRevision

BeginRead == Eval \/ EvalAt \/ \E out \in Outputs : Pull(out) \/ EvalForSlot(out)

-----------------------------------------------------------------------------
(* Other fibers, and the specification.                                    *)

\* A host with one thread is in one call at a time, of one kernel.
MayPublish(w) == Interleaved \/ w = Self \/ (call = NoCall /\ \A v \in Writers \ {w} : ~InPublish(v))

StartPublish(w) ==
    /\ w # Self /\ MayPublish(w)
    /\ \E c \in Cells : Store(w, c)
    /\ UNCHANGED <<kernelVars, torn>>

\* The slot this kernel is at between its two accesses, of the value and of the
\* revision, when the publish of w has fallen between them, store and bump.
Overtaken(w) ==
    {s \in CellSlots :
       /\ cell[s] = publishing[w].cell
       /\ \/ call.phase = "stamp" /\ call.slot = s /\ publishing[w].stamp > regs[s]
          \/ call.phase = "own" /\ call.slot = s /\ publishing[w].stamp > call.stamp}

FinishPublish(w) ==
    /\ MayPublish(w)
    /\ \/ Bump(w) /\ torn' = torn \cup Overtaken(w)
       \/ Mark(w) /\ UNCHANGED torn
    /\ UNCHANGED kernelVars

Next ==
    \/ HostWrite
    \/ BeginRead
    \/ ReadStep
    \/ \E w \in Writers : StartPublish(w) \/ FinishPublish(w)

Spec == Init /\ [][Next]_vars

-----------------------------------------------------------------------------

Phases == {"poll", "refresh", "take", "stamp"}

\* The type invariant.
TypeOK ==
    /\ CellTypeOK
    /\ cell \in [Slots -> Cells \cup {NoCell}]
    /\ seen \in [Slots -> Nat \cup {Unseen}]
    /\ regs \in [Slots -> Nat] /\ wanted \in [Slots -> Nat]
    /\ outs \in [Nodes -> [Slots -> SUBSET Nat]]
    /\ DOMAIN coords \subseteq Coordinates
    /\ {stale, all_ran, force_run} \subseteq BOOLEAN
    /\ ran \subseteq Nodes /\ clean \subseteq Nodes /\ owed \subseteq Nodes
    /\ changed \subseteq Slots /\ fetched \subseteq Slots
    /\ todo \subseteq CellSlots /\ torn \subseteq Slots
    /\ call.phase \in Phases \cup {"idle", "own"}
    /\ DOMAIN answer.outputs \subseteq Outputs /\ answer.fired \subseteq SideSteps

\* The evaluation rule, for the slots this kernel holds itself: whatever is
\* read, in whatever provenance mode and after whatever calls, was computed
\* from the host's latest write to each slot that reaches it.
AnswersSeeLocalWrites ==
    \A i \in DOMAIN answer.outputs : \A s \in Provenance[i] :
        cell[s] = NoCell => answer.outputs[i][s] = {wanted[s]}

\* The same for the slots bound to cells, whatever is published between the
\* accesses of a read: a write whose publish returned before a read began is in
\* what the read returns, but for a slot whose last snapshot was torn.
AnswersSeeCompletedWrites ==
    \A i \in DOMAIN answer.outputs : \A s \in Provenance[i] :
        cell[s] # NoCell /\ s \notin torn =>
            \A v \in answer.outputs[i][s] : v >= due[cell[s]]

\* What a poll goes by: while a cell's revision is the one a slot has seen, the
\* slot's register holds every write whose publish has returned.  Nothing short
\* of a whole publish, store and bump, between the two loads of a snapshot or
\* between a kernel's own store and its load can break it.
UnmovedCellIsRead ==
    \A s \in CellSlots :
        /\ s \notin torn /\ ~(call.phase = "own" /\ call.slot = s)
        /\ seen[s] = revision[cell[s]]
        => regs[s] >= completed[cell[s]]

\* `snapshot`, as its comment has it: the value is at least as late as the
\* revision it is returned with.  A publish between the two loads breaks it.
SeenIsRead ==
    \A s \in CellSlots :
        call.phase # "own" /\ seen[s] # Unseen => regs[s] >= seen[s]

\* `set_slot`, as its comment has it: the revision taken after a cell write is the
\* write's own.
OwnRevisionIsOwn ==
    [][call.phase = "own" /\ call'.phase = "idle" =>
         seen'[call.slot] = Unseen \/ seen'[call.slot] <= regs'[call.slot]]_vars

\* The steps whose currency some mode consults.
Consulted == IF UseClean THEN Nodes ELSE SideSteps

\* engines.md, the failure rule: a step that failed, one its failure kept from
\* running, and one a write reached since, are not current, so that the next
\* evaluation runs them.
OwedIsNotCurrent == call = NoCall => clean \cap owed \cap Consulted = {}

\* A side channel fires at most once for a change: when one that is not volatile
\* runs, something upstream of it was written since it last completed.
SideChannelsFireOnce ==
    [][call # NoCall /\ call' = NoCall => answer'.fired \ NondetNodes \subseteq owed]_vars

\* The volatile rule: a read that returns has run every volatile step its cone
\* reaches, in a new round or in the last one, whatever the mode skips.  (A
\* step's run is observed here when it is a side channel.)
VolatileStepsAlwaysRun ==
    [][call # NoCall /\ call' = NoCall /\ answer'.outputs # NoAnswer.outputs =>
         Order \cap NondetNodes \cap SideSteps \subseteq answer'.fired]_vars

=============================================================================
