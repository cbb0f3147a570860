# Formal models of polydat

polydat evaluates dataflow programs: a program is an acyclic graph of nodes over
input slots, a host writes the inputs and pulls outputs, and an engine decides
which nodes run again. Many kernels of a program run at once, one per fiber, and
share cells, data sources and resource scopes; kernels are spawned under one
another, and a traversal makes one for each tuple of a comprehension. These modules
model the parts where that is hard: what an engine may keep when an input it shares
changes under it, what a data source hands to whom, which ordinals are evaluated and
drained when batches are cut anywhere, what order the rows of a run come out in, what a
scope sees of the scopes above it, what a partition spec and a comprehension
enumerate, and what concurrent joins of resource scopes leave behind.

Paths below are relative to `src/`; `core/` stands for `crates/polydat-core/src/`.

## 1. The system

| Part | Where | State | Operations | What is hard | What makes it correct |
|---|---|---|---|---|---|
| Shared cells | `core/kernel/engines.rs` | value under a mutex, revision counter, a bit in an intent word | `publish`, `snapshot` | three atomic steps that any fiber may fall between | a publish that returned can be detected; revisions count the stores |
| Program inventory | `core/kernel/program.rs` | wiring, upstream nodes, provenance, volatile nodes (immutable) | built once | - | provenance is the transitive closure of the wiring |
| Interpreter | `core/kernel/engines.rs` | inputs, buffers, clean bits, `last_seen` revisions | pulls, writes, attach, reset, invalidate | cells change between and inside reads; panics abandon a read half-way | a read returns the host's latest writes and every cell write completed before it; memoization loses nothing for good |
| Compiled engines | `core/compile/closures.rs`, `mod.rs`, `externs.rs` | flat buffer, round (`stale`, `ran`, `all_ran`), `clean`, the cone guard, `seen` revisions | two call surfaces over four provenance modes | four optimizations of one rule; state split between `Drive`, the core and the extern table | the modes differ in what they recompute and never in the result; a side channel fires once for a change; a failed step stays owed |
| Range source | `core/iteration/source.rs` | shared cursor | `reserve`, `rewind_for_poll`, `global_consumed` | readers race; the cursor is finite | each ordinal at most once in a round, none left out |
| Extending source | same | cursor, end, round lock, policy | same | three unordered accesses, a retry loop, a lock, rewinds that overlap all of it | the same promise |
| Cursors | same | readers, last items, sequence numbers | `advance`, `reserve_ordinal_batch` | one of several readers exhausted while other fibers read the same sources | as many rows as the least extent |
| Tier-1 executor | `core/compile/simd_tier1.rs` | the open lease, its frontier and packet, frozen inputs | `begin_lease`, `drain_into`, `force_scalar_recovery`, `set_broadcast` | fragments, bursts that end anywhere, leases out of order or processed elsewhere | the scalar stream, no ordinal lost or used twice |
| SIMD ordinal streams | `core/iteration/simd_ordinal.rs` | frontier, packet, dependency epoch, checkpoint | `drain_into`, `invalidate`, `checkpoint`, `restore_checkpoint` | crashes and rollbacks inside a packet; packets of an old epoch | the lease's values in order, each once; no lane evaluated twice |
| Fiber runner | `crates/polydat/src/main.rs` | work counters, channel, `pending`, `expected` | claim, send, write | fibers finish in any order, and may panic | rows in order, none twice, none lost, the run ends |
| Resource scopes | `core/resource.rs` | parent link, live flag, accessor | `install`, `join`, `lookup` | two joins each check before the other links | no lasting cycle; no call walks for ever; only a race is refused |
| Subscopes, broadcasts, binding | `core/kernel/{bind,scope,state}.rs`, `core/binder.rs` | cells bound and in transit, copies, output cells | `wire_child_under`, `output_cell`, pulls | what a scope binds depends on what every scope above did, and when | an import reads the closest declaration; a subscriber the last pull |
| Subcontext protocol | `core/kernel/subcontext/` | child registry, write-throughs | `finalize`, `spawn`, `release_child`, `commit_write_throughs` | a name taken before a build that may fail | a name belongs to one child |
| Cursor partitions | `core/iteration/cursor_partition.rs` | none | resolve, order, subdivide, project | rounding at the boundaries | partitions tile their domain, on other extents too |
| Comprehensions | `core/iteration/comprehension/` | tuples by position | two evaluators, index functions, orders | products, zips, unions, filters and truncated orders nest | the evaluators agree; an order selects the tuples it was asked for |
| Traversals, activations | `core/kernel/activation.rs` | captured wires, position | `open_traversal`, `advance`, `seek`, `activation` | the parent writes on while fibers activate | an activation is the same whenever it is made |
| Once cache | `core/library/support/cache.rs` | map of once slots | `get_or_init` | inside `OnceLock` | not modelled |
| Hybrid and native engines | `core/compile/hybrid.rs`, `core/compile/jit/` | as the closure engine | as the closure engine | code generation | the bookkeeping they share is in `CompiledKernel` |
| Assembly, fusion, language front end, node library, numerics, derive macro | the rest | none at run time | pure | - | out of scope: section 8 |

How they interact: a host thread owns a kernel (a fiber). It writes inputs, some of
them through cells other fibers also publish to, and pulls outputs; every pull looks
at the cells in the output's cone. Cursors take ordinals from sources that all fibers
share and write them to inputs, or lease batches that an executor evaluates a packet at
a time. A kernel is spawned under another: it binds its cells and outputs, and its
resource scope joins the parent's. A traversal evaluates a comprehension over its
parent's wires, and each activation narrows the body's cursors to a partition. The
command line runs many fibers and sends their rows over a channel to one writer.

## 2. The modules

    SharedCells ----------+-- Interpreter ------ MCInterpreter       (_proofs)
                          +-- CompiledKernel --- MCCompiledKernel    (_proofs)
    Program --------------+

    Dispenser (abstract) <=== ExtendingRangeSource --- MCOrdinalSources
                        ^        (_proofs)
                        +==== RangeSource --- Cursors --- Tier1Executor --- MCTier1Executor
                                                            (_proofs)
    OrdinalStream --- MCOrdinalStream      (_proofs)
    FiberRun -------- MCFiberRun           (_proofs)
    ResourceScope --- MCResourceScope      (_proofs)
    ScopeWiring ----- MCScopeWiring        (_proofs)

    Partition ---+-- CursorPartition --- MCCursorPartition
                 +-- Traversal --------- MCTraversal
    Comprehension --- IndexedTuples --+

A double line is a refinement (`INSTANCE Dispenser WITH ...`).

**SharedCells** is the producer's protocol. `Store`, `Bump` and `Mark` are the three
lines of `publish`. A value is named by its *stamp*, the number of stores the cell
has had when it is stored: the mutex orders the stores, so stamps say which of two
values is later. `intent` is the set of cells with their bit set, `Word` the word a
cell's bit is in. `completed` is a history variable. The two engines below extend it,
and their runs check its properties.

**Program** holds what engines know of a program, as constants: `Wiring[n]` is the list
of a node's sources in the order they are visited, `Provenance[n]` and `NondetNodes`
are `compute_node_inventory`'s results. Its assumptions say what that function
establishes (sources precede their node; provenance and volatility are inherited),
and TLC evaluates them for each instance.

**Interpreter** extends both. `eval_node` recurses; here the recursion is a stack of
frames with the stages `visit`, `check`, `upstream` and `gather`, one action for each
access to a shared variable, so that a publish can fall anywhere. `LoadIntent` and
`LoadRevision` are pass 1 of `check_cell_clean`, `CheckMoved` is pass 2. A buffer is
represented by what it was computed from: for each slot the *set* of values that went
into it, so a node that mixes two moments of one cell is visible. `last_seen` is by
cell, where the code has the cell's address.

**CompiledKernel** is the closure engine with the bookkeeping all compiled engines share.
`mode` picks the kernel type (`Raw`, `Push`, `Pull`, `PushPull`). Running the steps of
a read touches only the kernel's own state and is one action (`Run`, or `RunPanics`
for a prefix of the order); polling (`PollCell`), refreshing (`RefreshCell`) and
`snapshot` (`TakeValue`, then `TakeRevision`) are one action for each shared access.
`regs` and `outs` are the buffer. `wanted`, `due`, `owed` and `torn` (the slots a
whole publish fell on between the loads of value and revision) are history variables.
`Builds` pairs a mode with the call surfaces its host uses: the `Kernel` trait
(`SetInputs`, `Pull`, `Eval`), the concrete kernels' own methods (`EvalAt`,
`EvalForSlot`), or both.

**Dispenser** is the abstract promise of a data source: in a round, the ordinals from the
start on are handed out in order of position, once each, none left out.
**RangeSource** is one `fetch_add` with a cursor of `Modulus` values.
**ExtendingRangeSource** takes one action for each load, the compare-and-swap, the lock,
and each store of the rewind. A policy is a set of answers for each extent (0 is
`None`): more than the five policies of the code can give. A fiber that is told `None`
stops until the next round, as every caller in the repository does.

**Cursors** is a fiber's set of readers over range sources: `ForFields` builds it from the
provenance of the outputs, `AdvanceTarget` is one target of `advance` (other fibers
reserve in between), `ReserveOrdinalBatch` a lease. **Tier1Executor** extends it with
the executor a fiber drains its leases through; a lease it refuses, or that the host
takes, is processed elsewhere. A value is the pair of the ordinal and the broadcast
input it was computed from; a lane that was not evaluated holds `None`.

**OrdinalStream** is the same idea with other hazards: one action for a turn of
`drain_into`'s loop, so that a crash (`Restart`) may fall inside a call, a register of
at most one packet, an epoch of what the pipeline depends on, and a host that keeps
what it took in step with the checkpoints it stored. `evaluated` and `repeated` are
history variables.

**FiberRun** is `run` and `run_traversals`: the three ways a fiber takes a piece (a shared
counter, its own range, a stride over several traversals), the channel, and the
writers. A piece's rows are one message, named by its sequence number.

**ResourceScope** takes one action for each scope a walk visits, the `OnceLock` set, and
the store that severs. `raced` is a history variable: the threads whose join
overlapped another.

**ScopeWiring** follows one wire name through a tree of scopes. Each scope's source
declares it in one of eight ways (`Kinds`, and `export`, which `Register` turns into a
write-through or an output, as `finalize` does). `Register` is the registry guard of
`spawn`, `Instantiate` the build under the parent's lock with the steps of
`wire_child_under` (bind or carry a cell, copy a value, subscribe to an output,
initialize consts), `FailInstantiate` its error. `PullOutput` publishes, `EvaluateNode`
does not. A value is the pair of the scope that gave it and a count.

**Partition** is the arithmetic of one partition: a percentage is the exact ratio it
stands for. **CursorPartition** walks a spec's deltas one at a time, as
`resolve_delta_list` does, then orders, subdivides or projects the list. **Comprehension**
is the reference evaluator, the index functions and the strategies, **IndexedTuples** the
evaluator that a traversal uses, which computes a tuple from its position, and
**Traversal** opens one and dispenses activations while the parent writes.

## 3. The runs

The times are of two workers. The run marked (x) ends at a counterexample: section 4.

| Run | Instance | Distinct states | Shows |
|---|---|---|---|
| InterpreterChain | 4 nodes, one path from the cell, 2 publishers and the host, 2 stores, fair | 176 174, 13 s | publishes anywhere inside a read: what is stale can be detected, a settled revision counts its stores, no buffer goes back in time, the last write is eventually read |
| InterpreterMeet | 3 cells in two words that meet under a volatile node, a node that may panic, a slot attached to one cell, then another | 2 305 528, 43 s | a read returns every write completed before it, local ones too; a publish that returned can be detected |
| InterpreterTwoSlots (x) | one cell on two slots, publishes between reads | - | a read misses a completed write |
| CompiledModes | a cell, a coordinate, a step that may panic, a side channel and a volatile one; the modes with the cone guard through the trait, the others by slot; publishes between any two accesses | 3 073 512, 126 s | answers fresh; owed steps not current; a slot whose cell has not moved holds its writes; side channels once per change; volatile steps at every read |
| ExtendingSource | ordinals 1..4, base 2, strides 1 and 3, 2 readers, 3 rounds, rewinds overlapping, fair | 232 741, 25 s | implements Dispenser; every reservation returns |
| OrdinalBatches | 3 sources, 2 fibers, rows over two cursors or leases of one, 2 lanes, bursts of 1 and 2, 2 rounds, 2 epochs | 707 312, 127 s | the sources implement Dispenser; progress is what was read; rows meet the extent; the scalar stream; no ordinal lost |
| OrdinalStream | 4 lanes, leases inside, over and across packets and an empty one, bursts of 1, 2 and 5, both policies | 19 796, 2 s | the output is the lease, through crashes and rollbacks; no lane twice |
| FiberRun | 3 fibers, 3 chunks, traversals of 4 and 1 activations, 2 pieces that may panic, both writers, fair | 569 545, 28 s | order, completeness, no duplicates, termination |
| ResourceJoins | 3 scopes, 2 threads, fair | 396 500, 33 s | cycles only while they are being severed; only races severed; every call returns |
| ScopeWiring | a root, a phase, two siblings of one name, a scope under one of them; 5 x 8 declarations less those of section 4 | 575 892, 27 s | the closest declaration wins; subscribers see the pull; names are held |
| Partitions | every list of up to 3 deltas the parser accepts over 4 percentages, 2 counts, 2 gaps and 5 tails; windows, ranges, orders; extents 0, 1, 5 and 8 | 98 327, 6 s | partitions tile; no slack; derived lists tile |
| Traversals | all operators in trees of up to three levels, 7 strategies, truncations; partition traversals dispensed in any order | 75 900, 33 s | the evaluators agree; addressing exact; orders select the tuples asked for; activations repeat; ordinals once |

Why the bounds are enough. Stores per cell (`MaxStores`): one store makes a value
stale, a second one is needed for a revision to be consumed for one and hide the
other; the runs have what their property needs. Nodes: a chain of three with a reader
beside it has every relation between a checked node, one memoized upstream of it and
one beside it; the diamond is the smallest program where a cell reaches a node twice.
Two values of a local input tell a stale one from a fresh one. Sources: strides that
divide the range and that do not, an extension of 0, 1 or 2, and one round more than a
stale reader can span. The
compiled modes have one surface each: nothing on the `Kernel` trait's way reads the flags of the
cone guard, so `Pull` runs there as `Raw` does and `PushPull` as `Push`. Packets: a lease that begins or ends inside a packet, holds one
exactly, spans three, or is empty, and bursts shorter and longer than a packet; with two
lanes the executor's leases of 2 and 3 ordinals from 1 on meet every alignment. Scopes: a
path of four and a sibling give every relation of a reader, its declaration and the
scopes between, cycles of resource scopes are of one, two and three. Lists of three
deltas have a token before, between and after sized ones. Trees of three levels have
each operator above and below each other. Cuts are only in guards that mention a bound
named above (`MaxStores`, `MaxRounds`, `MaxHeld`, `MaxWrites`, `Wraps`, `Strides`, `InputValues`,
`Dispensed`).

Each module has one type invariant (`TypeOK`, `CellTypeOK`), which holds on the instances
above; those that a theorem needs are proved, and to have TLC look at one again, add it to
the INVARIANTS of its configuration. Deadlock is not checked where the system stops: rounds
used up (the sources, the executor), a lease drained (OrdinalStream), a list resolved
(Partitions), every scope spawned and used up (ScopeWiring), a run that is over (FiberRun).

## 4. Where the code and its documentation disagree

`InterpreterTwoSlots` is a run that ends at a counterexample: the interpreter keeps the
revision it has seen by cell and invalidates by slot. A cell bound to two slots of one
kernel is consumed by a read over the first, and what was memoized over the second
stays, though `Kernel::attach_shared_cell` says that a write on any holder of the cell is
what the others read next. No concurrency is needed. (The passing runs have no cell on two
slots at once.)

The others have an instance beside the runs
(`tlc -config <name>.cfg <module>` ends at the counterexample); the passing runs leave out
the one circumstance that triggers each, which their constants show.

| Instance | Module, property | What it reaches |
|---|---|---|
| `InterpreterDiamond.cfg` | MCInterpreter, `ReadsSeeCompletedWrites` | with a publish inside a read and two paths to a node, the second path's check consumes the revision the first one needed (`cross_fiber_invalidation.md:17`: observed "by every consumer at its next read"). With `Interleaved = FALSE` it holds |
| `CompiledTornSnapshot.cfg` | MCCompiledKernel, `SeenIsRead` | a publish stored and bumped between the two loads of `snapshot`, which loads the value before the revision; its comment (`engines.rs:131`) says the revision is first. `CompiledModes` has every publish but leaves the slots this one tears (`torn`) out of what it asserts. With `OwnRevisionIsOwn` as the PROPERTY of the same instance: `set_slot` publishes and then loads the revision, which another publish may have moved (`externs.rs:989`: "the revision is this kernel's own") |
| `CompiledConeGuard.cfg` | MCCompiledKernel, `AnswersSeeLocalWrites` | `eval_for_slot` with the cone guard returns a register no step wrote for these coordinates (`engines.md:361`: the modes "change what is recomputed, never a result") |
| `CompiledEvalAt.cfg` | MCCompiledKernel, `AnswersSeeLocalWrites` | coordinates given to `eval_at` are not those a later `pull` uses (`compile/mod.rs:363`: drive holds "the coordinates a host set last") |
| `CompiledSideFailure.cfg` | MCCompiledKernel, `OwedIsNotCurrent` | `run_fresh` marks a side channel current before it runs it (`engines.md:507`: "The step that failed ... stay not current") |
| `ExtendingStaleClaim.cfg` | MCOrdinalSources, `ClaimsWithinExtent` | a rewind brings the cursor back to what a reader loaded, so its claim succeeds in the new round with the old end (`source.rs:717`: such a reader "fails its claim or makes it in the old round"). With `Overlap = FALSE` the property holds, and the promise itself holds either way |
| `RangeSourceWraps.cfg` | MCTier1Executor, `SourcesKeepPromise` | reservations past the end move the cursor on until it wraps (`source.rs:383`: "hands out each of its ordinals at most once") |
| `ScopeBroadcastWrite.cfg` | MCScopeWiring, `OnlyTheOwnerBroadcasts` | an export under a scope subscribed to a computed output finds its cell in scope and becomes a write-through of it (`builder.rs:556`), so a descendant writes what the owner broadcasts |
| `ScopeNoneTransparent.cfg` | MCScopeWiring, `NoneIsTransparent` | a const whose expression is `None`, under a scope that carries a shared cell without declaring the name, discards the cell, and there is no output to copy from: its own readers read `None` (`none_semantics.md`: "a None in a middle scope is transparent to its descendants") |

`CompiledVolatile.cfg` (MCCompiledKernel) passes: volatile steps, cells swapped under a slot
and an unset extern (`AnyNone`), on a program of its own.

Smaller ones, found while reading and not reached by an instance:

- `wire_materialization.md`'s read invariant holds for a descendant of a computed output
  from one pull of the owner to the next; in between it reads the value last published.
  `pull_all` and `OutputAccessor::pull_all` do not publish at all, though `engines.rs:866`
  says that every pull does.
- `wire_materialization.md` says that a transit cell stops at the first redeclaration; only
  a `const` suppresses it.
- The executor refuses every later lease of an epoch once the host has processed one
  itself, and a panic inside a burst loses the count of the values written.
- A truncated `shuffle` is not the first tuples of the shuffle (`comprehension_forms.md:542`:
  "Optionally truncates to the first N tuples in the new order"): the partial draw of
  `shuffle.rs:163` emits, first draw first, what the full one leaves at its back. With
  `TruncationIsPrefix` as the INVARIANT of `Traversals.cfg`, TLC finds one.
- A `*` with nothing left (`100%,*`) emits an empty partition, where a comment
  (`cursor_partition.rs:1153`: "The tail tokens carry their own non-empty guards") says otherwise.
- `narrow_cursors_on` takes the narrowest slice of all cursors also when none has an
  `over` clause, where its documentation (`activation.rs:290`) names the first cursor's
  full extent.
- A panic in a child's build leaves its name taken.

## 5. Fairness

- InterpreterChain: a thread inside a read or a publish keeps running
  (`WF(WalkStep)`, `WF(FinishPublish)`), which any preemptive scheduler gives. That the
  host keeps pulling (`WF(BeginPull)`) is the premise of the claim, not a duty of the
  code: convergence is promised to a host that reads. Writers need not write.
- ExtendingSource: a thread inside `reserve` or `rewind_for_poll` keeps running. Weak fairness
  suffices: the lock is held for a bounded number of steps, a lost compare-and-swap
  means that another reader moved the cursor, and rounds and ordinals are finite.
- FiberRun: threads keep running; a fiber panics or goes on, never hangs.
- ResourceJoins: a thread inside a call keeps running. No fairness is given to new
  joins or installs.

The other specifications state no fairness: their properties are safety.

## 6. What is proved

TLAPS proves these for all values of the constants that satisfy the named assumptions.
Where a theorem has a hypothesis of its own, it excludes a circumstance of section 4, and the
instance named there violates the property without it (the one other is the fixed binding
that `MemoMovesForward` speaks of).

**Interpreter_proofs**, first of the cells. `StoresAccounted` is the inductive invariant: the
revision of a cell plus the number of fibers between its `Store` and its `Bump` is the number of its
stores. It needs the fibers to be finite (`WritersAssumption`), to count them. From it:
`NeverLeads` and `SettledCounts`. `CompletedAdvertised` is by its own invariant
`Advertised`, which adds that a fiber past its bump has left revision 0 behind.
`TypeCorrect` first.

Then of the kernel. `KernelKeepsProtocol`: the kernel's own steps publish as any fiber does,
so the theorems above hold of every kernel. `WalkInv` is the type, the shape of the stack (a
frame under another is in its upstream loop, and above it is only what is upstream of the
node it recursed into) and `NoStrays`: nothing is in a buffer that no source brought.
`LocalWritesAreRead` is by `LocalInv`: what is memoized, visited or gathered was computed
from the local inputs as they are. `CompletedWritesAreRead` and `StalenessIsDetectable` are by
`CellInv`, whose core is one sentence: if a later store of a cell has been counted than the
one a memoized buffer holds, the cell's revision has left the one last seen. A check that
consumes a revision breaks that for all that was read before, so what it leaves memoized must
not depend on a moved slot (`ScanInv`), and what the walk has visited and not yet gathered
must not either. The first holds when no cell is on two slots of the kernel
(`OneSlotPerCell`), the second when a slot reaches a node along one path (`OnePath`): without them
the properties are false, as `InterpreterTwoSlots` and `InterpreterDiamond.cfg` show.
`MemoMovesForward` (no buffer is overwritten by an earlier value) is by `ForwardInv`, that
along every wire the source is at least as late as what was computed from it; it needs
`OnePath`, and that no slot changes its cell, since stamps of two cells do not compare.

**CompiledKernel_proofs** is about every mode at once: a run marks, wants and clears steps in
ways that differ by mode, and each invariant says what all of them must keep. `StateInv` is the
types and what each kind of call holds between its steps; `KernelKeepsProtocol` as above.

- What is owed. `DebtInv` (what a write or a refresh reaches, and a side channel
  not current, is owed a run) gives `ChangesFireOnce`; with `VolatilesRun` it needs no hypothesis.
  The converse, `OwedInv` (a step owed a run is not current, unless a refresh changed what reaches
  it and is not accounted for yet), gives `OwedStepsRun`. It needs that no side channel fails in a
  round that runs fresh (`SidesDoNotFail`): `CompiledSideFailure.cfg`.
- What is current is right. `MemoInv`: whether a step is skipped by its mark, by the round or
  because everything ran, its output holds the registers that reach it, except those a
  refresh changed before the run began (`Pending`). A step that a run skips
  already holds what the registers say (`SkippedAreRight`), so those it computes in order from
  them do too (`RunIsRight`). It needs `SidesDoNotFail`, and that no kernel
  with the cone guard is read through `eval_for_slot` (`NoGuardedReads`): `CompiledConeGuard.cfg`.
- What the registers hold. For the local slots, `WantedInv`: what the host wrote last, a
  coordinate's once the round it was kept for has begun. With `MemoInv` it gives
  `LocalWritesAreRead`, for a host that drives the kernel through one of the two surfaces
  (`OneSurface`; else `CompiledEvalAt.cfg`).
- For the cells, whatever is published between any two accesses. `SeenInv`: a slot that has seen
  its cell's revision holds every write that the revision can tell (`Held`: those complete,
  and those bumped that have yet to return), and so does the value a refresh has taken
  and not yet stamped, or the host's own write before its revision is loaded. That
  gives `UnmovedCellsAreRead`, with no hypothesis. The one exception is in the state: a publish
  stored *and* bumped between the two accesses tears the slot (`torn`, until it is taken
  again), which is what `CompiledTornSnapshot.cfg` shows; a publish with one of its steps
  outside does no harm. `FreshInv` (a slot the read has polled holds every write complete when the
  read began, or is torn) follows from it, and with `MemoInv` it gives `CompletedWritesAreRead`.
  `StampsInv`: no publish carries a later stamp than its cell.

`CompiledModes.cfg` gives the constants values that satisfy all these hypotheses.

**ExtendingRangeSource_proofs**, first of the promise: `HandedAtMostOnce` is inductive in the
promise itself, because what is handed lies past all that was handed (`HandExtends`). Then of
the source: `IInv` is the type, `HandedOut` (the ordinals handed out are
exactly those from the start to the cursor) and `ClaimIsForward` (a reader about to
claim has loaded a cursor below the end it loaded). The second is what makes the
compare-and-swap sufficient without the lock: equality of the cursor with the loaded
one gives that the claim starts where the handed-out ordinals end, whichever round the
load was in. Hence `Implements` (each step is a `Hand`, a `Rewind` or a stutter of the
abstract promise), and `ClaimedAtMostOnce` by composing it with the abstract theorem.

**Tier1Executor_proofs** has four arguments, one above the other.

- The sources. Everything a fiber does, whether it advances, leases or drains, is
  for the sources a reservation, a rewind or nothing (`SystemStep`), so the invariant is
  about the sources alone: what a round has handed out of one lies between its start and
  its cursor, cut at its end (`ClaimedInv`), to disjoint readers. Under `Wraps = FALSE`, that
  no cursor passes its width, `RangeImplementsDispenser` and `ProgressCorrect` follow.
- The stream. `StreamCorrect` is by `StreamInv`: the packet in the register holds the scalar
  values of the lanes it is valid for, under the broadcast of the open lease, and the
  frontier is one past the last value drained or at the start of a lease that comes after
  it. `DrainOneKeeps` shows it for one value; `BurstKeeps` for a burst of any size. It needs
  no hypothesis: the stream is in order even when a cursor wraps.
- The books. An ordinal claimed in a round is drained, in a lease held, in the open lease past
  the frontier, processed by the host, or in a row, and in one of them only (`Balanced`,
  `BooksInv`); each step moves ordinals from one column to the next (`Moved`, `ClaimedAnew`,
  `Rewound`). `OrdinalsKept` follows, under `Wraps = FALSE`, without which an ordinal is claimed
  twice.
- The rows. Fibers interleave their reservations, so the ordinals of a row need not be
  those of one position, and when a target is exhausted, ordinals read from the targets
  before it are dropped. `RowsInv` says what survives: rows take distinct ordinals of every
  target, and *past the last target that is spent* no ordinal is dropped (`NoneDropped`): each
  is in a row or is the last item of a fiber beyond that target. When all fibers have found
  one exhausted, none is beyond it (`ExhaustedBehind`), so the rows are as many as the
  ordinals of that target, and no more than those of any other: `RowsCounted`.

**OrdinalStream_proofs**. `OutputIsTheLease` needs that the packet in the register was computed
under the dependencies in force and serves the frontier (`RegisterInv`), and that the
frontier, the room left in the call and the stored checkpoint lie in the lease in that
order (`FrontierInv`). `OwnedLanesAreEvaluatedOnce` needs more: the register is empty only at a
packet's boundary or when nothing was evaluated since it was reset (`EvaluatedInv`), so a
packet is never materialized twice. The arithmetic of packets is in four lemmas over `\div`
and `%` (`Division` to `BaseOfPacket`).

**FiberRun_proofs**. `Taken` is the set of the pieces claimed so far, by counter, range or
stride; a claim adds a piece that was not in it (`ClaimIsNew`, from `OwnRanges` and
`Strides`: two fibers' ranges and strides are disjoint), and every other step moves a piece
between a fiber, the channel, `pending` and the output, which stay disjoint
(`PlacesInv`). `PiecesOnce` and `OutputInOrder` follow; the second is `OrderInv`, that the
output is 0, 1, ... up to `expected`. `OutputWhole` needs the other direction (`ProgressInv`): no
piece that was taken is nowhere, a fiber that ended has no pieces left, and one that holds a
piece holds the last it took; when the run is over the least piece that is not in the output is then
one that panicked. That the offsets of the traversals grow is `OffsetsGrow`, from
`OffsetAssumption`.

**ScopeWiring_proofs**. `NamesAreHeld` speaks of live parents only. What makes it inductive is
that a scope that is not alive has an empty registry and that nothing lives under one
that is being built (`RegistryInv`): when a scope comes to life, nobody holds a name in it.
`DeclarationsReach` is by `DeclaredInv`, which says for every declaration what each scope under
it passes on, the cell in its slot or in transit, or the const in its slot, so that a spawn
extends it by one scope; it needs of the model's inputs that a name is declared `shared` at the root only
(`MattersAssumption`). `BroadcastsReach` is by `FeedInv` (who holds an output's cell was fed it
along a chain of scopes its owner registered, so the owner publishes) and `ShownInv` (the cell holds
what was pulled until the inputs move). Its hypothesis `ExportsElsewhere` excludes
`ScopeBroadcastWrite.cfg`: an export that writes through to the cell of an output.

**ResourceScope_proofs**. `CyclesAreBeingSevered` is not inductive: it does not say that the
joining thread will find the cycle. `RingsHaveWalkers` does: for every closed ring there
is a thread in its second walk *whose position is on the ring*, or one about to sever, and
whose own scope is on it. Links are never changed once set and a ring leads only into
itself, so such a walk stays on the ring until it finds its scope. `LoneJoinsStay` (only
joins that overlapped are severed) is by `AloneInv`: the scopes the first walk of an
undisturbed join has passed lead only to each other and out, its own scope is not among them,
and the link it then stores leads into them, so the second walk cannot come back to it.

Recursion in the proofs. The library's induction theorems cannot be instantiated here, but
well-founded order can: a set of naturals that is not empty has a least element
(`LeastNumber`), so a counterexample has a least one. `BurstExists`, `ChoiceExists`,
`OutputsExist`, `ConesExist` and `OffsetsGrow` use it to show that a recursive function is what its
equation says, and lemmas on one
step (`DrainOneKeeps`, `DrainOneMoves`) then carry over to all. It is also why `ForFields`
and `Burst` are recursive functions.

Assumptions, each evaluated by TLC in the runs of its module: in Program and the engines
`NodeCountAssumption`, `SlotsAssumption`, `WiringAssumption`, `ProvenanceAssumption`,
`SelfAssumption`, `BindingAssumption`, `InputValuesAssumption`,
`OutputsAssumption`, `StepsAssumption`, `BuildsAssumption`; of the cells `WritersAssumption`, `WordAssumption`; of the sources and
cursors `RangeAssumption`, `BaseAssumption`, `StridesAssumption`, `PolicyAssumption`,
`ThreadsAssumption`, `EndAssumption`, `DemandsAssumption`, `InputsAssumption`; of the executor
`LanesAssumption`, `ExecutorsAssumption`, `EpochsAssumption`, `NoneAssumption`; of the ordinal
stream `LanesAssumption`, `LeasesAssumption`, `BurstsAssumption`; of the run `CountAssumption`,
`StreamsAssumption`, `OffsetAssumption`, `ModesAssumption`, `OrdersAssumption`; of the scopes
`NoScopeAssumption`, `TreeAssumption`, `MattersAssumption`, `NoneAssumption`.

## 7. What is only model-checked

- The liveness properties (`ReadsConverge`, `ReserveReturns`, `RunEnds`, `CallsReturn`):
  liveness under fairness is out of the prover's reach.
- Partition, CursorPartition, Comprehension, IndexedTuples and Traversal. What is checked of
  them is what recursive operators over trees (`Leaves`, `Materialized`, `IndexNode`) or folds
  over lists compute, for all inputs within a bound. A module that reaches a recursive
  operator has no SMT backend; the folds are functions, but a lemma on one is an
  induction over its data for each operator folded.
- The branch of `EvalForSlot` in which the cone guard skips is reached by
  `CompiledConeGuard.cfg` alone: what it answers is what that instance refutes.

## 8. What is not modelled, and why

- Memory order: every action is atomic and in order (sequential consistency). The code
  pairs release stores with acquire loads; only `ResourceScope::join` relies on more than
  that (two threads that each store a link and then load the other's).
- Reuse of a dropped cell's address, which `last_seen` is keyed by.
- A stamp counts the stores of one cell; stamps of two cells are not compared, so
  after a slot's cell was swapped the completed-writes property speaks of the new
  cell's writes only as far as its stamps reach.
- ScopeWiring follows one name: what one declaration does to another, the typed
  conversions of a copy, binding by path and the builder's checks of source text are left
  out. `NamesAreHeld` assumes that a host releases only children it spawned: a release by
  name of a child still being built frees the name for another.
- Cursor partitions: the parser, the formatter and the recipes' weights, which are given;
  the code's percentages are floating point, here they are exact. `resolve_over` with an
  extent of 0 is modelled as it is (unprojected).
- Comprehensions: continuous axes and `sample_space`, the Halton, Sobol and latin-hypercube
  strategies, the optimizer and the IR, the predicate language and the compilation of
  source expressions, the recording of `None` reads. A shuffle is a fixed permutation
  for each size, read from the front when whole and drawn from the back when truncated.
- Traversals: compilation, the per-engine program cache, the body's own evaluation.
- The executor's plan selection and its packet graph; its values stand for what the graph
  computes.
- `ProvScanState`, `seed_node_buffer`, `fork`, const inits, reference slots, the `None` rule
  beyond the flag that changes which loop runs.
- The once cache: a map of `OnceLock`s, whose only concurrent step is the library's.
- The hybrid, native and pure native engines beyond the bookkeeping they share with the
  closure engine; assembly, fusion, cones, the lattice; the front end; the node library; the
  derive macro; code generation. They are most of the repository's lines: pure
  construction of programs and of machine code, with no state that outlives a call.
- Values, node semantics, error texts, formats, timing reports.
