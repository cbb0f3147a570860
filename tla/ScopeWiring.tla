---------------------------- MODULE ScopeWiring ----------------------------
(***************************************************************************)
(* How one wire N of a scope tree is wired when a scope is spawned         *)
(* (`ScopeKernel::spawn`, `wire_child_under`), and what the kernels of the *)
(* tree then read and write: shared cells and their transit, copies of     *)
(* consts, broadcast cells of computed outputs, and the registry of child  *)
(* names.  A value is <<scope, n>>: the n-th value that scope gave N.      *)
(***************************************************************************)
EXTENDS Naturals, FiniteSets

CONSTANTS
    Scopes,
    Root,
    Parent,          \* Parent[s], for every scope but the root
    Above,           \* Above[s]: the scopes above s
    Name,            \* Name[s]: the child name s is spawned under
    Matters,         \* the declarations of N explored, one for each scope
    MaxWrites,       \* bound of the model: writes to a register, coordinates
    None

ASSUME TreeAssumption ==
    /\ Root \in Scopes /\ Parent \in [Scopes \ {Root} -> Scopes]
    /\ Above \in [Scopes -> SUBSET Scopes] /\ Above[Root] = {}
    /\ \A s \in Scopes \ {Root} : Above[s] = {Parent[s]} \cup Above[Parent[s]]
    /\ \A s \in Scopes : s \notin Above[s] /\ \A d \in Above[s] : Above[d] \subseteq Above[s]

\* shared, const, computed: N declared by the scope.  shadow: a const whose own
\* expression is None.  extern: N imported.  export: N bound by the scope, which
\* `finalize` makes a write-through or an output.  absent: the scope skips N.
Kinds == {"shared", "const", "computed", "shadow", "extern", "writer", "absent"}

\* A source says neither that a scope writes through nor, in this model, that a
\* scope other than the root declares N shared.
ASSUME MattersAssumption ==
    /\ Matters \subseteq [Scopes -> (Kinds \ {"writer"}) \cup {"export"}]
    /\ \A m \in Matters, s \in Scopes \ {Root} : m[s] # "shared"

VARIABLES
    matter,          \* matter[s]: how the source of s declares N
    kind,            \* kind[s]: what the compiled program of s makes of it
    phase,           \* phase[s]: none, registered, live or dropped
    released,        \* the live scopes whose name was released
    children,        \* children[p]: the registered names of p's children
    cell,            \* cell[s]: the cell the slot N of s is bound to, or None
    slot,            \* slot[s]: the register of the slot N of s
    transit,         \* transit[s]: the cell s carries for its descendants, or None
    constval,        \* constval[s]: the value of the const N of s, fixed by init
    cellval,         \* cellval[c]: the value in cell c
    coord,           \* coord[s]: the coordinate N is computed from
    clean,           \* the computing scopes whose node of N is memoized
    buffer,          \* buffer[s]: the value of that node
    broadcasting,    \* the scopes that were asked for the cell of their output N
    shown            \* the scopes that pulled N since their coordinate moved

treeVars == <<matter, kind, phase, released, children>>
wireVars == <<cell, slot, transit, constval>>
outputVars == <<coord, clean, buffer, broadcasting, shown>>
vars == <<treeVars, wireVars, cellval, outputVars>>

SharedCell(s) == <<"shared", s>>
OutputCell(s) == <<"output", s>>
CellIds == {"shared", "output"} \X Scopes

ASSUME NoneAssumption ==
    /\ MaxWrites \in Nat
    /\ None \notin CellIds /\ \A s \in Scopes, n \in 0 .. MaxWrites : None # <<s, n>>

Alive(s) == phase[s] = "live"
HasSlot(k) == k \in {"shared", "shadow", "extern", "writer"}
IsConst(k) == k \in {"const", "shadow"}

\* The root's kernel is built and initialized; `seed_shared_cells`.
Init ==
    /\ matter \in Matters
    /\ kind = matter
    /\ phase = [s \in Scopes |-> IF s = Root THEN "live" ELSE "none"]
    /\ released = {}
    /\ children = [s \in Scopes |-> {}]
    /\ cell = [s \in Scopes |->
                 IF s = Root /\ matter[s] = "shared" THEN SharedCell(s) ELSE None]
    /\ slot = [s \in Scopes |-> None]
    /\ transit = [s \in Scopes |-> None]
    /\ constval = [s \in Scopes |->
                     IF s = Root /\ matter[s] = "const" THEN <<s, 0>> ELSE None]
    /\ cellval = [c \in CellIds |-> IF c = SharedCell(Root) THEN <<Root, 0>> ELSE None]
    /\ coord = [s \in Scopes |-> 0]
    /\ clean = {}
    /\ buffer = [s \in Scopes |-> None]
    /\ broadcasting = {}
    /\ shown = {}

\* `read_input`: a bound slot reads its cell.
SlotValue(s) == IF cell[s] # None THEN cellval[cell[s]] ELSE slot[s]

\* `cells_in_scope`: the cell bound to the slot, else the one in transit.
CellInScope(s) == IF cell[s] # None THEN cell[s] ELSE transit[s]

\* `KernelLookup::lookup`: the const first, and what the slot holds while it is None.
Lookup(s) == IF IsConst(kind[s]) /\ constval[s] # None THEN constval[s] ELSE SlotValue(s)

\* Whether the program of s gives its children an output N.
Outputs(s) == kind[s] # "absent"

-----------------------------------------------------------------------------

\* `finalize`, then the registry guard of `spawn`.  An export of a name whose
\* cell is in the parent's scope becomes a write-through of it, one of a name
\* the parent declares const is refused, and any other is the child's output.
Register(s) ==
    LET p == Parent[s] IN
    /\ phase[s] \in {"none", "dropped"} /\ Alive(p)
    /\ \A q \in Scopes : s \in Above[q] => phase[q] \in {"none", "dropped"}
    /\ Name[s] \notin children[p]
    /\ ~(matter[s] = "export" /\ IsConst(kind[p]))
    /\ kind' = [kind EXCEPT ![s] =
         IF matter[s] # "export" THEN matter[s]
         ELSE IF CellInScope(p) # None THEN "writer" ELSE "computed"]
    /\ children' = [children EXCEPT ![p] = @ \cup {Name[s]}]
    /\ phase' = [phase EXCEPT ![s] = "registered"]
    /\ UNCHANGED <<matter, released, wireVars, cellval, outputVars>>

\* Step 1 of `wire_child_under`: a cell in the parent's scope is discarded where
\* the child declares a const, bound where it has a slot, and carried elsewhere.
BoundCell(s) ==
    IF IsConst(kind[s]) \/ ~HasSlot(kind[s]) THEN None ELSE CellInScope(Parent[s])
CarriedCell(s) ==
    IF IsConst(kind[s]) \/ HasSlot(kind[s]) THEN None ELSE CellInScope(Parent[s])

\* Step 2, for an output of the parent and a slot step 1 left alone: the value is
\* copied when the parent has a slot or declares a const, ...
Copies(s) ==
    LET p == Parent[s] IN
    /\ HasSlot(kind[s]) /\ BoundCell(s) = None /\ Outputs(p)
    /\ HasSlot(kind[p]) \/ IsConst(kind[p])

\* ... and the cell of the parent's computed output is bound.
Subscribes(s) ==
    LET p == Parent[s] IN
    HasSlot(kind[s]) /\ BoundCell(s) = None /\ kind[p] = "computed"

\* Mutant of CaughtUp: a cell is handed out as it is.
CaughtUpNever(p) == FALSE

\* `output_cell`: the cell is handed out holding the output's current value.
CaughtUp(p) == p \in clean /\ cellval[OutputCell(p)] # buffer[p]

\* Mutant of InitialConst: the slot is not asked for a const that is None.
InitialConstOwn(s, given) ==
    IF kind[s] = "const" THEN <<s, 0>> ELSE None

\* Step 3, `init`: a const whose expression is None takes the slot's value.
InitialConst(s, given) ==
    IF kind[s] = "const" THEN <<s, 0>> ELSE IF kind[s] = "shadow" THEN given ELSE None

\* `instantiate_under`, under the parent's lock.
Instantiate(s) ==
    LET p == Parent[s]
        given == IF Copies(s) THEN Lookup(p) ELSE None
    IN
    /\ phase[s] = "registered"
    /\ cell' = [cell EXCEPT ![s] = IF Subscribes(s) THEN OutputCell(p) ELSE BoundCell(s)]
    /\ transit' = [transit EXCEPT ![s] = CarriedCell(s)]
    /\ slot' = [slot EXCEPT ![s] = given]
    /\ constval' = [constval EXCEPT ![s] = InitialConst(s, given)]
    /\ broadcasting' = IF Subscribes(s) THEN broadcasting \cup {p} ELSE broadcasting
    /\ cellval' = [c \in CellIds |->
         IF Subscribes(s) /\ c = OutputCell(p) /\ CaughtUp(p) THEN buffer[p]
         ELSE IF c = OutputCell(s) THEN None ELSE cellval[c]]
    /\ phase' = [phase EXCEPT ![s] = "live"]
    /\ UNCHANGED <<matter, kind, released, children, coord, clean, buffer, shown>>

\* Mutant of FailInstantiate: a child that was not built keeps its name.
FailKeepsName(s) ==
    /\ phase[s] = "registered"
    /\ phase' = [phase EXCEPT ![s] = "none"]
    /\ UNCHANGED <<matter, kind, released, children, wireVars, cellval, outputVars>>

\* A copy is refused or a const fails: the name is free again.
FailInstantiate(s) ==
    /\ phase[s] = "registered"
    /\ phase' = [phase EXCEPT ![s] = "none"]
    /\ children' = [children EXCEPT ![Parent[s]] = @ \ {Name[s]}]
    /\ UNCHANGED <<matter, kind, released, wireVars, cellval, outputVars>>

\* `release_child`, by the host that spawned s; the kernel itself lives on.
ReleaseChild(s) ==
    /\ Alive(s) /\ s # Root /\ s \notin released
    /\ released' = released \cup {s}
    /\ children' = [children EXCEPT ![Parent[s]] = @ \ {Name[s]}]
    /\ UNCHANGED <<matter, kind, phase, wireVars, cellval, outputVars>>

\* The last handle on the kernel of a released scope goes; its own descendants,
\* which hold its cells, may outlive it.
DropKernel(s) ==
    /\ s \in released
    /\ \A q \in Scopes \ {Root} : Parent[q] = s => phase[q] # "registered"
    /\ phase' = [phase EXCEPT ![s] = "dropped"]
    /\ released' = released \ {s}
    /\ children' = [children EXCEPT ![s] = {}]
    /\ cell' = [cell EXCEPT ![s] = None]
    /\ transit' = [transit EXCEPT ![s] = None]
    /\ clean' = clean \ {s}
    /\ shown' = shown \ {s}
    /\ broadcasting' = broadcasting \ {s}
    /\ coord' = [coord EXCEPT ![s] = 0]
    /\ UNCHANGED <<matter, kind, slot, constval, cellval, buffer>>

\* `set_input` on the scope that declares N shared, and `commit_write_throughs`
\* on one that writes through to it: both publish into the bound cell.
Write(s) ==
    /\ Alive(s)
    /\ \/ kind[s] = "shared" \/ kind[s] = "writer"
    /\ \E n \in 1 .. MaxWrites : cellval' = [cellval EXCEPT ![cell[s]] = <<s, n>>]
    /\ UNCHANGED <<treeVars, wireVars, outputVars>>

\* `set_inputs` moves the coordinate of a computing scope.
SetInputs(s) ==
    /\ Alive(s) /\ kind[s] = "computed"
    /\ coord[s] < MaxWrites
    /\ coord' = [coord EXCEPT ![s] = @ + 1]
    /\ clean' = clean \ {s}
    /\ shown' = shown \ {s}
    /\ UNCHANGED <<treeVars, wireVars, cellval, buffer, broadcasting>>

\* The kernels that hold a cell besides the one that owns it.
Holders(c) == {s \in Scopes : Alive(s) /\ (cell[s] = c \/ transit[s] = c)}

\* `publish_output`: once a descendant asked for the cell, and while one holds it.
Publishes(s) == s \in broadcasting /\ Holders(OutputCell(s)) # {}

\* `pull` of N, by name, by index or from `advance_broadcasts`.
PullOutput(s) ==
    LET v == IF s \in clean THEN buffer[s] ELSE <<s, coord[s]>> IN
    /\ Alive(s) /\ kind[s] = "computed"
    /\ buffer' = [buffer EXCEPT ![s] = v]
    /\ clean' = clean \cup {s}
    /\ shown' = shown \cup {s}
    /\ cellval' = IF Publishes(s) THEN [cellval EXCEPT ![OutputCell(s)] = v] ELSE cellval
    /\ UNCHANGED <<treeVars, wireVars, coord, broadcasting>>

\* A pull of another output, or `pull_all`, evaluates the node of N and does not
\* publish it.
EvaluateNode(s) ==
    /\ Alive(s) /\ kind[s] = "computed" /\ s \notin clean
    /\ buffer' = [buffer EXCEPT ![s] = <<s, coord[s]>>]
    /\ clean' = clean \cup {s}
    /\ UNCHANGED <<treeVars, wireVars, cellval, coord, broadcasting, shown>>

Next ==
    \E s \in Scopes :
      \/ s # Root /\ (Register(s) \/ Instantiate(s) \/ FailInstantiate(s))
      \/ ReleaseChild(s)
      \/ DropKernel(s)
      \/ Write(s)
      \/ SetInputs(s)
      \/ PullOutput(s)
      \/ EvaluateNode(s)

Spec == Init /\ [][Next]_vars

-----------------------------------------------------------------------------

\* The type invariant.
TypeOK ==
    /\ kind \in [Scopes -> Kinds \cup {"export"}]
    /\ phase \in [Scopes -> {"none", "registered", "live", "dropped"}]
    /\ released \subseteq {s \in Scopes \ {Root} : Alive(s)}
    /\ cell \in [Scopes -> CellIds \cup {None}]
    /\ transit \in [Scopes -> CellIds \cup {None}]
    /\ \A s \in Scopes : cell[s] = None \/ transit[s] = None

Between(d, s) == Above[s] \ (Above[d] \cup {d})

\* d is the closest scope above s that declares N and whose const is not None.
Declares(d, s) ==
    /\ d \in Above[s] /\ kind[d] \in {"shared", "const", "computed"}
    /\ \A e \in Between(d, s) : kind[e] \in {"extern", "writer", "absent", "shadow"}

ReadsN(s) == Alive(s) /\ kind[s] \in {"extern", "writer", "shadow"}
Reads(s) == IF kind[s] = "shadow" THEN constval[s] ELSE SlotValue(s)

\* A scope that imports N reads what the closest scope above that declares it
\* holds: a shared register at every moment, across scopes that skip the name
\* and after siblings' and descendants' writes; a const through every scope that
\* imports it, a const that is None included.
ClosestDeclarationWins ==
    \A s, d \in Scopes : ReadsN(s) /\ Declares(d, s) =>
      /\ (kind[d] = "shared" /\ \A e \in Between(d, s) \cup {s} : kind[e] # "shadow")
           => Reads(s) = cellval[SharedCell(d)]
      /\ (kind[d] = "const" /\ \A e \in Between(d, s) : kind[e] # "absent")
           => Reads(s) = <<d, 0>>

\* After a pull of a computed output, and until its inputs move, every scope
\* subscribed to it reads the value pulled, whether it was spawned before or
\* after, and whether others subscribed or were dropped in between.
SubscribersSeeThePull ==
    \A s, d \in Scopes :
      Alive(s) /\ Alive(d) /\ cell[s] = OutputCell(d) /\ d \in shown
      => SlotValue(s) = <<d, coord[d]>>

\* Only the scope that computes an output writes its cell: what a subscriber
\* reads is a value of that output.
OnlyTheOwnerBroadcasts ==
    \A d \in Scopes : cellval[OutputCell(d)] \in {None} \cup {<<d, n>> : n \in 0 .. MaxWrites}

\* A child holds its name from the moment it is registered until it is released,
\* nothing else holds one, and no other child of the parent is given it.
NamesAreHeld ==
    \A p \in Scopes : Alive(p) =>
      LET holding == {s \in Scopes \ {Root} :
                        /\ Parent[s] = p
                        /\ phase[s] = "registered" \/ (Alive(s) /\ s \notin released)}
      IN /\ children[p] = {Name[s] : s \in holding}
         /\ \A s, q \in holding : s # q => Name[s] # Name[q]

\* A const that is None is transparent, through any number of scopes: where the
\* closest declaration above holds a value, a reader is never left without one.
NoneIsTransparent ==
    \A s, d \in Scopes :
      ReadsN(s) /\ Declares(d, s) /\ kind[d] = "shared" => Reads(s) # None

=============================================================================
