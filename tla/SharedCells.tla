---------------------------- MODULE SharedCells ----------------------------
(***************************************************************************)
(* The producer side of the cell protocol: `SharedCellInner` of            *)
(* kernel/engines.rs.                                                      *)
(*                                                                         *)
(* A cell is a register that several kernels hold.  `publish` is three     *)
(* separate atomic operations, and any fiber may run between two of them:  *)
(*   1. swap the value under the mutex;                                    *)
(*   2. add one to the revision;                                           *)
(*   3. set the cell's bit in the intent word of the scope that made it.   *)
(*                                                                         *)
(* A value is represented by its STAMP, the number of stores the cell has  *)
(* had when it is stored (0 is the value the cell was created with).  The  *)
(* mutex orders the stores of a cell, so stamps are unique and a larger    *)
(* stamp is a later value.  An intent word is represented by the set of    *)
(* cells whose bit is set in it; `Word` says which word a cell's bit is    *)
(* in (64 to a word in the code, any grouping here).                       *)
(***************************************************************************)
EXTENDS Naturals, FiniteSets

CONSTANTS
    Cells,        \* the shared cells
    Writers,      \* the fibers that publish
    Word,         \* Word[c] is the intent word cell c has its bit in
    MaxStores     \* bound of the model: stores per cell

ASSUME WritersAssumption == IsFiniteSet(Writers)
ASSUME WordAssumption == Word = [c \in Cells |-> Word[c]]
ASSUME MaxStoresAssumption == MaxStores \in Nat

VARIABLES
    value,        \* value[c]: stamp of the value in the cell
    revision,     \* revision[c]: the revision counter
    intent,       \* the cells whose intent bit is set
    publishing,   \* publishing[w]: where fiber w is in `publish`
    completed     \* history: completed[c] is the newest stamp whose
                  \* publish has returned

cellVars == <<value, revision, intent, publishing, completed>>

Idle == [stage |-> "idle"]

Publications == {Idle} \cup [stage : {"stored", "bumped"}, cell : Cells, stamp : Nat]

InPublish(w) == publishing[w] # Idle

\* Nobody is between the value swap and the revision bump of cell c.
BumpsSettled(c) ==
    \A w \in Writers : ~(publishing[w].stage = "stored" /\ publishing[w].cell = c)

\* Nobody is anywhere inside `publish` on cell c.
Quiet(c) == \A w \in Writers : InPublish(w) => publishing[w].cell # c

CellInit ==
    /\ value = [c \in Cells |-> 0]
    /\ revision = [c \in Cells |-> 0]
    /\ intent = {}
    /\ completed = [c \in Cells |-> 0]
    /\ publishing = [w \in Writers |-> Idle]

-----------------------------------------------------------------------------
(* `publish`, one action for each atomic operation.                        *)

\* The mutex critical section: the new value takes the place of the old.
Store(w, c) ==
    /\ ~InPublish(w)
    /\ value[c] < MaxStores
    /\ value' = [value EXCEPT ![c] = @ + 1]
    /\ publishing' = [publishing EXCEPT ![w] =
         [stage |-> "stored", cell |-> c, stamp |-> value[c] + 1]]
    /\ UNCHANGED <<revision, intent, completed>>

\* Mutant of Bump: the revision is stored, not added to.
BumpByStore(w) ==
    /\ publishing[w].stage = "stored"
    /\ revision' = [revision EXCEPT ![publishing[w].cell] = publishing[w].stamp]
    /\ publishing' = [publishing EXCEPT ![w].stage = "bumped"]
    /\ UNCHANGED <<value, intent, completed>>

\* revision.fetch_add(1, Release)
Bump(w) ==
    /\ publishing[w].stage = "stored"
    /\ revision' = [revision EXCEPT ![publishing[w].cell] = @ + 1]
    /\ publishing' = [publishing EXCEPT ![w].stage = "bumped"]
    /\ UNCHANGED <<value, intent, completed>>

\* Mutant of Mark: a store to the word in place of the fetch_or.
MarkByStore(w) ==
    LET c == publishing[w].cell IN
    /\ publishing[w].stage = "bumped"
    /\ intent' = {d \in intent : Word[d] # Word[c]} \cup {c}
    /\ publishing' = [publishing EXCEPT ![w] = Idle]
    /\ completed' = [completed EXCEPT ![c] =
         IF publishing[w].stamp > @ THEN publishing[w].stamp ELSE @]
    /\ UNCHANGED <<value, revision>>

\* scope_intent_dirty.fetch_or(1 << bit, Release): `publish` returns.
Mark(w) ==
    LET c == publishing[w].cell IN
    /\ publishing[w].stage = "bumped"
    /\ intent' = intent \cup {c}
    /\ publishing' = [publishing EXCEPT ![w] = Idle]
    /\ completed' = [completed EXCEPT ![c] =
         IF publishing[w].stamp > @ THEN publishing[w].stamp ELSE @]
    /\ UNCHANGED <<value, revision>>

Publish(w) == Bump(w) \/ Mark(w) \/ \E c \in Cells : Store(w, c)

CellNext == \E w \in Writers : Publish(w)

CellSpec == CellInit /\ [][CellNext]_cellVars

-----------------------------------------------------------------------------

\* The type invariant of the protocol's state.
CellTypeOK ==
    /\ value \in [Cells -> Nat]
    /\ revision \in [Cells -> Nat]
    /\ intent \in SUBSET Cells
    /\ publishing \in [Writers -> Publications]
    /\ completed \in [Cells -> Nat]

\* A publish that has returned is one a consumer can detect: the bit of its
\* cell is set (bits are sticky), so the drill-down of a consumer that loads
\* the word from now on reaches the cell's revision, and that revision has
\* left 0, the revision a consumer that never looked assumes.
CompletedIsAdvertised ==
    \A c \in Cells : completed[c] > 0 => c \in intent /\ revision[c] > 0

\* The revision runs behind the value, never ahead of it: a consumer that
\* loads revision r and reads the value afterwards reads a store at least as
\* new as every store r counts.  (`publish` swaps the value first.)
RevisionNeverLeads == \A c \in Cells : revision[c] <= value[c]

\* When the bumps of a cell have settled, its revision counts its stores
\* exactly: two publishes never share one bump.
SettledRevisionCounts == \A c \in Cells : BumpsSettled(c) => revision[c] = value[c]

=============================================================================
