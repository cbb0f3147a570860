------------------------------ MODULE Cursors ------------------------------
(***************************************************************************)
(* `Cursors` (iteration/source.rs): the readers of one fiber, one for each *)
(* cursor its outputs depend on.  A fiber either advances all of them, one *)
(* reservation after another while other fibers reserve from the same      *)
(* sources, or leases a batch of ordinals from its only one.               *)
(***************************************************************************)
EXTENDS RangeSource, Sequences, SequencesExt

CONSTANTS
    InputNames,      \* the program's inputs in order: the source an ordinal
                     \* input projects, or None
    InputProvenance, \* InputProvenance[field]: the inputs an output depends on
    FieldChoices,    \* the sets of outputs the fibers of a phase may be built for
    Factories,       \* the sources the host has a factory for
    Demands,         \* the batch sizes asked for
    MaxHeld,         \* bound of the model: leases a fiber holds unprocessed
    None

ASSUME DemandsAssumption == Demands \subseteq Nat \ {0}
ASSUME InputsAssumption ==
    InputNames \in Seq(Sources \cup {None}) /\ Factories \subseteq Sources

\* `OrdinalBatchLease`: the ordinals reserved of a source, in a round.
Leases == [source : Sources, sequence : Nat, range : SUBSET Nat, round : Nat]

VARIABLES
    targets,         \* targets[f]: the fiber's sources, in input order
    at,              \* at[f]: the target `advance` reads next
    last_items,      \* last_items[f][i]: the last ordinal read from target i
    advances,        \* advances[f]: what `consumed` reports
    next_sequence,   \* next_sequence[f]: the next lease's sequence number
    held,            \* held[f]: the leases reserved and not yet processed
    exhausted,       \* exhausted[f]: whether an `advance` has returned false
    rows             \* the rows `advance` completed: <<fiber, ordinals, round>>

cursorVars == <<targets, at, last_items, advances, next_sequence, held, exhausted, rows>>

\* `for_fields`: a reader for each source, once, that has an ordinal input in
\* the provenance of one of the outputs, and a factory.
ForFields(fields) ==
    LET provenance == UNION {InputProvenance[name] : name \in fields}
        chosen[i \in 0 .. Len(InputNames)] ==
          IF i = 0 THEN <<>>
          ELSE IF /\ i \in provenance /\ InputNames[i] \in Factories
                  /\ InputNames[i] \notin ToSet(chosen[i - 1])
               THEN Append(chosen[i - 1], InputNames[i]) ELSE chosen[i - 1]
    IN chosen[Len(InputNames)]

NoItems(f) == [i \in DOMAIN targets[f] |-> None]

CursorsInit ==
    /\ RangeInit
    /\ \E fields \in FieldChoices : targets = [f \in Readers |-> ForFields(fields)]
    /\ at = [f \in Readers |-> 1]
    /\ last_items = [f \in Readers |-> NoItems(f)]
    /\ advances = [f \in Readers |-> 0]
    /\ next_sequence = [f \in Readers |-> 0]
    /\ held = [f \in Readers |-> <<>>]
    /\ exhausted = [f \in Readers |-> FALSE]
    /\ rows = {}

\* Mutant of AdvanceTarget: an exhausted target keeps its last item.
AdvancePast(f, s) ==
    LET i == at[f]
        got == Ordinals(s, 1)
        items == IF got = {} THEN last_items[f]
                 ELSE [last_items[f] EXCEPT ![i] = CHOOSE o \in got : TRUE]
    IN
    /\ s = targets[f][i]
    /\ Reserve(s, f, 1)
    /\ last_items' = [last_items EXCEPT ![f] = items]
    /\ at' = [at EXCEPT ![f] = IF i = Len(targets[f]) THEN 1 ELSE i + 1]
    /\ exhausted' = [exhausted EXCEPT ![f] = got = {}]
    /\ IF i = Len(targets[f])
       THEN /\ advances' = [advances EXCEPT ![f] = @ + 1]
            /\ rows' = rows \cup {<<f, items, round[s]>>}
       ELSE UNCHANGED <<advances, rows>>
    /\ UNCHANGED <<targets, next_sequence, held>>

\* `advance`, one target, the source s: `next` reserves one ordinal.  At the first target
\* that has none it returns false; the targets before it keep what they read.
AdvanceTarget(f, s) ==
    LET i == at[f]
        got == Ordinals(s, 1)
        last == i = Len(targets[f])
        items == [last_items[f] EXCEPT ![i] = CHOOSE o \in got : TRUE]
    IN
    /\ i \in DOMAIN targets[f] /\ s = targets[f][i]
    /\ Reserve(s, f, 1)
    /\ IF got = {}
       THEN /\ at' = [at EXCEPT ![f] = 1]
            /\ exhausted' = [exhausted EXCEPT ![f] = TRUE]
            /\ UNCHANGED <<last_items, advances, rows>>
       ELSE /\ last_items' = [last_items EXCEPT ![f] = items]
            /\ at' = [at EXCEPT ![f] = IF last THEN 1 ELSE i + 1]
            /\ advances' = [advances EXCEPT ![f] = IF last THEN @ + 1 ELSE @]
            /\ rows' = IF last THEN rows \cup {<<f, items, round[s]>>} ELSE rows
            /\ UNCHANGED exhausted
    /\ UNCHANGED <<targets, next_sequence, held>>

\* `reserve_ordinal_batch`: only for a single target; the others are refused.
\* An exhausted source gives no lease and takes no sequence number.
ReserveOrdinalBatch(f, s, demand) ==
    LET got == Ordinals(s, demand)
        lease == [source |-> s, sequence |-> next_sequence[f], range |-> got,
                  round |-> round[s]]
    IN
    /\ targets[f] = <<s>> /\ at[f] = 1
    /\ Len(held[f]) < MaxHeld
    /\ Reserve(s, f, demand)
    /\ IF got = {}
       THEN UNCHANGED <<held, next_sequence, advances>>
       ELSE /\ held' = [held EXCEPT ![f] = Append(@, lease)]
            /\ next_sequence' = [next_sequence EXCEPT ![f] = @ + 1]
            /\ advances' = [advances EXCEPT ![f] = @ + Cardinality(got)]
    /\ UNCHANGED <<targets, at, last_items, exhausted, rows>>

\* A host builds a fresh set for the fiber's next activation.
NewCursors(f) ==
    /\ at[f] = 1
    /\ last_items' = [last_items EXCEPT ![f] = NoItems(f)]
    /\ advances' = [advances EXCEPT ![f] = 0]
    /\ next_sequence' = [next_sequence EXCEPT ![f] = 0]
    /\ UNCHANGED <<rangeVars, targets, at, held, exhausted, rows>>

\* `extent`: the least extent of the targets.
Extent(f) ==
    Min({End[targets[f][i]] - Start[targets[f][i]] : i \in DOMAIN targets[f]})

-----------------------------------------------------------------------------

\* In a round, once every fiber has found one of the cursors exhausted, the rows
\* completed are as many as the extent the set reports: an ordinal read by an
\* `advance` that then found another target exhausted never makes a row missing.
RowsMeetTheExtent ==
    \A f \in Readers :
      (/\ Len(targets[f]) > 1
       /\ \A g \in Readers : exhausted[g]
       /\ \A s \in ToSet(targets[f]) : round[s] = 1)
      => Cardinality(rows) = Extent(f)

=============================================================================
