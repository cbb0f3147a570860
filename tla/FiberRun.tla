------------------------------ MODULE FiberRun ------------------------------
(***************************************************************************)
(* `polydat run` (crates/polydat/src/main.rs): fibers that take pieces of  *)
(* a run, and a writer on the main thread that puts their rows back in     *)
(* order.  A piece is a chunk of cycles in `run`, an activation in         *)
(* `run_traversals`; a piece's rows travel as one message, named here by   *)
(* the piece's sequence number.                                            *)
(*                                                                         *)
(* How a fiber finds its next piece depends on the mode: from a counter    *)
(* all fibers share, from a counter of its own (every fiber walks the      *)
(* whole range over its own partition), or by stride through the           *)
(* activations of one traversal after another.                             *)
(***************************************************************************)
EXTENDS Naturals, Sequences, SequencesExt

CONSTANTS
    Fibers,       \* how many fibers; they are 0 .. Fibers - 1
    ChunkCount,   \* the chunks of the range
    Streams,      \* Streams[t]: the activations of traversal t
    Offset,       \* Offset[t]: the activations of the traversals before t (`offsets`)
    Modes,        \* the modes to run: "shared", "per_fiber", "stride"
    Orders,       \* whether `--unordered` is given: what to run
    Failing       \* the pieces whose evaluation may panic

ASSUME CountAssumption == Fibers \in Nat \ {0} /\ ChunkCount \in Nat
ASSUME StreamsAssumption == Streams \in Seq(Nat)
ASSUME OffsetAssumption ==
    /\ Offset \in [1 .. (Len(Streams) + 1) -> Nat]
    /\ Offset[1] = 0
    /\ \A t \in DOMAIN Streams : Offset[t + 1] = Offset[t] + Streams[t]
ASSUME ModesAssumption == Modes \subseteq {"shared", "per_fiber", "stride"}
ASSUME OrdersAssumption == Orders \subseteq BOOLEAN /\ Failing \subseteq Nat

VARIABLES
    mode,         \* how fibers find their pieces
    unordered,    \* whether `--unordered` was given
    next_chunk,   \* the shared counter
    local,        \* local[f]: fiber f's own counter (the next activation, by stride)
    fiber,        \* fiber[f]: what fiber f does, and to which piece
    channel,      \* the messages sent and not received
    pending,      \* received and not written (`pending`, by sequence number)
    expected,     \* the sequence number the writer waits for
    written,      \* the pieces written, in the order they were
    writing       \* the writer still reads the channel

vars == <<mode, unordered, next_chunk, local, fiber, channel, pending, expected, written, writing>>

options == <<mode, unordered>>

FiberIds == 0 .. (Fibers - 1)
Claiming == [at |-> "claim", seq |-> 0]
Ended == [at |-> "ended", seq |-> 0]
Panicked(seq) == [at |-> "panicked", seq |-> seq]

\* The activations fiber f takes, by stride through each traversal.
Strided(f) ==
    {p \in 0 .. (Offset[Len(Streams) + 1] - 1) : \E t \in DOMAIN Streams :
       /\ Offset[t] <= p /\ p < Offset[t] + Streams[t]
       /\ (p - Offset[t]) % Fibers = f}

\* Mutant of FirstOwn: the ranges of two fibers overlap.
FirstOwnShort(f) == f * (ChunkCount - 1)

\* The sequence number of fiber f's first chunk, when each walks a range.
FirstOwn(f) == f * ChunkCount

\* Every sequence number of the run.
Pieces ==
    0 .. (CASE mode = "shared" -> ChunkCount
            [] mode = "per_fiber" -> Fibers * ChunkCount
            [] mode = "stride" -> Offset[Len(Streams) + 1]) - 1

Init ==
    /\ mode \in Modes /\ unordered \in Orders
    /\ next_chunk = 0
    /\ local = [f \in FiberIds |-> 0]
    /\ fiber = [f \in FiberIds |-> Claiming]
    /\ channel = <<>>
    /\ pending = {}
    /\ expected = 0
    /\ written = <<>>
    /\ writing = TRUE

-----------------------------------------------------------------------------
(* A fiber.                                                                *)

\* Take a piece, if there are more, or end.
TakePiece(f, more, seq) ==
    fiber' = [fiber EXCEPT ![f] = IF more THEN [at |-> "run", seq |-> seq] ELSE Ended]

Claim(f) ==
    /\ fiber[f].at = "claim"
    /\ \/ /\ mode = "shared"
          /\ next_chunk' = next_chunk + 1
          /\ TakePiece(f, next_chunk < ChunkCount, next_chunk)
          /\ UNCHANGED local
       \/ /\ mode = "per_fiber"
          /\ local' = [local EXCEPT ![f] = @ + 1]
          /\ TakePiece(f, local[f] < ChunkCount, FirstOwn(f) + local[f])
          /\ UNCHANGED next_chunk
       \/ /\ mode = "stride"
          /\ LET left == {p \in Strided(f) : p >= local[f]} IN
             \/ \E p \in left :
                  /\ \A q \in left : p <= q
                  /\ local' = [local EXCEPT ![f] = p + 1]
                  /\ TakePiece(f, TRUE, p)
             \/ left = {} /\ TakePiece(f, FALSE, 0) /\ UNCHANGED local
          /\ UNCHANGED next_chunk
    /\ UNCHANGED <<options, channel, pending, expected, written, writing>>

\* Evaluate the piece and send its rows.
RunAndSend(f) ==
    /\ fiber[f].at = "run"
    /\ channel' = Append(channel, fiber[f].seq)
    /\ fiber' = [fiber EXCEPT ![f] = Claiming]
    /\ UNCHANGED <<options, next_chunk, local, pending, expected, written, writing>>

\* A pull panics: the fiber's thread ends and its sender is dropped.
RunPanics(f) ==
    /\ fiber[f].at = "run" /\ fiber[f].seq \in Failing
    /\ fiber' = [fiber EXCEPT ![f] = Panicked(fiber[f].seq)]
    /\ UNCHANGED <<options, next_chunk, local, channel, pending, expected, written, writing>>

FiberStep(f) == Claim(f) \/ RunAndSend(f) \/ RunPanics(f)

-----------------------------------------------------------------------------
(* The writer.                                                             *)

\* The writer has the piece it waits for.
AtHand == ~unordered /\ expected \in pending

\* Mutant of Receive: a piece is written as it arrives.
ReceiveAndWrite ==
    /\ writing /\ ~AtHand /\ channel # <<>>
    /\ channel' = Tail(channel)
    /\ written' = Append(written, Head(channel))
    /\ UNCHANGED <<options, next_chunk, local, fiber, pending, expected, writing>>

\* Receive a message: unordered, its rows are written; in order, they are kept.
Receive ==
    /\ writing /\ ~AtHand /\ channel # <<>>
    /\ channel' = Tail(channel)
    /\ IF unordered
         THEN written' = Append(written, Head(channel)) /\ UNCHANGED pending
         ELSE pending' = pending \cup {Head(channel)} /\ UNCHANGED written
    /\ UNCHANGED <<options, next_chunk, local, fiber, expected, writing>>

\* Write the piece that is expected, once it is at hand.
WriteNext ==
    /\ writing /\ AtHand
    /\ pending' = pending \ {expected}
    /\ written' = Append(written, expected)
    /\ expected' = expected + 1
    /\ UNCHANGED <<options, next_chunk, local, fiber, channel, writing>>

\* Mutant of Flush: the messages still in the channel are dropped.
FlushEarly ==
    /\ writing /\ ~AtHand
    /\ \A f \in FiberIds : fiber[f].at \in {"ended", "panicked"}
    /\ writing' = FALSE
    /\ UNCHANGED <<options, next_chunk, local, fiber, channel, pending, expected, written>>

\* Mutant of Flush: the writer waits for every fiber's own end.
FlushAfterEnds ==
    /\ writing /\ ~AtHand /\ channel = <<>>
    /\ \A f \in FiberIds : fiber[f].at = "ended"
    /\ writing' = FALSE
    /\ UNCHANGED <<options, next_chunk, local, fiber, channel, pending, expected, written>>

\* Every sender is gone: the writer flushes and stops.
Flush ==
    /\ writing /\ ~AtHand /\ channel = <<>>
    /\ \A f \in FiberIds : fiber[f].at \in {"ended", "panicked"}
    /\ writing' = FALSE
    /\ UNCHANGED <<options, next_chunk, local, fiber, channel, pending, expected, written>>

WriterStep == Receive \/ WriteNext \/ Flush

Next == WriterStep \/ \E f \in FiberIds : FiberStep(f)

Spec == Init /\ [][Next]_vars

\* Threads keep running.
Fairness == WF_vars(WriterStep) /\ \A f \in FiberIds : WF_vars(FiberStep(f))

FairSpec == Spec /\ Fairness

-----------------------------------------------------------------------------

\* The type invariant.
TypeOK ==
    /\ mode \in Modes /\ unordered \in Orders
    /\ next_chunk \in Nat /\ expected \in Nat
    /\ local \in [FiberIds -> Nat]
    /\ \A f \in FiberIds : fiber[f].at \in {"claim", "run", "ended", "panicked"}
    /\ channel \in Seq(Pieces) /\ written \in Seq(Pieces)
    /\ pending \subseteq Pieces
    /\ writing \in BOOLEAN

\* Where each piece that was taken is: with its fiber, on its way, or written.
Carried == {fiber[f].seq : f \in {g \in FiberIds : fiber[g].at \in {"run", "panicked"}}}

\* No piece is run twice, whoever takes it and however: the places it can be in
\* are disjoint, and none holds it twice.
NoPieceTwice ==
    /\ IsInjective(channel \o written)
    /\ Carried \cap ToSet(channel \o written) = {}
    /\ pending \cap (Carried \cup ToSet(channel \o written)) = {}
    /\ \A f, g \in FiberIds :
         f # g /\ {fiber[f].at, fiber[g].at} \subseteq {"run", "panicked"} =>
             fiber[f].seq # fiber[g].seq

\* `--unordered` not given: the output is the pieces in order with none left
\* out, at every moment and whatever order the fibers finish in.
OutputIsAPrefix ==
    ~unordered => written = [i \in 1 .. Len(written) |-> i - 1]

\* When the run is over, every piece before the first one that panicked is in
\* the output; if none panicked, that is the whole run.
OutputIsComplete ==
    ~writing => \A p \in Pieces : (\A q \in Carried : p < q) => p \in ToSet(written)

\* The writer ends: no fiber it waits for can keep its sender forever.
RunEnds == <>(~writing)

=============================================================================
