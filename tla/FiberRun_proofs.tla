--------------------------- MODULE FiberRun_proofs ---------------------------
(***************************************************************************)
(* Theorems about FiberRun, for any number of fibers, any range, any       *)
(* streams and any panics: whichever way fibers take their pieces, none is *)
(* run or written twice, the ordered output is the pieces in order, and    *)
(* what no panic held back is in it when the run is over.                  *)
(*                                                                         *)
(* The first property is carried by the set of the pieces taken so far: a  *)
(* claim adds a piece that was not in it, and everything else only moves a *)
(* piece that is.  The last needs that no piece is dropped on the way, and *)
(* that a fiber stops only at the end of its pieces or at one it keeps.    *)
(***************************************************************************)
EXTENDS FiberRun, WellFoundedInduction, TLAPS

Places == {"claim", "run", "ended", "panicked"}

TypeInv ==
    /\ mode \in {"shared", "per_fiber", "stride"} /\ unordered \in BOOLEAN
    /\ next_chunk \in Nat /\ expected \in Nat
    /\ local \in [FiberIds -> Nat]
    /\ fiber \in [FiberIds -> [at : Places, seq : Nat]]
    /\ channel \in Seq(Nat) /\ written \in Seq(Nat) /\ pending \subseteq Nat

\* The pieces taken so far.
Taken ==
    {p \in Nat :
       \/ mode = "shared" /\ p < next_chunk
       \/ /\ mode = "per_fiber"
          /\ \E f \in FiberIds, i \in 0 .. (ChunkCount - 1) :
               i < local[f] /\ p = FirstOwn(f) + i
       \/ /\ mode = "stride"
          /\ \E f \in FiberIds : p \in Strided(f) /\ p < local[f]}

Holds(f) == fiber[f].at \in {"run", "panicked"}

PlacesInv ==
    /\ IsInjective(channel) /\ IsInjective(written)
    /\ ToSet(channel) \cap ToSet(written) = {}
    /\ Carried \cap (ToSet(channel) \cup ToSet(written)) = {}
    /\ pending \cap (Carried \cup ToSet(channel) \cup ToSet(written)) = {}
    /\ \A f, g \in FiberIds : f # g /\ Holds(f) /\ Holds(g) => fiber[f].seq # fiber[g].seq

TakenInv == Carried \cup ToSet(channel) \cup ToSet(written) \cup pending \subseteq Taken

OrderInv ==
    ~unordered => Len(written) = expected /\ \A i \in DOMAIN written : written[i] = i - 1

IInv == TypeInv /\ PlacesInv /\ TakenInv /\ OrderInv

\* Fiber f finds no more pieces.
Exhausted(f) ==
    /\ mode = "shared" => next_chunk >= ChunkCount
    /\ mode = "per_fiber" => local[f] >= ChunkCount
    /\ mode = "stride" => \A p \in Strided(f) : p < local[f]

\* The piece f holds is the last one it took: every later one comes after it.
LastTaken(f) ==
    /\ mode = "shared" => fiber[f].seq < next_chunk
    /\ mode = "per_fiber" => fiber[f].seq + 1 = FirstOwn(f) + local[f]
    /\ mode = "stride" => fiber[f].seq + 1 = local[f]

Somewhere == Carried \cup ToSet(channel) \cup ToSet(written) \cup pending
Gone(f) == fiber[f].at \in {"ended", "panicked"}

\* No piece is dropped, and a fiber stops at the end of its pieces or at one it
\* keeps.
ProgressInv ==
    /\ Taken \cap Pieces \subseteq Somewhere
    /\ unordered => pending = {}
    /\ \A f \in FiberIds : fiber[f].at = "ended" => Exhausted(f)
    /\ \A f \in FiberIds : Holds(f) => LastTaken(f)

CompleteInv ==
    ProgressInv /\ (~writing => OutputIsComplete /\ \A f \in FiberIds : Gone(f))

-----------------------------------------------------------------------------

\* Appending a value a sequence does not hold.
LEMMA Appended ==
    ASSUME NEW s \in Seq(Nat), NEW x \in Nat
    PROVE  /\ ToSet(Append(s, x)) = ToSet(s) \cup {x}
           /\ IsInjective(s) /\ x \notin ToSet(s) => IsInjective(Append(s, x))
<1> DEFINE t == Append(s, x)
<1>1. /\ DOMAIN t = 1 .. (Len(s) + 1) /\ DOMAIN s = 1 .. Len(s) /\ Len(s) \in Nat
      /\ \A i \in 1 .. Len(s) : t[i] = s[i]
      /\ t[Len(s) + 1] = x
  OBVIOUS
<1> HIDE DEF t
<1>2. ToSet(t) = ToSet(s) \cup {x}
  BY <1>1 DEF ToSet
<1>3. ASSUME IsInjective(s), x \notin ToSet(s) PROVE IsInjective(t)
  BY <1>1, <1>3 DEF IsInjective, ToSet
<1> QED BY <1>2, <1>3 DEF t

\* Taking the head of a sequence without repetitions.
LEMMA Tailed ==
    ASSUME NEW s \in Seq(Nat), s # <<>>, IsInjective(s)
    PROVE  /\ Head(s) \in ToSet(s) /\ Head(s) \in Nat /\ Tail(s) \in Seq(Nat)
           /\ ToSet(Tail(s)) = ToSet(s) \ {Head(s)} /\ IsInjective(Tail(s))
<1> DEFINE t == Tail(s)
           n == Len(s)
<1>1. /\ DOMAIN t = 1 .. (n - 1) /\ DOMAIN s = 1 .. n /\ n \in Nat \ {0}
      /\ \A i \in 1 .. (n - 1) : t[i] = s[i + 1]
      /\ Head(s) = s[1] /\ t \in Seq(Nat) /\ Head(s) \in Nat
  OBVIOUS
<1>2. \A i, j \in 1 .. n : s[i] = s[j] => i = j
  BY <1>1 DEF IsInjective
<1> HIDE DEF t, n
<1>3. ASSUME NEW i \in 1 .. (n - 1)
      PROVE  i + 1 \in 1 .. n /\ t[i] = s[i + 1] /\ s[i + 1] # s[1]
  <2>1. i + 1 \in 1 .. n /\ 1 \in 1 .. n /\ i + 1 # 1
    BY <1>1
  <2> QED BY <1>1, <1>2, <2>1
<1>4. ToSet(t) \subseteq ToSet(s) \ {Head(s)}
  <2> SUFFICES ASSUME NEW i \in 1 .. (n - 1) PROVE t[i] \in ToSet(s) \ {Head(s)}
    BY <1>1 DEF ToSet
  <2>1. t[i] = s[i + 1] /\ s[i + 1] \in ToSet(s)
    BY <1>1, <1>3 DEF ToSet
  <2> QED BY <1>1, <1>3, <2>1
<1>5. ASSUME NEW v \in ToSet(s), v # Head(s) PROVE v \in ToSet(t)
  <2>1. PICK i \in 1 .. n : v = s[i]
    BY <1>1 DEF ToSet
  <2>2. i - 1 \in 1 .. (n - 1) /\ (i - 1) + 1 = i
    BY <1>1, <1>5, <2>1
  <2>3. t[i - 1] = v
    BY <1>3, <2>1, <2>2
  <2> QED BY <1>1, <2>2, <2>3 DEF ToSet
<1>6. ASSUME NEW i \in 1 .. (n - 1), NEW j \in 1 .. (n - 1), t[i] = t[j] PROVE i = j
  <2>1. i + 1 = j + 1
    BY <1>2, <1>3, <1>6
  <2> QED BY <2>1
<1>7. IsInjective(t)
  BY <1>1, <1>6 DEF IsInjective
<1>8. Head(s) \in ToSet(s)
  BY <1>1 DEF ToSet
<1> QED BY <1>1, <1>4, <1>5, <1>7, <1>8 DEF t

\* Joining two sequences without repetitions and without a common value.
LEMMA Concatenated ==
    ASSUME NEW s \in Seq(Nat), NEW t \in Seq(Nat), IsInjective(s), IsInjective(t),
           ToSet(s) \cap ToSet(t) = {}
    PROVE  IsInjective(s \o t) /\ ToSet(s \o t) = ToSet(s) \cup ToSet(t)
<1> DEFINE u == s \o t
           n == Len(s)
           k == Len(t)
<1>1. /\ DOMAIN u = 1 .. (n + k) /\ n \in Nat /\ k \in Nat
      /\ DOMAIN s = 1 .. n /\ DOMAIN t = 1 .. k
      /\ \A i \in 1 .. n : u[i] = s[i]
      /\ \A i \in (n + 1) .. (n + k) : u[i] = t[i - n]
  OBVIOUS
<1>2. /\ \A i, j \in 1 .. n : s[i] = s[j] => i = j
      /\ \A i, j \in 1 .. k : t[i] = t[j] => i = j
      /\ \A i \in 1 .. n, j \in 1 .. k : s[i] # t[j]
  <2> HIDE DEF u, n, k
  <2>1. \A i \in DOMAIN s, j \in DOMAIN t : s[i] # t[j]
    BY DEF ToSet
  <2> QED BY <1>1, <2>1 DEF IsInjective
<1> HIDE DEF u, n, k
<1>3. \A i \in (n + 1) .. (n + k) : i - n \in 1 .. k /\ u[i] = t[i - n]
  BY <1>1
<1>4. ASSUME NEW j \in 1 .. k PROVE n + j \in (n + 1) .. (n + k) /\ u[n + j] = t[j]
  <2>1. n + j \in (n + 1) .. (n + k) /\ (n + j) - n = j
    BY <1>1
  <2> QED BY <1>3, <2>1
<1>5. \A i \in DOMAIN u : i \in 1 .. n \/ i \in (n + 1) .. (n + k)
  BY <1>1
<1>6. ToSet(u) \subseteq ToSet(s) \cup ToSet(t)
  BY <1>1, <1>3, <1>5 DEF ToSet
<1>7. ToSet(s) \cup ToSet(t) \subseteq ToSet(u)
  <2>1. 1 .. n \subseteq DOMAIN u /\ (n + 1) .. (n + k) \subseteq DOMAIN u
    BY <1>1
  <2>2. \A i \in DOMAIN s : s[i] \in ToSet(u)
    BY <1>1, <2>1 DEF ToSet
  <2>3. \A j \in DOMAIN t : t[j] \in ToSet(u)
    BY <1>1, <1>4, <2>1 DEF ToSet
  <2> QED BY <2>2, <2>3 DEF ToSet
<1>8. ASSUME NEW i \in DOMAIN u, NEW j \in DOMAIN u, u[i] = u[j] PROVE i = j
  <2>1. CASE i \in 1 .. n /\ j \in 1 .. n
    BY <1>1, <1>2, <1>8, <2>1
  <2>2. CASE i \in (n + 1) .. (n + k) /\ j \in (n + 1) .. (n + k)
    <3>1. i - n = j - n
      BY <1>2, <1>3, <1>8, <2>2
    <3> QED BY <1>1, <2>2, <3>1
  <2>3. \A a \in 1 .. n, b \in (n + 1) .. (n + k) : u[a] # u[b]
    BY <1>1, <1>2, <1>3
  <2> QED BY <1>5, <1>8, <2>1, <2>2, <2>3
<1> QED BY <1>6, <1>7, <1>8 DEF IsInjective, u

\* The ranges of two fibers do not meet (`fiber * chunk_count + local_seq`).
LEMMA OwnRanges ==
    ASSUME NEW f \in FiberIds, NEW g \in FiberIds,
           NEW i \in 0 .. (ChunkCount - 1), NEW j \in 0 .. (ChunkCount - 1),
           FirstOwn(f) + i = FirstOwn(g) + j
    PROVE  f = g /\ i = j
<1>1. f \in Nat /\ g \in Nat /\ ChunkCount \in Nat /\ i \in Nat /\ j \in Nat
  BY CountAssumption DEF FiberIds
<1>2. ASSUME NEW a \in Nat, NEW b \in Nat, a < b
      PROVE  a * ChunkCount \in Nat /\ a * ChunkCount + ChunkCount <= b * ChunkCount
  <2>1. PICK d \in Nat : b = a + 1 + d
    <3>1. b - a - 1 \in Nat /\ b = a + 1 + (b - a - 1)
      BY <1>2
    <3> QED BY <3>1
  <2>2. b * ChunkCount = a * ChunkCount + ChunkCount + d * ChunkCount
    BY <1>1, <2>1
  <2>3. d * ChunkCount \in Nat /\ a * ChunkCount \in Nat
    BY <1>1
  <2> QED BY <1>1, <2>2, <2>3
<1>3. f * ChunkCount + i = g * ChunkCount + j /\ i < ChunkCount /\ j < ChunkCount
  BY CountAssumption DEF FirstOwn
<1>4. f * ChunkCount \in Nat /\ g * ChunkCount \in Nat
  BY <1>1
<1>5. ~(f < g)
  BY <1>1, <1>2, <1>3, <1>4
<1>6. ~(g < f)
  BY <1>1, <1>2, <1>3, <1>4
<1>7. f = g
  BY <1>1, <1>5, <1>6
<1> QED BY <1>1, <1>3, <1>4, <1>7

\* The naturals in order, for arguments by a least number.
Less == {ss \in Nat \X Nat : ss[1] < ss[2]}

LEMMA LessWF == IsWellFoundedOn(Less, Nat)
BY NatLessThanWellFounded, Zenon DEF OpToRel, Less

\* A traversal's activations begin after those of every one before it
\* (`offsets`).
LEMMA OffsetsGrow ==
    \A t \in DOMAIN Streams, u \in 1 .. (Len(Streams) + 1) :
      t < u => Offset[t] + Streams[t] <= Offset[u]
<1> SUFFICES ASSUME NEW t \in DOMAIN Streams
             PROVE  \A u \in 1 .. (Len(Streams) + 1) :
                      t < u => Offset[t] + Streams[t] <= Offset[u]
  OBVIOUS
<1> DEFINE bad == {u \in 1 .. (Len(Streams) + 1) :
                     t < u /\ ~(Offset[t] + Streams[t] <= Offset[u])}
<1> SUFFICES ASSUME bad # {} PROVE FALSE
  OBVIOUS
<1>1. /\ DOMAIN Streams = 1 .. Len(Streams) /\ Len(Streams) \in Nat
      /\ \A u \in 1 .. Len(Streams) : Streams[u] \in Nat
  BY StreamsAssumption
<1>2. bad \subseteq Nat
  BY <1>1
<1>3. PICK u \in bad : \A v \in bad : ~(<<v, u>> \in Less)
  <2> HIDE DEF bad
  <2> QED BY <1>2, LessWF, WFMin
<1>4. /\ u \in 1 .. (Len(Streams) + 1) /\ t \in 1 .. Len(Streams) /\ t < u
      /\ ~(Offset[t] + Streams[t] <= Offset[u])
  BY <1>1
<1>5. PICK v \in 1 .. Len(Streams) : v \in 1 .. (Len(Streams) + 1) /\ v + 1 = u /\ v < u
  <2>1. u - 1 \in 1 .. Len(Streams)
    BY <1>1, <1>4
  <2> QED BY <1>1, <1>4, <2>1
<1>6. v \notin bad
  BY <1>2, <1>3, <1>5 DEF Less
<1>7. Offset[u] = Offset[v] + Streams[v] /\ Streams[v] \in Nat /\ Streams[t] \in Nat
  BY <1>1, <1>4, <1>5, OffsetAssumption
<1>8. Offset[v] \in Nat /\ Offset[u] \in Nat /\ Offset[t] \in Nat
  <2>1. t \in 1 .. (Len(Streams) + 1)
    BY <1>1, <1>4
  <2> QED BY <1>4, <1>5, <2>1, OffsetAssumption
<1>9. CASE v = t
  BY <1>4, <1>7, <1>8, <1>9
<1>10. CASE v # t
  <2>1. t < v
    BY <1>1, <1>4, <1>5, <1>10
  <2>2. Offset[t] + Streams[t] <= Offset[v]
    BY <1>5, <1>6, <2>1
  <2> QED BY <1>4, <1>7, <1>8, <2>2
<1> QED BY <1>9, <1>10

\* Every activation is some traversal's.
LEMMA InSomeStream ==
    ASSUME NEW p \in 0 .. (Offset[Len(Streams) + 1] - 1)
    PROVE  \E t \in DOMAIN Streams : Offset[t] <= p /\ p < Offset[t] + Streams[t]
<1> DEFINE after == {u \in 1 .. (Len(Streams) + 1) : p < Offset[u]}
<1>1. DOMAIN Streams = 1 .. Len(Streams) /\ Len(Streams) \in Nat
  BY StreamsAssumption
<1>2. Offset[Len(Streams) + 1] \in Nat /\ p \in Nat /\ p < Offset[Len(Streams) + 1]
  BY <1>1, OffsetAssumption
<1>3. after # {} /\ after \subseteq Nat
  BY <1>1, <1>2
<1>4. PICK u \in after : \A v \in after : ~(<<v, u>> \in Less)
  <2> HIDE DEF after
  <2> QED BY <1>3, LessWF, WFMin
<1>5. u \in 1 .. (Len(Streams) + 1) /\ p < Offset[u] /\ u # 1
  BY <1>2, OffsetAssumption
<1> DEFINE v == u - 1
<1>6. v \in 1 .. Len(Streams) /\ v \in 1 .. (Len(Streams) + 1) /\ v + 1 = u /\ v < u
  BY <1>1, <1>5
<1>7. v \notin after
  BY <1>3, <1>4, <1>6 DEF Less
<1>8. Offset[u] = Offset[v] + Streams[v] /\ Offset[v] \in Nat
  BY <1>1, <1>6, OffsetAssumption
<1>9. Offset[v] <= p
  BY <1>2, <1>6, <1>7, <1>8
<1> QED BY <1>1, <1>5, <1>6, <1>8, <1>9

\* No activation is two fibers' (`i = fiber`, `i += fibers`).
LEMMA Strides ==
    ASSUME NEW f \in FiberIds, NEW g \in FiberIds, NEW p \in Strided(f), p \in Strided(g)
    PROVE  f = g
<1>1. PICK t \in DOMAIN Streams : /\ Offset[t] <= p /\ p < Offset[t] + Streams[t]
                                  /\ (p - Offset[t]) % Fibers = f
  BY DEF Strided
<1>2. PICK u \in DOMAIN Streams : /\ Offset[u] <= p /\ p < Offset[u] + Streams[u]
                                  /\ (p - Offset[u]) % Fibers = g
  BY DEF Strided
<1>3. /\ DOMAIN Streams = 1 .. Len(Streams) /\ Len(Streams) \in Nat
      /\ Streams[t] \in Nat /\ Streams[u] \in Nat
  BY StreamsAssumption
<1>4. /\ t \in 1 .. (Len(Streams) + 1) /\ u \in 1 .. (Len(Streams) + 1)
      /\ t \in Nat /\ u \in Nat
  BY <1>3
<1>5. Offset[t] \in Nat /\ Offset[u] \in Nat /\ p \in Int
  BY <1>4, OffsetAssumption DEF Strided
<1>6. /\ t < u => Offset[t] + Streams[t] <= Offset[u]
      /\ u < t => Offset[u] + Streams[u] <= Offset[t]
  BY <1>4, OffsetsGrow
<1>7. ~(t < u) /\ ~(u < t)
  BY <1>1, <1>2, <1>3, <1>5, <1>6
<1>8. t = u
  BY <1>4, <1>7
<1> QED BY <1>1, <1>2, <1>8

\* A claim takes a piece nobody took, or none (the claim loops of `run` and
\* `run_traversals`).
LEMMA ClaimIsNew ==
    ASSUME IInv, NEW f \in FiberIds, Claim(f)
    PROVE  /\ Taken \subseteq Taken'
           /\ \/ fiber' = [fiber EXCEPT ![f] = Ended]
              \/ \E p \in Nat :
                   /\ fiber' = [fiber EXCEPT ![f] = [at |-> "run", seq |-> p]]
                   /\ p \notin Taken /\ p \in Taken'
<1>0. /\ next_chunk \in Nat /\ local \in [FiberIds -> Nat] /\ local[f] \in Nat
      /\ f \in Nat /\ ChunkCount \in Nat /\ mode' = mode
  BY CountAssumption DEF IInv, TypeInv, FiberIds, Claim, options
<1>1. CASE mode = "shared"
  <2>1. /\ next_chunk' = next_chunk + 1
        /\ TakePiece(f, next_chunk < ChunkCount, next_chunk)
    BY <1>1 DEF Claim
  <2>2. Taken = {p \in Nat : p < next_chunk} /\ Taken' = {p \in Nat : p < next_chunk'}
    BY <1>0, <1>1 DEF Taken
  <2>3. Taken \subseteq Taken' /\ next_chunk \notin Taken /\ next_chunk \in Taken'
    BY <1>0, <2>1, <2>2
  <2> QED BY <1>0, <2>1, <2>3 DEF TakePiece
<1>2. CASE mode = "per_fiber"
  <2> DEFINE p == FirstOwn(f) + local[f]
  <2>1. /\ local' = [local EXCEPT ![f] = @ + 1]
        /\ TakePiece(f, local[f] < ChunkCount, p)
    BY <1>2 DEF Claim
  <2>2. /\ local'[f] = local[f] + 1 /\ \A g \in FiberIds \ {f} : local'[g] = local[g]
        /\ \A g \in FiberIds : local[g] \in Nat
    BY <1>0, <2>1
  <2>3. Taken = {q \in Nat : \E g \in FiberIds, i \in 0 .. (ChunkCount - 1) :
                   i < local[g] /\ q = FirstOwn(g) + i}
    BY <1>2 DEF Taken
  <2>4. Taken' = {q \in Nat : \E g \in FiberIds, i \in 0 .. (ChunkCount - 1) :
                    i < local'[g] /\ q = FirstOwn(g) + i}
    BY <1>0, <1>2 DEF Taken
  <2>5. \A g \in FiberIds, i \in 0 .. (ChunkCount - 1) : i < local[g] => i < local'[g]
    BY <2>2
  <2>6. Taken \subseteq Taken'
    BY <2>3, <2>4, <2>5
  <2>7. p \in Nat
    BY <1>0 DEF FirstOwn
  <2>8. ASSUME local[f] < ChunkCount PROVE p \notin Taken /\ p \in Taken'
    <3>1. local[f] \in 0 .. (ChunkCount - 1)
      BY <1>0, <2>8
    <3>2. p \in Taken'
      BY <1>0, <2>2, <2>4, <2>7, <3>1
    <3>3. ASSUME NEW g \in FiberIds, NEW i \in 0 .. (ChunkCount - 1),
                 i < local[g], p = FirstOwn(g) + i
          PROVE  FALSE
      <4>1. f = g /\ local[f] = i
        BY <3>1, <3>3, OwnRanges
      <4> QED BY <1>0, <3>3, <4>1
    <3> QED BY <2>3, <3>2, <3>3
  <2> HIDE DEF p
  <2> QED BY <2>1, <2>6, <2>7, <2>8 DEF TakePiece
<1>3. CASE mode = "stride"
  <2>1. Taken = {q \in Nat : \E g \in FiberIds : q \in Strided(g) /\ q < local[g]}
    BY <1>3 DEF Taken
  <2>2. Taken' = {q \in Nat : \E g \in FiberIds : q \in Strided(g) /\ q < local'[g]}
    BY <1>0, <1>3 DEF Taken
  <2>3. \/ \E p \in Strided(f) :
             /\ p >= local[f]
             /\ \A q \in Strided(f) : q >= local[f] => p <= q
             /\ local' = [local EXCEPT ![f] = p + 1] /\ TakePiece(f, TRUE, p)
        \/ TakePiece(f, FALSE, 0) /\ UNCHANGED local
    BY <1>3 DEF Claim
  <2>4. CASE TakePiece(f, FALSE, 0) /\ UNCHANGED local
    BY <2>1, <2>2, <2>4 DEF TakePiece
  <2>5. ASSUME NEW p \in Strided(f), p >= local[f],
               local' = [local EXCEPT ![f] = p + 1], TakePiece(f, TRUE, p)
        PROVE  /\ Taken \subseteq Taken'
               /\ fiber' = [fiber EXCEPT ![f] = [at |-> "run", seq |-> p]]
               /\ p \in Nat /\ p \notin Taken /\ p \in Taken'
    <3>1. p \in Nat
      BY DEF Strided
    <3>2. /\ local'[f] = p + 1 /\ \A g \in FiberIds \ {f} : local'[g] = local[g]
          /\ \A g \in FiberIds : local[g] \in Nat
      BY <1>0, <2>5
    <3>3. \A g \in FiberIds, q \in Nat : q < local[g] => q < local'[g]
      BY <2>5, <3>1, <3>2
    <3>4. Taken \subseteq Taken'
      BY <2>1, <2>2, <3>3
    <3>5. p \in Taken'
      BY <2>2, <3>1, <3>2
    <3>6. ~(p < local[f])
      BY <2>5, <3>1, <3>2
    <3>7. p \notin Taken
      BY <2>1, <3>6, Strides
    <3>8. fiber' = [fiber EXCEPT ![f] = [at |-> "run", seq |-> p]]
      BY <2>5 DEF TakePiece
    <3> QED BY <3>1, <3>4, <3>5, <3>7, <3>8
  <2> QED BY <2>3, <2>4, <2>5
<1> QED BY <1>1, <1>2, <1>3 DEF IInv, TypeInv

-----------------------------------------------------------------------------

\* Nothing is taken at first.
LEMMA InitIInv == Init => IInv
<1> SUFFICES ASSUME Init PROVE IInv
  OBVIOUS
<1>1. TypeInv
  BY ModesAssumption, OrdersAssumption DEF Init, TypeInv, Claiming, Places
<1>2. Carried = {} /\ \A f \in FiberIds : ~Holds(f)
  BY DEF Init, Carried, Claiming, Holds
<1>3. /\ channel = <<>> /\ written = <<>> /\ pending = {} /\ ToSet(channel) = {}
      /\ ToSet(written) = {} /\ IsInjective(channel) /\ IsInjective(written)
  BY DEF Init, ToSet, IsInjective
<1>4. PlacesInv /\ TakenInv
  BY <1>2, <1>3 DEF PlacesInv, TakenInv
<1>5. OrderInv
  BY DEF Init, OrderInv
<1> QED BY <1>1, <1>4, <1>5 DEF IInv

\* What a fiber does with its piece leaves the others' alone.
LEMMA CarriedAfter ==
    ASSUME TypeInv, NEW f \in FiberIds, NEW x \in [at : Places, seq : Nat],
           fiber' = [fiber EXCEPT ![f] = x]
    PROVE  /\ fiber' \in [FiberIds -> [at : Places, seq : Nat]]
           /\ fiber'[f] = x /\ \A g \in FiberIds \ {f} : fiber'[g] = fiber[g]
           /\ x.at \in {"run", "panicked"} => Carried' \subseteq Carried \cup {x.seq}
           /\ x.at \notin {"run", "panicked"} => Carried' \subseteq Carried
<1>1. /\ fiber' \in [FiberIds -> [at : Places, seq : Nat]]
      /\ fiber'[f] = x /\ \A g \in FiberIds \ {f} : fiber'[g] = fiber[g]
  BY DEF TypeInv
<1>2. ASSUME NEW p \in Carried'
      PROVE  \/ x.at \in {"run", "panicked"} /\ p = x.seq
             \/ p \in Carried
  <2>1. PICK g \in FiberIds : fiber'[g].at \in {"run", "panicked"} /\ p = fiber'[g].seq
    BY <1>2 DEF Carried
  <2> QED BY <1>1, <2>1 DEF Carried
<1> QED BY <1>1, <1>2

\* A claim hands a fiber a piece nobody had, under a number nobody has.
LEMMA ClaimStep ==
    ASSUME IInv, NEW f \in FiberIds, Claim(f)
    PROVE  IInv'
<1>1. /\ mode' = mode /\ unordered' = unordered /\ channel' = channel /\ pending' = pending
      /\ expected' = expected /\ written' = written
  BY DEF Claim, options
<1>2. next_chunk' \in Nat /\ local' \in [FiberIds -> Nat]
  <2>1. next_chunk \in Nat /\ local \in [FiberIds -> Nat] /\ local[f] \in Nat
    BY DEF IInv, TypeInv
  <2>2. CASE next_chunk' = next_chunk + 1 /\ local' = local
    BY <2>1, <2>2
  <2>3. CASE next_chunk' = next_chunk /\ \E n \in Nat : local' = [local EXCEPT ![f] = n]
    BY <2>1, <2>3
  <2>4. CASE next_chunk' = next_chunk /\ local' = local
    BY <2>1, <2>4
  <2>5. CASE next_chunk' = next_chunk /\ local' = [local EXCEPT ![f] = @ + 1]
    <3>1. local[f] + 1 \in Nat
      BY <2>1
    <3> QED BY <2>3, <2>5, <3>1
  <2>6. CASE /\ next_chunk' = next_chunk
             /\ \E p \in Strided(f) : local' = [local EXCEPT ![f] = p + 1]
    <3>1. \A p \in Strided(f) : p + 1 \in Nat
      BY DEF Strided
    <3> QED BY <2>3, <2>6, <3>1
  <2> QED BY <2>2, <2>4, <2>5, <2>6 DEF Claim
<1>3. Taken \subseteq Taken'
  BY ClaimIsNew
<1>4. CASE fiber' = [fiber EXCEPT ![f] = Ended]
  <2>1. Ended \in [at : Places, seq : Nat] /\ Ended.at = "ended"
    BY DEF Ended, Places
  <2>2. /\ fiber' \in [FiberIds -> [at : Places, seq : Nat]] /\ Carried' \subseteq Carried
        /\ fiber'[f] = Ended /\ \A g \in FiberIds \ {f} : fiber'[g] = fiber[g]
    BY <1>4, <2>1, CarriedAfter DEF IInv
  <2>3. TypeInv'
    BY <1>1, <1>2, <2>2 DEF IInv, TypeInv
  <2>4. \A g \in FiberIds : Holds(g)' => g # f /\ Holds(g) /\ fiber'[g] = fiber[g]
    BY <2>1, <2>2 DEF Holds
  <2>5. PlacesInv' /\ TakenInv'
    BY <1>1, <1>3, <2>2, <2>4 DEF IInv, PlacesInv, TakenInv
  <2> QED BY <1>1, <2>3, <2>5 DEF IInv, OrderInv
<1>5. ASSUME NEW p \in Nat, fiber' = [fiber EXCEPT ![f] = [at |-> "run", seq |-> p]],
             p \notin Taken, p \in Taken'
      PROVE  IInv'
  <2> DEFINE x == [at |-> "run", seq |-> p]
  <2>1. x \in [at : Places, seq : Nat] /\ x.at = "run" /\ x.seq = p
    BY DEF Places
  <2>2. /\ fiber' \in [FiberIds -> [at : Places, seq : Nat]]
        /\ Carried' \subseteq Carried \cup {p}
        /\ fiber'[f] = x /\ \A g \in FiberIds \ {f} : fiber'[g] = fiber[g]
    BY <1>5, <2>1, CarriedAfter DEF IInv
  <2> HIDE DEF x
  <2>3. TypeInv'
    BY <1>1, <1>2, <2>2 DEF IInv, TypeInv
  <2>4. p \notin Carried \cup ToSet(channel) \cup ToSet(written) \cup pending
    BY <1>5 DEF IInv, TakenInv
  <2>5. \A g \in FiberIds : Holds(g) => fiber[g].seq \in Carried
    BY DEF Holds, Carried
  <2>6. \A g \in FiberIds \ {f} : Holds(g)' => Holds(g) /\ fiber[g].seq # p
    BY <2>2, <2>4, <2>5 DEF Holds
  <2>7. \A g, k \in FiberIds : g # k /\ Holds(g)' /\ Holds(k)' => fiber'[g].seq # fiber'[k].seq
    BY <2>1, <2>2, <2>6 DEF IInv, PlacesInv
  <2>8. PlacesInv'
    BY <1>1, <2>2, <2>4, <2>7 DEF IInv, PlacesInv
  <2>9. TakenInv'
    BY <1>1, <1>3, <1>5, <2>2 DEF IInv, TakenInv
  <2> QED BY <1>1, <2>3, <2>8, <2>9 DEF IInv, OrderInv
<1> QED BY <1>4, <1>5, ClaimIsNew

\* A piece that was run moves from its fiber to the channel.
LEMMA RunAndSendStep ==
    ASSUME IInv, NEW f \in FiberIds, RunAndSend(f)
    PROVE  IInv'
<1> DEFINE p == fiber[f].seq
<1>1. /\ Holds(f) /\ fiber' = [fiber EXCEPT ![f] = Claiming] /\ channel' = Append(channel, p)
      /\ mode' = mode /\ unordered' = unordered /\ next_chunk' = next_chunk
      /\ local' = local /\ pending' = pending /\ expected' = expected /\ written' = written
  BY DEF RunAndSend, options, Holds
<1>2. p \in Nat /\ p \in Carried /\ channel \in Seq(Nat)
  BY <1>1 DEF IInv, TypeInv, Carried, Holds
<1>3. Claiming \in [at : Places, seq : Nat] /\ Claiming.at = "claim"
  BY DEF Claiming, Places
<1>4. /\ fiber' \in [FiberIds -> [at : Places, seq : Nat]] /\ Carried' \subseteq Carried
      /\ fiber'[f] = Claiming /\ \A g \in FiberIds \ {f} : fiber'[g] = fiber[g]
  BY <1>1, <1>3, CarriedAfter DEF IInv
<1>5. \A g \in FiberIds : Holds(g)' => g # f /\ Holds(g) /\ fiber'[g] = fiber[g]
  BY <1>3, <1>4 DEF Holds
<1>6. \A g \in FiberIds : Holds(g)' => fiber'[g].seq # p
  BY <1>1, <1>5 DEF IInv, PlacesInv
<1>7. p \notin Carried'
  BY <1>6 DEF Carried, Holds
<1>8. p \notin ToSet(channel) /\ p \notin ToSet(written) /\ p \notin pending
  BY <1>2 DEF IInv, PlacesInv
<1> HIDE DEF p
<1>9. IsInjective(channel') /\ ToSet(channel') = ToSet(channel) \cup {p}
  BY <1>1, <1>2, <1>8, Appended DEF IInv, PlacesInv
<1>10. TypeInv'
  BY <1>1, <1>2, <1>4 DEF IInv, TypeInv
<1>11. \A g, k \in FiberIds : g # k /\ Holds(g)' /\ Holds(k)' => fiber'[g].seq # fiber'[k].seq
  BY <1>5 DEF IInv, PlacesInv
<1>12. PlacesInv'
  BY <1>1, <1>4, <1>7, <1>8, <1>9, <1>11 DEF IInv, PlacesInv
<1>13. Taken' = Taken
  BY <1>1 DEF Taken
<1>14. TakenInv'
  BY <1>1, <1>2, <1>4, <1>9, <1>13 DEF IInv, TakenInv
<1> QED BY <1>1, <1>10, <1>12, <1>14 DEF IInv, OrderInv

\* A panic ends the fiber; the piece it had is the only one lost.
LEMMA RunPanicsStep ==
    ASSUME IInv, NEW f \in FiberIds, RunPanics(f)
    PROVE  IInv'
<1> DEFINE p == fiber[f].seq
<1>1. /\ Holds(f) /\ fiber' = [fiber EXCEPT ![f] = Panicked(p)] /\ channel' = channel
      /\ mode' = mode /\ unordered' = unordered /\ next_chunk' = next_chunk
      /\ local' = local /\ pending' = pending /\ expected' = expected /\ written' = written
  BY DEF RunPanics, options, Holds
<1>2. p \in Nat /\ p \in Carried
  BY <1>1 DEF IInv, TypeInv, Carried, Holds
<1>3. /\ Panicked(p) \in [at : Places, seq : Nat] /\ Panicked(p).seq = p
      /\ Panicked(p).at = "panicked"
  BY <1>2 DEF Panicked, Places
<1>4. /\ fiber' \in [FiberIds -> [at : Places, seq : Nat]] /\ Carried' \subseteq Carried \cup {p}
      /\ fiber'[f] = Panicked(p) /\ \A g \in FiberIds \ {f} : fiber'[g] = fiber[g]
  BY <1>1, <1>3, CarriedAfter DEF IInv
<1>5. \A g \in FiberIds : Holds(g)' => Holds(g) /\ fiber'[g].seq = fiber[g].seq
  BY <1>1, <1>3, <1>4 DEF Holds
<1>6. Carried' \subseteq Carried
  BY <1>2, <1>4
<1> HIDE DEF p
<1>7. TypeInv'
  BY <1>1, <1>4 DEF IInv, TypeInv
<1>8. \A g, k \in FiberIds : g # k /\ Holds(g)' /\ Holds(k)' => fiber'[g].seq # fiber'[k].seq
  BY <1>5 DEF IInv, PlacesInv
<1>9. PlacesInv'
  BY <1>1, <1>6, <1>8 DEF IInv, PlacesInv
<1>10. Taken' = Taken
  BY <1>1 DEF Taken
<1>11. TakenInv'
  BY <1>1, <1>6, <1>10 DEF IInv, TakenInv
<1> QED BY <1>1, <1>7, <1>9, <1>11 DEF IInv, OrderInv

\* A message moves from the channel to the writer's pending pieces, or straight
\* to the output when the writer does not order.
LEMMA ReceiveStep == ASSUME IInv, Receive PROVE IInv'
<1> DEFINE p == Head(channel)
<1>1. /\ channel # <<>> /\ channel' = Tail(channel)
      /\ mode' = mode /\ unordered' = unordered /\ next_chunk' = next_chunk
      /\ local' = local /\ fiber' = fiber /\ expected' = expected
      /\ \/ unordered /\ written' = Append(written, p) /\ pending' = pending
         \/ ~unordered /\ pending' = pending \cup {p} /\ written' = written
  BY DEF Receive, options
<1>2. channel \in Seq(Nat) /\ written \in Seq(Nat) /\ IsInjective(channel)
  BY DEF IInv, TypeInv, PlacesInv
<1>3. /\ p \in ToSet(channel) /\ p \in Nat /\ channel' \in Seq(Nat)
      /\ ToSet(channel') = ToSet(channel) \ {p} /\ IsInjective(channel')
  BY <1>1, <1>2, Tailed
<1> HIDE DEF p
<1>4. p \notin ToSet(written) /\ p \notin pending /\ p \notin Carried
  BY <1>3 DEF IInv, PlacesInv
<1>5. Carried' = Carried /\ Taken' = Taken /\ \A f \in FiberIds : Holds(f)' = Holds(f)
  BY <1>1 DEF Carried, Taken, Holds
<1>6. CASE unordered /\ written' = Append(written, p) /\ pending' = pending
  <2>1. /\ written' \in Seq(Nat) /\ ToSet(written') = ToSet(written) \cup {p}
        /\ IsInjective(written')
    BY <1>2, <1>3, <1>4, <1>6, Appended DEF IInv, PlacesInv
  <2>2. TypeInv'
    BY <1>1, <1>3, <1>6, <2>1 DEF IInv, TypeInv
  <2>3. PlacesInv'
    BY <1>1, <1>3, <1>4, <1>5, <1>6, <2>1 DEF IInv, PlacesInv
  <2>4. TakenInv'
    BY <1>3, <1>5, <1>6, <2>1 DEF IInv, TakenInv
  <2> QED BY <1>1, <1>6, <2>2, <2>3, <2>4 DEF IInv, OrderInv
<1>7. CASE ~unordered /\ pending' = pending \cup {p} /\ written' = written
  <2>1. TypeInv'
    BY <1>1, <1>3, <1>7 DEF IInv, TypeInv
  <2>2. PlacesInv'
    BY <1>1, <1>3, <1>4, <1>5, <1>7 DEF IInv, PlacesInv
  <2>3. TakenInv'
    BY <1>3, <1>5, <1>7 DEF IInv, TakenInv
  <2> QED BY <1>1, <1>7, <2>1, <2>2, <2>3 DEF IInv, OrderInv
<1> QED BY <1>1, <1>6, <1>7

\* The ordered writer takes the pending piece with the expected number, and
\* expects the next.
LEMMA WriteNextStep == ASSUME IInv, WriteNext PROVE IInv'
<1>1. /\ ~unordered /\ expected \in pending /\ pending' = pending \ {expected}
      /\ written' = Append(written, expected) /\ expected' = expected + 1
      /\ mode' = mode /\ unordered' = unordered /\ next_chunk' = next_chunk
      /\ local' = local /\ fiber' = fiber /\ channel' = channel
  BY DEF WriteNext, AtHand, options
<1>2. /\ written \in Seq(Nat) /\ expected \in Nat /\ IsInjective(written)
      /\ expected \notin ToSet(written) /\ expected \notin ToSet(channel)
      /\ expected \notin Carried
  BY <1>1 DEF IInv, TypeInv, PlacesInv
<1>3. /\ written' \in Seq(Nat) /\ ToSet(written') = ToSet(written) \cup {expected}
      /\ IsInjective(written')
  BY <1>1, <1>2, Appended
<1>4. Carried' = Carried /\ Taken' = Taken /\ \A f \in FiberIds : Holds(f)' = Holds(f)
  BY <1>1 DEF Carried, Taken, Holds
<1>5. TypeInv'
  BY <1>1, <1>3 DEF IInv, TypeInv
<1>6. PlacesInv'
  BY <1>1, <1>2, <1>3, <1>4 DEF IInv, PlacesInv
<1>7. TakenInv'
  BY <1>1, <1>3, <1>4 DEF IInv, TakenInv
<1>8. OrderInv'
  <2>1. Len(written) = expected /\ \A i \in 1 .. Len(written) : written[i] = i - 1
    BY <1>1, <1>2 DEF IInv, OrderInv
  <2>2. /\ Len(written') = Len(written) + 1 /\ DOMAIN written' = 1 .. Len(written) + 1
        /\ \A i \in 1 .. Len(written) : written'[i] = written[i]
        /\ written'[Len(written) + 1] = expected
    BY <1>1, <1>2
  <2>3. \A i \in DOMAIN written' : i \in 1 .. Len(written) \/ i = Len(written) + 1
    BY <1>2, <2>1, <2>2
  <2>4. \A i \in DOMAIN written' : written'[i] = i - 1
    BY <1>2, <2>1, <2>2, <2>3
  <2> QED BY <1>1, <2>1, <2>2, <2>4 DEF OrderInv
<1> QED BY <1>5, <1>6, <1>7, <1>8 DEF IInv

\* Ending, and steps that change nothing here.
LEMMA NothingMoves ==
    ASSUME IInv, UNCHANGED <<options, next_chunk, local, fiber, channel, pending, expected,
                             written>>
    PROVE  IInv'
<1>1. Carried' = Carried /\ Taken' = Taken /\ \A f \in FiberIds : Holds(f)' = Holds(f)
  BY DEF Carried, Taken, Holds, options
<1> QED BY <1>1 DEF IInv, TypeInv, PlacesInv, TakenInv, OrderInv, options

\* Every step keeps the invariant: one case per action.
LEMMA NextIInv == IInv /\ [Next]_vars => IInv'
<1> SUFFICES ASSUME IInv, [Next]_vars PROVE IInv'
  OBVIOUS
<1>1. CASE UNCHANGED vars
  BY <1>1, NothingMoves DEF vars, options
<1>2. CASE Receive
  BY <1>2, ReceiveStep
<1>3. CASE WriteNext
  BY <1>3, WriteNextStep
<1>4. CASE Flush
  BY <1>4, NothingMoves DEF Flush
<1>5. ASSUME NEW f \in FiberIds, FiberStep(f) PROVE IInv'
  BY <1>5, ClaimStep, RunAndSendStep, RunPanicsStep DEF FiberStep
<1> QED BY <1>1, <1>2, <1>3, <1>4, <1>5 DEF Next, WriterStep

-----------------------------------------------------------------------------
(* Nothing is left out.                                                    *)

LEMMA InitComplete == Init => CompleteInv
<1> SUFFICES ASSUME Init PROVE CompleteInv
  OBVIOUS
<1>2. Taken = {}
  BY CountAssumption, ModesAssumption DEF Init, Taken, Strided
<1>3. pending = {} /\ writing = TRUE /\ \A f \in FiberIds : fiber[f].at = "claim"
  BY DEF Init, Claiming
<1> QED BY <1>2, <1>3 DEF CompleteInv, ProgressInv, Holds

\* A claim takes at most one piece more, and hands it to the fiber; a fiber that
\* gets none is at the end of its pieces (the claim loops of `run` and
\* `run_traversals`).
LEMMA ClaimTakes ==
    ASSUME IInv, NEW f \in FiberIds, Claim(f)
    PROVE  \/ /\ fiber' = [fiber EXCEPT ![f] = Ended]
              /\ Taken' \cap Pieces \subseteq Taken /\ Exhausted(f)'
           \/ \E p \in Nat :
                /\ fiber' = [fiber EXCEPT ![f] = [at |-> "run", seq |-> p]]
                /\ Taken' \subseteq Taken \cup {p}
                /\ mode = "shared" => p < next_chunk'
                /\ mode = "per_fiber" => p + 1 = FirstOwn(f) + local'[f]
                /\ mode = "stride" => p + 1 = local'[f]
<1>0. /\ next_chunk \in Nat /\ local \in [FiberIds -> Nat] /\ local[f] \in Nat
      /\ f \in Nat /\ ChunkCount \in Nat /\ mode' = mode
  BY CountAssumption DEF IInv, TypeInv, FiberIds, Claim, options
<1>1. CASE mode = "shared"
  <2>1. /\ next_chunk' = next_chunk + 1
        /\ TakePiece(f, next_chunk < ChunkCount, next_chunk)
    BY <1>1 DEF Claim
  <2>2. Taken = {p \in Nat : p < next_chunk} /\ Taken' = {p \in Nat : p < next_chunk'}
    BY <1>0, <1>1 DEF Taken
  <2>3. Taken' \subseteq Taken \cup {next_chunk} /\ next_chunk < next_chunk'
    BY <1>0, <2>1, <2>2
  <2>4. CASE next_chunk < ChunkCount
    BY <1>0, <1>1, <2>1, <2>3, <2>4 DEF TakePiece
  <2>5. CASE ~(next_chunk < ChunkCount)
    <3>1. Pieces = 0 .. (ChunkCount - 1)
      BY <1>1 DEF Pieces
    <3>2. Taken' \cap Pieces \subseteq Taken /\ next_chunk' >= ChunkCount
      BY <1>0, <2>1, <2>2, <2>5, <3>1
    <3> QED BY <1>0, <1>1, <2>1, <2>5, <3>2 DEF TakePiece, Exhausted
  <2> QED BY <2>4, <2>5
<1>2. CASE mode = "per_fiber"
  <2> DEFINE p == FirstOwn(f) + local[f]
  <2>1. /\ local' = [local EXCEPT ![f] = @ + 1]
        /\ TakePiece(f, local[f] < ChunkCount, p)
    BY <1>2 DEF Claim
  <2>2. /\ local'[f] = local[f] + 1 /\ \A g \in FiberIds \ {f} : local'[g] = local[g]
        /\ \A g \in FiberIds : local[g] \in Nat
    BY <1>0, <2>1
  <2>3. Taken = {q \in Nat : \E g \in FiberIds, i \in 0 .. (ChunkCount - 1) :
                   i < local[g] /\ q = FirstOwn(g) + i}
    BY <1>2 DEF Taken
  <2>4. Taken' = {q \in Nat : \E g \in FiberIds, i \in 0 .. (ChunkCount - 1) :
                    i < local'[g] /\ q = FirstOwn(g) + i}
    BY <1>0, <1>2 DEF Taken
  <2>5. ASSUME NEW g \in FiberIds, NEW i \in 0 .. (ChunkCount - 1), i < local'[g]
        PROVE  i < local[g] \/ (g = f /\ i = local[f])
    BY <1>0, <2>2, <2>5
  <2>6. Taken' \subseteq Taken \cup {p}
    BY <2>3, <2>4, <2>5
  <2>7. p \in Nat /\ FirstOwn(f) \in Nat
    BY <1>0 DEF FirstOwn
  <2>8. CASE local[f] < ChunkCount
    <3>1. p + 1 = FirstOwn(f) + local'[f]
      BY <1>0, <2>2, <2>7
    <3> HIDE DEF p
    <3> QED BY <1>2, <2>1, <2>6, <2>7, <2>8, <3>1 DEF TakePiece
  <2>9. CASE ~(local[f] < ChunkCount)
    <3>1. \A g \in FiberIds, i \in 0 .. (ChunkCount - 1) : i < local'[g] => i < local[g]
      BY <1>0, <2>5, <2>9
    <3>2. Taken' \subseteq Taken
      BY <2>3, <2>4, <3>1
    <3>3. Exhausted(f)'
      BY <1>0, <1>2, <2>2, <2>9 DEF Exhausted
    <3> QED BY <2>1, <2>9, <3>2, <3>3 DEF TakePiece
  <2> QED BY <2>8, <2>9
<1>3. CASE mode = "stride"
  <2>1. Taken = {q \in Nat : \E g \in FiberIds : q \in Strided(g) /\ q < local[g]}
    BY <1>3 DEF Taken
  <2>2. Taken' = {q \in Nat : \E g \in FiberIds : q \in Strided(g) /\ q < local'[g]}
    BY <1>0, <1>3 DEF Taken
  <2>3. \/ \E p \in Strided(f) :
             /\ p >= local[f]
             /\ \A q \in Strided(f) : q >= local[f] => p <= q
             /\ local' = [local EXCEPT ![f] = p + 1] /\ TakePiece(f, TRUE, p)
        \/ /\ \A q \in Strided(f) : ~(q >= local[f])
           /\ TakePiece(f, FALSE, 0) /\ UNCHANGED local
    BY <1>3 DEF Claim
  <2>4. CASE /\ \A q \in Strided(f) : ~(q >= local[f])
             /\ TakePiece(f, FALSE, 0) /\ UNCHANGED local
    <3>1. \A q \in Strided(f) : q \in Nat
      BY DEF Strided
    <3>2. \A q \in Strided(f) : q < local'[f]
      BY <1>0, <2>4, <3>1
    <3> QED BY <1>0, <1>3, <2>1, <2>2, <2>4, <3>2 DEF TakePiece, Exhausted
  <2>5. ASSUME NEW p \in Strided(f), p >= local[f],
               \A q \in Strided(f) : q >= local[f] => p <= q,
               local' = [local EXCEPT ![f] = p + 1], TakePiece(f, TRUE, p)
        PROVE  /\ Taken' \subseteq Taken \cup {p} /\ p \in Nat
               /\ fiber' = [fiber EXCEPT ![f] = [at |-> "run", seq |-> p]]
               /\ p + 1 = local'[f]
    <3>1. p \in Nat /\ \A g \in FiberIds : \A q \in Strided(g) : q \in Nat
      BY DEF Strided
    <3>2. /\ local'[f] = p + 1 /\ \A g \in FiberIds \ {f} : local'[g] = local[g]
          /\ \A g \in FiberIds : local[g] \in Nat
      BY <1>0, <2>5
    <3>3. ASSUME NEW g \in FiberIds, NEW q \in Strided(g), q < local'[g]
          PROVE  q < local[g] \/ q = p
      BY <2>5, <3>1, <3>2, <3>3
    <3>4. Taken' \subseteq Taken \cup {p}
      BY <2>1, <2>2, <3>3
    <3>5. fiber' = [fiber EXCEPT ![f] = [at |-> "run", seq |-> p]]
      BY <2>5 DEF TakePiece
    <3> QED BY <3>1, <3>2, <3>4, <3>5
  <2> QED BY <1>3, <2>3, <2>4, <2>5
<1> QED BY <1>1, <1>2, <1>3 DEF IInv, TypeInv

\* A step that ends no fiber and takes nothing keeps what fibers know of their
\* own pieces.
LEMMA OthersKeep ==
    ASSUME ProgressInv, mode' = mode, next_chunk' = next_chunk, local' = local,
           \A g \in FiberIds : /\ fiber'[g].at = "ended" => fiber[g].at = "ended"
                               /\ Holds(g)' => Holds(g) /\ fiber'[g].seq = fiber[g].seq
    PROVE  /\ \A g \in FiberIds : fiber'[g].at = "ended" => Exhausted(g)'
           /\ \A g \in FiberIds : Holds(g)' => LastTaken(g)'
           /\ Taken' = Taken /\ Pieces' = Pieces
BY DEF ProgressInv, Exhausted, LastTaken, Taken, Pieces

LEMMA ClaimProgress ==
    ASSUME IInv, ProgressInv, NEW f \in FiberIds, Claim(f)
    PROVE  ProgressInv'
<1>1. /\ mode' = mode /\ unordered' = unordered /\ channel' = channel /\ pending' = pending
      /\ written' = written /\ fiber[f].at = "claim" /\ Pieces' = Pieces
  BY DEF Claim, options, Pieces
<1>2. fiber \in [FiberIds -> [at : Places, seq : Nat]] /\ local \in [FiberIds -> Nat]
  BY DEF IInv, TypeInv
<1>3. /\ next_chunk' = next_chunk \/ (next_chunk' = next_chunk + 1 /\ next_chunk \in Nat)
      /\ \A g \in FiberIds \ {f} : local'[g] = local[g]
  <2>1. mode = "shared" =>
          next_chunk' = next_chunk + 1 /\ next_chunk \in Nat /\ local' = local
    BY DEF Claim, IInv, TypeInv
  <2>2. mode # "shared" =>
          next_chunk' = next_chunk /\ \A g \in FiberIds \ {f} : local'[g] = local[g]
    BY <1>2 DEF Claim
  <2> QED BY <2>1, <2>2
<1>4. ASSUME NEW x, fiber' = [fiber EXCEPT ![f] = x]
      PROVE  /\ fiber'[f] = x /\ \A g \in FiberIds \ {f} : fiber'[g] = fiber[g]
             /\ \A g \in FiberIds \ {f} : fiber'[g].at = "ended" => Exhausted(g)'
             /\ \A g \in FiberIds \ {f} : Holds(g)' => LastTaken(g)'
             /\ Carried \subseteq Carried'
  <2>1. fiber'[f] = x /\ \A g \in FiberIds \ {f} : fiber'[g] = fiber[g]
    BY <1>2, <1>4
  <2>2. ASSUME NEW g \in FiberIds \ {f}, fiber'[g].at = "ended" PROVE Exhausted(g)'
    <3>1. Exhausted(g)
      BY <2>1, <2>2 DEF ProgressInv
    <3> QED BY <1>1, <1>3, <3>1, CountAssumption DEF Exhausted
  <2>3. ASSUME NEW g \in FiberIds \ {f}, Holds(g)' PROVE LastTaken(g)'
    <3>1. LastTaken(g) /\ fiber[g].seq \in Nat
      BY <1>2, <2>1, <2>3 DEF ProgressInv, Holds
    <3> QED BY <1>1, <1>3, <2>1, <3>1 DEF LastTaken
  <2>4. Carried \subseteq Carried'
    <3> SUFFICES ASSUME NEW g \in FiberIds, fiber[g].at \in {"run", "panicked"}
                 PROVE  fiber[g].seq \in Carried'
      BY DEF Carried
    <3>1. g # f
      BY <1>1
    <3> QED BY <2>1, <3>1 DEF Carried
  <2> QED BY <2>1, <2>2, <2>3, <2>4
<1>5. CASE /\ fiber' = [fiber EXCEPT ![f] = Ended]
           /\ Taken' \cap Pieces \subseteq Taken /\ Exhausted(f)'
  <2>1. /\ fiber'[f] = Ended /\ Ended.at = "ended"
        /\ \A g \in FiberIds \ {f} : fiber'[g].at = "ended" => Exhausted(g)'
        /\ \A g \in FiberIds \ {f} : Holds(g)' => LastTaken(g)'
        /\ Carried \subseteq Carried'
    BY <1>4, <1>5 DEF Ended
  <2>2. Taken' \cap Pieces' \subseteq Somewhere'
    BY <1>1, <1>5, <2>1 DEF ProgressInv, Somewhere
  <2>3. \A g \in FiberIds : Holds(g)' => LastTaken(g)'
    BY <2>1 DEF Holds
  <2>4. \A g \in FiberIds : fiber'[g].at = "ended" => Exhausted(g)'
    BY <1>5, <2>1
  <2> QED BY <1>1, <2>2, <2>3, <2>4 DEF ProgressInv
<1>6. ASSUME NEW p \in Nat, fiber' = [fiber EXCEPT ![f] = [at |-> "run", seq |-> p]],
             Taken' \subseteq Taken \cup {p},
             mode = "shared" => p < next_chunk',
             mode = "per_fiber" => p + 1 = FirstOwn(f) + local'[f],
             mode = "stride" => p + 1 = local'[f]
      PROVE  ProgressInv'
  <2>1. /\ fiber'[f] = [at |-> "run", seq |-> p]
        /\ \A g \in FiberIds \ {f} : fiber'[g].at = "ended" => Exhausted(g)'
        /\ \A g \in FiberIds \ {f} : Holds(g)' => LastTaken(g)'
        /\ Carried \subseteq Carried'
    BY <1>4, <1>6
  <2>2. fiber'[f].at = "run" /\ fiber'[f].seq = p
    BY <2>1
  <2>3. p \in Carried'
    BY <2>2 DEF Carried
  <2>4. Taken' \cap Pieces' \subseteq Somewhere'
    BY <1>1, <1>6, <2>1, <2>3 DEF ProgressInv, Somewhere
  <2>5. LastTaken(f)'
    BY <1>1, <1>6, <2>2 DEF LastTaken
  <2>6. \A g \in FiberIds : Holds(g)' => LastTaken(g)'
    BY <2>1, <2>5
  <2>7. \A g \in FiberIds : fiber'[g].at = "ended" => Exhausted(g)'
    BY <2>1, <2>2
  <2> QED BY <1>1, <2>4, <2>6, <2>7 DEF ProgressInv
<1> QED BY <1>5, <1>6, ClaimTakes

\* A piece that was run is on the channel, one that panicked with its fiber.
LEMMA RunProgress ==
    ASSUME IInv, ProgressInv, NEW f \in FiberIds, RunAndSend(f) \/ RunPanics(f)
    PROVE  ProgressInv'
<1> DEFINE p == fiber[f].seq
<1>1. /\ mode' = mode /\ unordered' = unordered /\ next_chunk' = next_chunk
      /\ local' = local /\ pending' = pending /\ written' = written
      /\ fiber[f].at = "run" /\ Holds(f)
  BY DEF RunAndSend, RunPanics, options, Holds
<1>2. /\ fiber \in [FiberIds -> [at : Places, seq : Nat]] /\ channel \in Seq(Nat)
      /\ p \in Nat
  BY DEF IInv, TypeInv
<1>3. \/ fiber' = [fiber EXCEPT ![f] = Claiming] /\ channel' = Append(channel, p)
      \/ fiber' = [fiber EXCEPT ![f] = Panicked(p)] /\ channel' = channel
  BY DEF RunAndSend, RunPanics
<1> HIDE DEF p
<1>4. \A g \in FiberIds \ {f} : fiber'[g] = fiber[g]
  BY <1>2, <1>3
<1>5. \A g \in FiberIds : /\ fiber'[g].at = "ended" => fiber[g].at = "ended"
                          /\ Holds(g)' => Holds(g) /\ fiber'[g].seq = fiber[g].seq
  <2>1. CASE fiber' = [fiber EXCEPT ![f] = Claiming]
    BY <1>2, <1>4, <2>1 DEF Holds, Claiming
  <2>2. CASE fiber' = [fiber EXCEPT ![f] = Panicked(p)]
    BY <1>1, <1>2, <1>4, <2>2 DEF Holds, Panicked, p
  <2> QED BY <1>3, <2>1, <2>2
<1>6. Carried \subseteq Carried' \cup ToSet(channel') /\ ToSet(channel) \subseteq ToSet(channel')
  <2>1. CASE fiber' = [fiber EXCEPT ![f] = Claiming] /\ channel' = Append(channel, p)
    <3>1. ToSet(channel') = ToSet(channel) \cup {p}
      BY <1>2, <2>1, Appended
    <3>2. ASSUME NEW g \in FiberIds, fiber[g].at \in {"run", "panicked"}
          PROVE  fiber[g].seq \in Carried' \cup {p}
      BY <1>4, <3>2 DEF Carried, p
    <3> QED BY <3>1, <3>2 DEF Carried
  <2>2. CASE fiber' = [fiber EXCEPT ![f] = Panicked(p)] /\ channel' = channel
    <3>1. fiber'[f].at = "panicked" /\ fiber'[f].seq = p
      BY <1>2, <2>2 DEF Panicked
    <3>2. ASSUME NEW g \in FiberIds, fiber[g].at \in {"run", "panicked"}
          PROVE  fiber[g].seq \in Carried'
      BY <1>4, <3>1, <3>2 DEF Carried, p
    <3> QED BY <2>2, <3>2 DEF Carried
  <2> QED BY <1>3, <2>1, <2>2
<1>7. Somewhere \subseteq Somewhere'
  BY <1>1, <1>6 DEF Somewhere
<1> QED BY <1>1, <1>5, <1>7, OthersKeep DEF ProgressInv

\* The writer keeps what it received or writes it.
LEMMA WriterProgress ==
    ASSUME IInv, ProgressInv, Receive \/ WriteNext \/ Flush
    PROVE  ProgressInv'
<1>1. /\ mode' = mode /\ unordered' = unordered /\ next_chunk' = next_chunk
      /\ local' = local /\ fiber' = fiber /\ Carried' = Carried
  BY DEF Receive, WriteNext, Flush, options, Carried
<1>2. /\ \A g \in FiberIds : fiber'[g].at = "ended" => Exhausted(g)'
      /\ \A g \in FiberIds : Holds(g)' => LastTaken(g)'
      /\ Taken' = Taken /\ Pieces' = Pieces
  BY <1>1, OthersKeep DEF Holds
<1>3. channel \in Seq(Nat) /\ written \in Seq(Nat) /\ IsInjective(channel)
  BY DEF IInv, TypeInv, PlacesInv
<1>4. Somewhere \subseteq Somewhere' /\ (unordered' => pending' = {})
  <2>1. CASE Receive
    <3> DEFINE p == Head(channel)
    <3>1. /\ channel # <<>> /\ channel' = Tail(channel)
          /\ \/ unordered /\ written' = Append(written, p) /\ pending' = pending
             \/ ~unordered /\ pending' = pending \cup {p} /\ written' = written
      BY <2>1 DEF Receive, options
    <3>2. ToSet(channel') = ToSet(channel) \ {p} /\ p \in Nat
      BY <1>3, <3>1, Tailed
    <3> HIDE DEF p
    <3>3. unordered => ToSet(written') = ToSet(written) \cup {p}
      BY <1>3, <3>1, <3>2, Appended
    <3> QED BY <1>1, <3>1, <3>2, <3>3 DEF Somewhere, ProgressInv
  <2>2. CASE WriteNext
    <3>1. /\ ~unordered /\ pending' = pending \ {expected} /\ channel' = channel
          /\ written' = Append(written, expected) /\ expected \in Nat
      BY <2>2 DEF WriteNext, AtHand, IInv, TypeInv
    <3>2. ToSet(written') = ToSet(written) \cup {expected}
      BY <1>3, <3>1, Appended
    <3> QED BY <1>1, <3>1, <3>2 DEF Somewhere
  <2>3. CASE Flush
    BY <1>1, <2>3 DEF Flush, Somewhere, ProgressInv
  <2> QED BY <2>1, <2>2, <2>3
<1> QED BY <1>1, <1>2, <1>4 DEF ProgressInv

\* A piece that comes before every one a fiber keeps was taken, once all fibers
\* are gone.
LEMMA TakenBefore ==
    ASSUME IInv, ProgressInv, \A f \in FiberIds : Gone(f),
           NEW p \in Pieces, \A q \in Carried : p < q
    PROVE  p \in Taken
<1>1. ASSUME NEW f \in FiberIds
      PROVE  \/ Exhausted(f)
             \/ LastTaken(f) /\ fiber[f].seq \in Nat /\ p < fiber[f].seq
  BY <1>1 DEF Gone, ProgressInv, Holds, Carried, IInv, TypeInv
<1>2. Fibers \in Nat \ {0} /\ ChunkCount \in Nat /\ FiberIds = 0 .. (Fibers - 1)
  BY CountAssumption DEF FiberIds
<1>3. /\ next_chunk \in Nat /\ \A f \in FiberIds : local[f] \in Nat
      /\ mode \in {"shared", "per_fiber", "stride"}
  BY DEF IInv, TypeInv
<1>4. CASE mode = "shared"
  <2>1. p \in 0 .. (ChunkCount - 1)
    BY <1>4 DEF Pieces
  <2>2. 0 \in FiberIds
    BY <1>2
  <2>3. p < next_chunk
    BY <1>1, <1>2, <1>3, <1>4, <2>1, <2>2 DEF Exhausted, LastTaken
  <2> QED BY <1>2, <1>4, <2>1, <2>3 DEF Taken
<1>5. CASE mode = "per_fiber"
  <2> DEFINE f == p \div ChunkCount
             i == p % ChunkCount
  <2>1. p \in 0 .. (Fibers * ChunkCount - 1)
    BY <1>5 DEF Pieces
  <2>2. p \in Nat /\ p < Fibers * ChunkCount /\ ChunkCount > 0
    <3>1. Fibers * ChunkCount \in Nat
      BY <1>2
    <3>2. p \in Nat /\ p < Fibers * ChunkCount
      BY <2>1, <3>1
    <3>3. ChunkCount # 0
      BY <1>2, <3>2
    <3> QED BY <1>2, <3>2, <3>3
  <2>3. /\ p = f * ChunkCount + i /\ f \in Nat /\ i \in 0 .. (ChunkCount - 1)
    BY <1>2, <2>2, SMT
  <2> HIDE DEF f, i
  <2>4. f < Fibers
    <3> SUFFICES ASSUME f >= Fibers PROVE FALSE
      BY <1>2, <2>3
    <3>1. PICK d \in Nat : f = Fibers + d
      <4>1. f - Fibers \in Nat /\ f = Fibers + (f - Fibers)
        BY <1>2, <2>3
      <4> QED BY <4>1
    <3>2. f * ChunkCount = Fibers * ChunkCount + d * ChunkCount
      BY <1>2, <3>1
    <3>3. d * ChunkCount \in Nat /\ Fibers * ChunkCount \in Nat /\ i \in Nat
      BY <1>2, <2>3, <3>1
    <3> QED BY <2>2, <2>3, <3>2, <3>3
  <2>5. f \in FiberIds
    BY <1>2, <2>3, <2>4
  <2>6. FirstOwn(f) \in Nat /\ p = FirstOwn(f) + i /\ local[f] \in Nat
    BY <1>2, <1>3, <2>3, <2>5 DEF FirstOwn
  <2>7. i < local[f]
    <3>1. CASE Exhausted(f)
      BY <1>2, <1>5, <2>3, <2>6, <3>1 DEF Exhausted
    <3>2. CASE LastTaken(f) /\ fiber[f].seq \in Nat /\ p < fiber[f].seq
      <4>1. fiber[f].seq + 1 = FirstOwn(f) + local[f]
        BY <1>5, <3>2 DEF LastTaken
      <4> QED BY SMTT(20), <1>2, <2>3, <2>6, <3>2, <4>1
    <3> QED BY <1>1, <2>5, <3>1, <3>2
  <2> QED BY <1>5, <2>2, <2>3, <2>5, <2>6, <2>7 DEF Taken
<1>6. CASE mode = "stride"
  <2>1. p \in 0 .. (Offset[Len(Streams) + 1] - 1)
    BY <1>6 DEF Pieces
  <2>2. PICK t \in DOMAIN Streams : Offset[t] <= p /\ p < Offset[t] + Streams[t]
    BY <2>1, InSomeStream
  <2> DEFINE f == (p - Offset[t]) % Fibers
  <2>3. p - Offset[t] \in Nat
    <3>1. t \in 1 .. (Len(Streams) + 1) /\ p \in Nat
      BY <2>1, StreamsAssumption
    <3>2. Offset[t] \in Nat
      BY <3>1, OffsetAssumption
    <3> QED BY <2>2, <3>1, <3>2
  <2>4. f \in FiberIds /\ p \in Strided(f)
    <3>1. f \in FiberIds
      BY <1>2, <2>3, SMT
    <3> QED BY <2>1, <2>2, <3>1 DEF Strided
  <2> HIDE DEF f
  <2>5. p \in Nat /\ local[f] \in Nat
    BY <1>3, <2>1, <2>4
  <2>6. p < local[f]
    BY <1>1, <1>6, <2>4, <2>5 DEF Exhausted, LastTaken
  <2> QED BY <1>6, <2>4, <2>5, <2>6 DEF Taken
<1> QED BY <1>3, <1>4, <1>5, <1>6

\* The pieces are the numbers from 0 to the last.
LEMMA PiecesInitial ==
    ASSUME IInv, NEW p \in Pieces
    PROVE  p \in Nat /\ \A q \in Nat : q <= p => q \in Pieces
<1> DEFINE last == (CASE mode = "shared" -> ChunkCount
                      [] mode = "per_fiber" -> Fibers * ChunkCount
                      [] mode = "stride" -> Offset[Len(Streams) + 1]) - 1
<1>1. Offset[Len(Streams) + 1] \in Nat
  BY StreamsAssumption, OffsetAssumption
<1>2. last \in Int /\ Pieces = 0 .. last
  BY <1>1, CountAssumption DEF IInv, TypeInv, Pieces
<1> HIDE DEF last
<1> QED BY <1>2

\* When the writer flushes, nothing that could be written is left (`drop(tx)`,
\* the writer's loop).
LEMMA FlushIsComplete ==
    ASSUME IInv, ProgressInv, Flush
    PROVE  OutputIsComplete' /\ \A f \in FiberIds : Gone(f)'
<1>1. /\ ~AtHand /\ channel = <<>> /\ fiber' = fiber /\ written' = written /\ mode' = mode
      /\ \A f \in FiberIds : Gone(f)
  BY DEF Flush, Gone, options
<1>2. \A f \in FiberIds : Gone(f)'
  BY <1>1 DEF Gone
<1>3. Pieces' = Pieces /\ Carried' = Carried
  BY <1>1 DEF Pieces, Carried
<1> SUFFICES ASSUME NEW p \in Pieces, \A q \in Carried : p < q PROVE p \in ToSet(written)
  BY <1>1, <1>2, <1>3 DEF OutputIsComplete
<1>4. p \in Nat
  BY PiecesInitial
<1>5. ASSUME NEW q \in Nat, q <= p PROVE q \in ToSet(written) \cup pending
  <2>1. q \in Pieces
    BY <1>4, <1>5, PiecesInitial
  <2>2. \A r \in Carried : q < r
    <3>1. \A r \in Carried : r \in Nat
      BY DEF Carried, IInv, TypeInv
    <3> QED BY <1>4, <1>5, <3>1
  <2>3. q \in Somewhere
    BY <1>1, <2>1, <2>2, TakenBefore DEF ProgressInv
  <2>4. q \notin Carried
    BY <1>5, <2>2
  <2>5. ToSet(channel) = {}
    BY <1>1 DEF ToSet
  <2> QED BY <2>3, <2>4, <2>5 DEF Somewhere
<1>6. CASE unordered
  BY <1>4, <1>5, <1>6 DEF ProgressInv
<1>7. CASE ~unordered
  <2>1. /\ written \in Seq(Nat) /\ Len(written) = expected /\ expected \in Nat
        /\ \A i \in DOMAIN written : written[i] = i - 1
    BY <1>7 DEF IInv, TypeInv, OrderInv
  <2>2. ASSUME p >= expected PROVE FALSE
    <3>1. expected \in ToSet(written) \cup pending
      BY <1>4, <1>5, <2>1, <2>2
    <3>2. expected \notin pending
      BY <1>1, <1>7 DEF AtHand
    <3>3. PICK i \in DOMAIN written : written[i] = expected
      BY <3>1, <3>2 DEF ToSet
    <3>4. i \in 1 .. expected /\ i - 1 = expected
      BY <2>1, <3>3
    <3> QED BY <2>1, <3>4
  <2>3. p + 1 \in DOMAIN written /\ (p + 1) - 1 = p
    BY <1>4, <2>1, <2>2
  <2>4. written[p + 1] = p
    BY <2>1, <2>3
  <2> QED BY <2>3, <2>4 DEF ToSet
<1> QED BY <1>6, <1>7

\* Every step keeps the invariant.
LEMMA NextComplete == IInv /\ CompleteInv /\ [Next]_vars => CompleteInv'
<1> SUFFICES ASSUME IInv, CompleteInv, [Next]_vars PROVE CompleteInv'
  OBVIOUS
<1>1. ASSUME NEW f \in FiberIds, FiberStep(f) PROVE CompleteInv'
  <2>1. ProgressInv'
    BY <1>1, ClaimProgress, RunProgress DEF FiberStep, CompleteInv
  <2>2. ~Gone(f) /\ writing' = writing
    BY <1>1 DEF FiberStep, Claim, RunAndSend, RunPanics, Gone
  <2> QED BY <2>1, <2>2 DEF CompleteInv
<1>2. CASE Receive \/ WriteNext
  <2>1. ProgressInv'
    BY <1>2, WriterProgress DEF CompleteInv
  <2>2. writing /\ writing' = writing
    BY <1>2 DEF Receive, WriteNext
  <2> QED BY <2>1, <2>2 DEF CompleteInv
<1>3. CASE Flush
  BY <1>3, WriterProgress, FlushIsComplete DEF CompleteInv
<1>4. CASE UNCHANGED vars
  <2>1. /\ mode' = mode /\ unordered' = unordered /\ next_chunk' = next_chunk
        /\ local' = local /\ fiber' = fiber /\ channel' = channel /\ pending' = pending
        /\ written' = written /\ writing' = writing
    BY <1>4 DEF vars
  <2>2. /\ Carried' = Carried /\ Pieces' = Pieces /\ Taken' = Taken
        /\ \A g \in FiberIds : /\ Holds(g)' = Holds(g) /\ Gone(g)' = Gone(g)
                               /\ Exhausted(g)' = Exhausted(g) /\ LastTaken(g)' = LastTaken(g)
    BY <2>1 DEF Carried, Pieces, Taken, Holds, Gone, Exhausted, LastTaken
  <2> QED BY <2>1, <2>2 DEF CompleteInv, ProgressInv, Somewhere, OutputIsComplete
<1> QED BY <1>1, <1>2, <1>3, <1>4 DEF Next, WriterStep

-----------------------------------------------------------------------------

\* No piece is run or written twice, whichever way the fibers take them, and
\* whatever panics (the claim loops, the channel and the writer).
THEOREM PiecesOnce == Spec => []NoPieceTwice
<1>1. ASSUME IInv PROVE NoPieceTwice
  <2>1. IsInjective(channel \o written) /\
        ToSet(channel \o written) = ToSet(channel) \cup ToSet(written)
    BY <1>1, Concatenated DEF IInv, TypeInv, PlacesInv
  <2>2. \A f, g \in FiberIds :
          f # g /\ {fiber[f].at, fiber[g].at} \subseteq {"run", "panicked"} =>
            fiber[f].seq # fiber[g].seq
    BY <1>1 DEF IInv, PlacesInv, Holds
  <2> QED BY <1>1, <2>1, <2>2 DEF NoPieceTwice, IInv, PlacesInv
<1> QED BY <1>1, InitIInv, NextIInv, PTL DEF Spec

\* The ordered output is the pieces in order, none left out, at every moment
\* (the writer's loop).
THEOREM OutputInOrder == Spec => []OutputIsAPrefix
<1>1. ASSUME IInv PROVE OutputIsAPrefix
  <2> SUFFICES ASSUME ~unordered PROVE written = [i \in 1 .. Len(written) |-> i - 1]
    BY DEF OutputIsAPrefix
  <2>1. written \in Seq(Nat) /\ \A i \in DOMAIN written : written[i] = i - 1
    BY <1>1 DEF IInv, TypeInv, OrderInv
  <2>2. DOMAIN written = 1 .. Len(written) /\ written = [i \in 1 .. Len(written) |-> written[i]]
    BY <2>1
  <2> QED BY <2>1, <2>2
<1> QED BY <1>1, InitIInv, NextIInv, PTL DEF Spec

\* When the run is over, the output holds every piece before the first one that
\* panicked, and the whole run if none did (`run`, `run_traversals`).
THEOREM OutputWhole == Spec => []OutputIsComplete
<1>1. CompleteInv => OutputIsComplete
  BY DEF CompleteInv, OutputIsComplete
<1> QED BY <1>1, InitIInv, NextIInv, InitComplete, NextComplete, PTL DEF Spec

=============================================================================
