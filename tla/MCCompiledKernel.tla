-------------------------- MODULE MCCompiledKernel --------------------------
(***************************************************************************)
(* Instances of CompiledKernel: the programs, their bindings, the bounds.  *)
(***************************************************************************)
EXTENDS CompiledKernel, TLC

CONSTANTS c1, c2, x, e, s1, self, p1, w1, none

\* Step 1 reads the cell slot s1, step 2 the coordinate x, step 3 (a side
\* channel) both of them, step 4 the extern e and step 2.
Fork == <<<<s1>>, <<x>>, <<1, 2>>, <<e, 2>>>>

\* A pure step 1 over the cell slot, which may panic; a side channel 2 over it and
\* the coordinate; a volatile side channel 3 over step 1.
Trio == <<<<s1>>, <<1, x>>, <<1>>>>

\* A volatile step 1 above a side channel 2; step 3 reads s1 and step 4 both.
Volatile == <<<<>>, <<1, x>>, <<s1>>, <<3, 2>>>>

\* A constant step 1 and a side channel 2 over the cell and the coordinate.
Small == <<<<>>, <<1, s1, x>>>>

\* The provenance of a wiring, computed (Provenance is stated as a fixpoint).
ProvenanceOf(wiring) ==
    LET reach[n \in 1 .. Len(wiring)] ==
          UNION {IF src \in {s1, e, x} THEN {src} ELSE reach[src] : src \in ToSet(wiring[n])}
    IN reach

ForkProvenance == ProvenanceOf(Fork)
TrioProvenance == ProvenanceOf(Trio)
VolatileProvenance == ProvenanceOf(Volatile)
SmallProvenance == ProvenanceOf(Small)

OneWord == [c \in Cells |-> w1]
BindSmall == s1 :> c1 @@ x :> none
FreeSmall == s1 :> none @@ x :> none
FreeFork == s1 :> none @@ x :> none @@ e :> none
SwapCell == {<<s1, c2>>}
GiveCell == {<<s1, c1>>}
AllModes == {"Raw", "Push", "Pull", "PushPull"}

\* Which hosts drive which kernels.  The kernels with the cone guard, and a host
\* that uses both surfaces, have runs of their own.
ThroughTrait == AllModes \X {{"Kernel"}}
BySlot == AllModes \X {{"SlotKernel"}}
EachSurface == ThroughTrait \cup {"Raw", "Push"} \X {{"SlotKernel"}}
EachMode == {"Pull", "PushPull"} \X {{"Kernel"}} \cup {"Raw", "Push"} \X {{"SlotKernel"}}
BothSurfaces == {"Raw", "Push"} \X {{"Kernel", "SlotKernel"}}

=============================================================================
