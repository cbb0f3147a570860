------------------------- MODULE ScopeWiring_proofs -------------------------
(***************************************************************************)
(* Theorems about ScopeWiring, for any tree of scopes, any names and any   *)
(* declarations: a child holds its name from the registration to the       *)
(* release; a scope reads what the closest scope above declares; and the   *)
(* subscribers of a computed output read what was pulled.                  *)
(*                                                                         *)
(* The registry is exact only for a live parent.  What makes it exact when *)
(* a scope comes to life is that a scope that is not alive has an empty    *)
(* registry, and that nothing lives under one that is being built.  What a *)
(* scope reads follows down the tree, one spawn at a time: DeclaredInv     *)
(* says what each scope in between has to pass on.  An output's value is   *)
(* in its cell because whoever holds the cell was fed it by a chain the    *)
(* owner knows of (FeedInv), and nobody else writes it.                    *)
(***************************************************************************)
EXTENDS ScopeWiring, TLAPS

Phases == {"none", "registered", "live", "dropped"}

PhaseInv ==
    /\ phase \in [Scopes -> Phases] /\ Alive(Root)
    /\ released \subseteq {s \in Scopes \ {Root} : Alive(s)}

\* Whether s holds its name in its parent's registry.
HoldsName(s) == phase[s] = "registered" \/ (Alive(s) /\ s \notin released)

Siblings(p) == {s \in Scopes \ {Root} : Parent[s] = p}

\* The registry of p names the children that hold a name, one each.
RegistryOf(p) ==
    /\ children[p] = {Name[s] : s \in {q \in Siblings(p) : HoldsName(q)}}
    /\ \A s, q \in Siblings(p) : HoldsName(s) /\ HoldsName(q) /\ s # q => Name[s] # Name[q]

RegistryInv ==
    /\ children = [p \in Scopes |-> children[p]]
    /\ \A p \in Scopes : Alive(p) => RegistryOf(p)
    /\ \A p \in Scopes : ~Alive(p) => children[p] = {}
    /\ \A p \in Scopes : phase[p] = "registered" =>
         \A s \in Siblings(p) : phase[s] \in {"none", "dropped"}

IInv == PhaseInv /\ RegistryInv

\* The kernels of the tree: what is built of a scope, and what its parent is
\* while it is being built.
SpawnInv ==
    /\ matter \in Matters /\ kind \in [Scopes -> Kinds \cup {"export"}]
    /\ kind[Root] = matter[Root]
    /\ \A s \in Scopes \ {Root} : phase[s] \in {"registered", "live"} =>
         \/ kind[s] = matter[s] /\ matter[s] # "export"
         \/ kind[s] \in {"writer", "computed"} /\ matter[s] = "export"
    /\ \A s \in Scopes : phase[s] = "registered" =>
         /\ s # Root /\ Alive(Parent[s])
         /\ \A q \in Scopes : s \in Above[q] => phase[q] \in {"none", "dropped"}

\* The slots of the kernels: only a live one is bound or carries, and a const
\* never does.
SlotInv ==
    /\ cell \in [Scopes -> CellIds \cup {None}] /\ transit \in [Scopes -> CellIds \cup {None}]
    /\ slot = [s \in Scopes |-> slot[s]] /\ constval = [s \in Scopes |-> constval[s]]
    /\ \A s \in Scopes : ~Alive(s) => cell[s] = None /\ transit[s] = None
    /\ \A s \in Scopes : Alive(s) /\ kind[s] = "const" =>
         cell[s] = None /\ transit[s] = None /\ constval[s] = <<s, 0>>
    /\ kind[Root] = "shared" => cell[Root] = SharedCell(Root)

\* The declarations a live scope reads through: a shared one is the cell of every
\* scope below, bound or in transit, and a const is in the slot of every one.
DeclaredInv ==
    \A s, d \in Scopes : Alive(s) /\ d \in Above[s] =>
      /\ kind[d] = "shared" /\ (\A e \in Between(d, s) \cup {s} :
                                   kind[e] \in {"extern", "writer", "absent"})
           => /\ CellInScope(s) = SharedCell(d)
              /\ kind[s] # "absent" => cell[s] = SharedCell(d)
      /\ kind[d] = "const" /\ (\A e \in Between(d, s) \cup {s} :
                                  kind[e] \in {"extern", "writer", "shadow"})
           => /\ cell[s] = None /\ transit[s] = None /\ slot[s] = <<d, 0>>
              /\ kind[s] = "shadow" => constval[s] = <<d, 0>>

\* d may hand the cell of its output to e, a child above s or s itself.
Feeds(d, s) ==
    \E e \in (Above[s] \cup {s}) \ {Root} :
      /\ Parent[e] = d
      /\ matter[e] \in {"extern", "shadow"} /\ matter[d] \in {"computed", "export"}

HoldsOutput(s, d) == cell[s] = OutputCell(d) \/ transit[s] = OutputCell(d)
SharedCells == {SharedCell(s) : s \in Scopes}

\* Who holds the cell of an output: a descendant that was fed it, and the owner
\* knows.  A scope that writes through writes a shared cell.
FeedInv ==
    /\ \A s, d \in Scopes : HoldsOutput(s, d) =>
         d \in Above[s] /\ Feeds(d, s) /\ (Alive(d) => d \in broadcasting)
    /\ \A s \in Scopes : kind[s] = "writer" =>
         /\ phase[s] = "registered" => CellInScope(Parent[s]) \in SharedCells
         /\ Alive(s) => cell[s] \in SharedCells

\* What is in it: the value of the output, once it was pulled.
ShownInv ==
    /\ shown \subseteq clean /\ clean \subseteq Scopes
    /\ \A d \in clean : Alive(d) /\ buffer[d] = <<d, coord[d]>>
    /\ buffer = [s \in Scopes |-> buffer[s]] /\ coord \in [Scopes -> Nat]
    /\ cellval = [c \in CellIds |-> cellval[c]]
    /\ \A s, d \in Scopes : HoldsOutput(s, d) /\ d \in shown =>
         cellval[OutputCell(d)] = <<d, coord[d]>>

\* No export has a computed output's cell in scope: no ancestor of it is fed one.
ExportsElsewhere ==
    \A m \in Matters, s \in Scopes \ {Root} : m[s] = "export" =>
      ~ \E e \in Above[s] \ {Root} :
          m[e] \in {"extern", "shadow"} /\ m[Parent[e]] \in {"computed", "export"}

-----------------------------------------------------------------------------

\* The invariant says what the property says (`children` of a ScopeKernel).
LEMMA IInvImplies == IInv => NamesAreHeld
<1> SUFFICES ASSUME IInv, NEW p \in Scopes, Alive(p)
             PROVE LET holding == {s \in Scopes \ {Root} :
                                     /\ Parent[s] = p
                                     /\ phase[s] = "registered" \/ (Alive(s) /\ s \notin released)}
                   IN /\ children[p] = {Name[s] : s \in holding}
                      /\ \A s, q \in holding : s # q => Name[s] # Name[q]
  BY Zenon DEF NamesAreHeld
<1>1. RegistryOf(p)
  BY DEF IInv, RegistryInv
<1>2. {s \in Scopes \ {Root} :
         /\ Parent[s] = p
         /\ phase[s] = "registered" \/ (Alive(s) /\ s \notin released)}
      = {q \in Siblings(p) : HoldsName(q)}
  BY DEF Siblings, HoldsName
<1> QED BY <1>1, <1>2 DEF RegistryOf

\* The root is alive and nothing is registered at first.
LEMMA InitIInv == Init => IInv
<1> SUFFICES ASSUME Init PROVE IInv
  OBVIOUS
<1>1. phase \in [Scopes -> Phases] /\ Alive(Root) /\ released = {}
  BY TreeAssumption DEF Init, Phases, Alive
<1>2. \A s \in Scopes \ {Root} : ~HoldsName(s)
  BY DEF Init, HoldsName, Alive
<1>3. \A p \in Scopes : children[p] = {} /\ RegistryOf(p)
  BY <1>2 DEF Init, RegistryOf, Siblings
<1>4. \A p \in Scopes : phase[p] # "registered"
  BY DEF Init
<1> QED BY <1>1, <1>3, <1>4 DEF IInv, PhaseInv, RegistryInv, Init

\* A registry changes only with its own name set and its children's holding.
LEMMA SameRegistry ==
    ASSUME NEW p \in Scopes, RegistryOf(p), children'[p] = children[p],
           \A s \in Siblings(p) : HoldsName(s)' = HoldsName(s)
    PROVE  RegistryOf(p)'
<1>1. Siblings(p)' = Siblings(p)
  BY DEF Siblings
<1>2. {q \in Siblings(p)' : HoldsName(q)'} = {q \in Siblings(p) : HoldsName(q)}
  BY <1>1
<1> QED BY <1>1, <1>2 DEF RegistryOf

\* Giving a free name to a child that held none (`spawn`).
LEMMA NameGiven ==
    ASSUME NEW p \in Scopes, RegistryOf(p), NEW c \in Siblings(p), ~HoldsName(c),
           Name[c] \notin children[p], children'[p] = children[p] \cup {Name[c]},
           HoldsName(c)', \A s \in Siblings(p) \ {c} : HoldsName(s)' = HoldsName(s)
    PROVE  RegistryOf(p)'
<1>1. Siblings(p)' = Siblings(p)
  BY DEF Siblings
<1>2. {q \in Siblings(p)' : HoldsName(q)'} = {q \in Siblings(p) : HoldsName(q)} \cup {c}
  BY <1>1
<1>3. \A q \in Siblings(p) : HoldsName(q) => Name[q] # Name[c]
  BY DEF RegistryOf
<1> QED BY <1>1, <1>2, <1>3 DEF RegistryOf

\* Taking the name of a child that held one (`release_child`, a failed spawn).
LEMMA NameTaken ==
    ASSUME NEW p \in Scopes, RegistryOf(p), NEW c \in Siblings(p), HoldsName(c),
           children'[p] = children[p] \ {Name[c]}, ~HoldsName(c)',
           \A s \in Siblings(p) \ {c} : HoldsName(s)' = HoldsName(s)
    PROVE  RegistryOf(p)'
<1>1. Siblings(p)' = Siblings(p)
  BY DEF Siblings
<1>2. {q \in Siblings(p)' : HoldsName(q)'} = {q \in Siblings(p) : HoldsName(q)} \ {c}
  BY <1>1
<1>3. \A q \in Siblings(p) : HoldsName(q) /\ q # c => Name[q] # Name[c]
  BY DEF RegistryOf
<1> QED BY <1>1, <1>2, <1>3 DEF RegistryOf

\* `spawn` registers the name of a child that is not there yet.
LEMMA RegisterStep ==
    ASSUME IInv, NEW s \in Scopes \ {Root}, Register(s)
    PROVE  IInv'
<1> DEFINE p == Parent[s]
<1>1. /\ p \in Scopes /\ s \in Siblings(p) /\ Alive(p) /\ ~Alive(s)
      /\ phase[s] \in {"none", "dropped"} /\ Name[s] \notin children[p]
  BY TreeAssumption DEF Register, Siblings, Alive
<1>2. /\ phase' = [phase EXCEPT ![s] = "registered"] /\ released' = released
      /\ children' = [children EXCEPT ![p] = @ \cup {Name[s]}]
  BY DEF Register
<1>3. \A q \in Siblings(s) : phase[q] \in {"none", "dropped"}
  BY TreeAssumption DEF Register, Siblings
<1> HIDE DEF p
<1>4. /\ phase'[s] = "registered" /\ \A q \in Scopes \ {s} : phase'[q] = phase[q]
      /\ phase' \in [Scopes -> Phases]
  BY <1>2 DEF IInv, PhaseInv, Phases
<1>5. /\ children'[p] = children[p] \cup {Name[s]}
      /\ \A q \in Scopes \ {p} : children'[q] = children[q]
      /\ children' = [q \in Scopes |-> children'[q]]
  BY <1>1, <1>2 DEF IInv, RegistryInv
<1>6. PhaseInv'
  BY <1>1, <1>2, <1>4, TreeAssumption DEF IInv, PhaseInv, Alive
<1>7. /\ ~HoldsName(s) /\ HoldsName(s)'
      /\ \A q \in Scopes \ {s} : HoldsName(q)' = HoldsName(q)
  BY <1>1, <1>2, <1>4 DEF HoldsName, Alive
<1>8. ASSUME NEW r \in Scopes, Alive(r)' PROVE RegistryOf(r)'
  <2>1. Alive(r) /\ RegistryOf(r)
    BY <1>4, <1>8 DEF Alive, IInv, RegistryInv
  <2>2. CASE r = p
    <3>1. \A q \in Siblings(p) \ {s} : HoldsName(q)' = HoldsName(q)
      BY <1>7 DEF Siblings
    <3> QED BY <1>1, <1>5, <1>7, <2>1, <2>2, <3>1, NameGiven
  <2>3. CASE r # p
    <3>1. \A q \in Siblings(r) : HoldsName(q)' = HoldsName(q)
      BY <1>1, <1>7, <2>3 DEF Siblings
    <3> QED BY <1>5, <2>1, <2>3, <3>1, SameRegistry
  <2> QED BY <2>2, <2>3
<1>9. \A r \in Scopes : ~Alive(r)' => children'[r] = {}
  BY <1>1, <1>4, <1>5 DEF Alive, IInv, RegistryInv
<1>10. ASSUME NEW r \in Scopes, phase'[r] = "registered", NEW q \in Siblings(r)
       PROVE  phase'[q] \in {"none", "dropped"}
  <2>1. r # p
    BY <1>1, <1>4, <1>10 DEF Alive
  <2>2. q \in Scopes /\ q # s /\ phase[q] \in {"none", "dropped"}
    BY <1>1, <1>3, <1>4, <1>10, <2>1 DEF Siblings, IInv, RegistryInv
  <2> QED BY <1>4, <2>2
<1>11. \A r \in Scopes : Siblings(r)' = Siblings(r)
  BY DEF Siblings
<1> QED BY <1>5, <1>6, <1>8, <1>9, <1>10, <1>11 DEF IInv, RegistryInv

\* The kernel is built (`instantiate_under`).
LEMMA InstantiateStep ==
    ASSUME IInv, NEW s \in Scopes \ {Root}, Instantiate(s)
    PROVE  IInv'
<1>1. /\ phase[s] = "registered" /\ phase' = [phase EXCEPT ![s] = "live"]
      /\ released' = released /\ children' = children
  BY DEF Instantiate
<1>2. /\ phase'[s] = "live" /\ \A q \in Scopes \ {s} : phase'[q] = phase[q]
      /\ phase' \in [Scopes -> Phases]
  BY <1>1 DEF IInv, PhaseInv, Phases
<1>3. s \notin released /\ PhaseInv'
  BY <1>1, <1>2, TreeAssumption DEF IInv, PhaseInv, Alive
<1>4. \A q \in Scopes : HoldsName(q)' = HoldsName(q)
  BY <1>1, <1>2, <1>3 DEF HoldsName, Alive
<1>5. children[s] = {} /\ \A q \in Siblings(s) : ~HoldsName(q)
  BY <1>1 DEF IInv, RegistryInv, Siblings, HoldsName, Alive
<1>6. RegistryOf(s)
  BY <1>5 DEF RegistryOf
<1>7. ASSUME NEW r \in Scopes, Alive(r)' PROVE RegistryOf(r)'
  <2>1. RegistryOf(r)
    BY <1>2, <1>6, <1>7 DEF Alive, IInv, RegistryInv
  <2>2. \A q \in Siblings(r) : HoldsName(q)' = HoldsName(q)
    BY <1>4 DEF Siblings
  <2> QED BY <1>1, <2>1, <2>2, SameRegistry
<1>8. \A r \in Scopes : ~Alive(r)' => children'[r] = {}
  BY <1>1, <1>2, <1>5 DEF Alive, IInv, RegistryInv
<1>9. ASSUME NEW r \in Scopes, phase'[r] = "registered", NEW q \in Siblings(r)
      PROVE  phase'[q] \in {"none", "dropped"}
  <2>1. q \in Scopes /\ q # s /\ phase[q] \in {"none", "dropped"}
    BY <1>1, <1>2, <1>9 DEF Siblings, IInv, RegistryInv
  <2> QED BY <1>2, <2>1
<1>10. \A r \in Scopes : Siblings(r)' = Siblings(r)
  BY DEF Siblings
<1> QED BY <1>1, <1>3, <1>7, <1>8, <1>9, <1>10 DEF IInv, RegistryInv

\* A failed build frees the name (`spawn`).
LEMMA FailInstantiateStep ==
    ASSUME IInv, NEW s \in Scopes \ {Root}, FailInstantiate(s)
    PROVE  IInv'
<1> DEFINE p == Parent[s]
<1>1. /\ p \in Scopes /\ s \in Siblings(p) /\ phase[s] = "registered"
  BY TreeAssumption DEF FailInstantiate, Siblings
<1>2. /\ phase' = [phase EXCEPT ![s] = "none"] /\ released' = released
      /\ children' = [children EXCEPT ![p] = @ \ {Name[s]}]
  BY DEF FailInstantiate
<1> HIDE DEF p
<1>3. /\ phase'[s] = "none" /\ \A q \in Scopes \ {s} : phase'[q] = phase[q]
      /\ phase' \in [Scopes -> Phases]
  BY <1>2 DEF IInv, PhaseInv, Phases
<1>4. /\ children'[p] = children[p] \ {Name[s]}
      /\ \A q \in Scopes \ {p} : children'[q] = children[q]
      /\ children' = [q \in Scopes |-> children'[q]]
  BY <1>1, <1>2 DEF IInv, RegistryInv
<1>5. PhaseInv'
  BY <1>1, <1>2, <1>3, TreeAssumption DEF IInv, PhaseInv, Alive
<1>6. /\ HoldsName(s) /\ ~HoldsName(s)'
      /\ \A q \in Scopes \ {s} : HoldsName(q)' = HoldsName(q)
  BY <1>1, <1>2, <1>3 DEF HoldsName, Alive
<1>7. ASSUME NEW r \in Scopes, Alive(r)' PROVE RegistryOf(r)'
  <2>1. Alive(r) /\ RegistryOf(r)
    BY <1>3, <1>7 DEF Alive, IInv, RegistryInv
  <2>2. CASE r = p
    <3>1. \A q \in Siblings(p) \ {s} : HoldsName(q)' = HoldsName(q)
      BY <1>6 DEF Siblings
    <3> QED BY <1>1, <1>4, <1>6, <2>1, <2>2, <3>1, NameTaken
  <2>3. CASE r # p
    <3>1. \A q \in Siblings(r) : HoldsName(q)' = HoldsName(q)
      BY <1>1, <1>6, <2>3 DEF Siblings
    <3> QED BY <1>4, <2>1, <2>3, <3>1, SameRegistry
  <2> QED BY <2>2, <2>3
<1>8. \A r \in Scopes : ~Alive(r)' => children'[r] = {}
  BY <1>1, <1>3, <1>4 DEF Alive, IInv, RegistryInv
<1>9. \A r \in Scopes : Siblings(r)' = Siblings(r)
  BY DEF Siblings
<1>10. \A r \in Scopes : phase'[r] = "registered" =>
         \A q \in Siblings(r) : phase'[q] \in {"none", "dropped"}
  BY <1>3 DEF IInv, RegistryInv, Siblings
<1> QED BY <1>4, <1>5, <1>7, <1>8, <1>9, <1>10 DEF IInv, RegistryInv

\* `release_child`, by the host that spawned the child.
LEMMA ReleaseChildStep ==
    ASSUME IInv, NEW s \in Scopes, ReleaseChild(s)
    PROVE  IInv'
<1> DEFINE p == Parent[s]
<1>1. /\ p \in Scopes /\ s \in Siblings(p) /\ Alive(s) /\ s \notin released /\ s # Root
  BY TreeAssumption DEF ReleaseChild, Siblings
<1>2. /\ phase' = phase /\ released' = released \cup {s}
      /\ children' = [children EXCEPT ![p] = @ \ {Name[s]}]
  BY DEF ReleaseChild
<1> HIDE DEF p
<1>3. /\ children'[p] = children[p] \ {Name[s]}
      /\ \A q \in Scopes \ {p} : children'[q] = children[q]
      /\ children' = [q \in Scopes |-> children'[q]]
  BY <1>1, <1>2 DEF IInv, RegistryInv
<1>4. PhaseInv' /\ \A r \in Scopes : Alive(r)' = Alive(r) /\ Siblings(r)' = Siblings(r)
  BY <1>1, <1>2 DEF IInv, PhaseInv, Alive, Siblings
<1>5. /\ HoldsName(s) /\ ~HoldsName(s)'
      /\ \A q \in Scopes \ {s} : HoldsName(q)' = HoldsName(q)
  BY <1>1, <1>2 DEF HoldsName, Alive
<1>6. ASSUME NEW r \in Scopes, Alive(r) PROVE RegistryOf(r)'
  <2>1. RegistryOf(r)
    BY <1>6 DEF IInv, RegistryInv
  <2>2. CASE r = p
    <3>1. \A q \in Siblings(p) \ {s} : HoldsName(q)' = HoldsName(q)
      BY <1>5 DEF Siblings
    <3> QED BY <1>1, <1>3, <1>5, <2>1, <2>2, <3>1, NameTaken
  <2>3. CASE r # p
    <3>1. \A q \in Siblings(r) : HoldsName(q)' = HoldsName(q)
      BY <1>1, <1>5, <2>3 DEF Siblings
    <3> QED BY <1>3, <2>1, <2>3, <3>1, SameRegistry
  <2> QED BY <2>2, <2>3
<1>7. \A r \in Scopes : ~Alive(r) => children'[r] = {}
  BY <1>1, <1>3 DEF IInv, RegistryInv
<1> QED BY <1>2, <1>3, <1>4, <1>6, <1>7 DEF IInv, RegistryInv

\* The last handle of a released kernel goes.
LEMMA DropKernelStep ==
    ASSUME IInv, NEW s \in Scopes, DropKernel(s)
    PROVE  IInv'
<1>1. /\ s \in released /\ Alive(s) /\ s # Root
      /\ phase' = [phase EXCEPT ![s] = "dropped"] /\ released' = released \ {s}
      /\ children' = [children EXCEPT ![s] = {}]
  BY DEF DropKernel, IInv, PhaseInv
<1>2. /\ phase'[s] = "dropped" /\ \A q \in Scopes \ {s} : phase'[q] = phase[q]
      /\ phase' \in [Scopes -> Phases]
  BY <1>1 DEF IInv, PhaseInv, Phases
<1>3. /\ children'[s] = {} /\ \A q \in Scopes \ {s} : children'[q] = children[q]
      /\ children' = [q \in Scopes |-> children'[q]]
  BY <1>1 DEF IInv, RegistryInv
<1>4. PhaseInv'
  BY <1>1, <1>2, TreeAssumption DEF IInv, PhaseInv, Alive
<1>5. \A q \in Scopes : HoldsName(q)' = HoldsName(q)
  BY <1>1, <1>2 DEF HoldsName, Alive
<1>6. ASSUME NEW r \in Scopes, Alive(r)' PROVE RegistryOf(r)'
  <2>1. r # s /\ RegistryOf(r)
    BY <1>2, <1>6 DEF Alive, IInv, RegistryInv
  <2>2. \A q \in Siblings(r) : HoldsName(q)' = HoldsName(q)
    BY <1>5 DEF Siblings
  <2> QED BY <1>3, <2>1, <2>2, SameRegistry
<1>7. \A r \in Scopes : ~Alive(r)' => children'[r] = {}
  BY <1>2, <1>3 DEF Alive, IInv, RegistryInv
<1>8. \A r \in Scopes : Siblings(r)' = Siblings(r)
  BY DEF Siblings
<1>9. \A r \in Scopes : phase'[r] = "registered" =>
        \A q \in Siblings(r) : phase'[q] \in {"none", "dropped"}
  BY <1>2 DEF IInv, RegistryInv, Siblings
<1> QED BY <1>3, <1>4, <1>6, <1>7, <1>8, <1>9 DEF IInv, RegistryInv

\* Reads, writes and pulls leave the registry alone.
LEMMA RegistryUnchanged == IInv /\ UNCHANGED <<phase, released, children>> => IInv'
BY DEF IInv, PhaseInv, RegistryInv, RegistryOf, HoldsName, Siblings, Alive

\* Every step keeps the invariant: one case per action.
LEMMA NextIInv == IInv /\ [Next]_vars => IInv'
<1> SUFFICES ASSUME IInv, [Next]_vars PROVE IInv'
  OBVIOUS
<1>1. CASE UNCHANGED vars
  BY <1>1, RegistryUnchanged DEF vars, treeVars
<1>2. CASE Next
  <2>1. PICK s \in Scopes :
          \/ s # Root /\ (Register(s) \/ Instantiate(s) \/ FailInstantiate(s))
          \/ ReleaseChild(s) \/ DropKernel(s) \/ Write(s) \/ SetInputs(s)
          \/ PullOutput(s) \/ EvaluateNode(s)
    BY <1>2 DEF Next
  <2>2. CASE s # Root /\ Register(s)
    BY <2>2, RegisterStep
  <2>3. CASE s # Root /\ Instantiate(s)
    BY <2>3, InstantiateStep
  <2>4. CASE s # Root /\ FailInstantiate(s)
    BY <2>4, FailInstantiateStep
  <2>5. CASE ReleaseChild(s)
    BY <2>5, ReleaseChildStep
  <2>6. CASE DropKernel(s)
    BY <2>6, DropKernelStep
  <2>7. CASE Write(s) \/ SetInputs(s) \/ PullOutput(s) \/ EvaluateNode(s)
    BY <2>7, RegistryUnchanged DEF Write, SetInputs, PullOutput, EvaluateNode, treeVars
  <2> QED BY <2>1, <2>2, <2>3, <2>4, <2>5, <2>6, <2>7
<1> QED BY <1>1, <1>2

-----------------------------------------------------------------------------

\* A child holds its name in its parent's registry from the moment it is
\* registered until it is released, and no other child of the parent is given it
\* (`spawn`, `release_child`).
THEOREM RegistryCorrect == Spec => []NamesAreHeld
BY InitIInv, NextIInv, IInvImplies, PTL DEF Spec

-----------------------------------------------------------------------------
(* What a spawn wires: slots, cells and consts, under a parent.            *)

WiringInv == SpawnInv /\ SlotInv

\* Of the scopes above a child, one is its parent and the others are above that.
LEMMA ParentAbove ==
    ASSUME NEW s \in Scopes \ {Root}
    PROVE  /\ Parent[s] \in Scopes /\ Parent[s] \in Above[s] /\ Parent[s] # s
           /\ Above[Parent[s]] \subseteq Above[s] /\ Above[s] \subseteq Scopes
           /\ \A d \in Above[s] : d = Parent[s] \/ d \in Above[Parent[s]]
           /\ Between(Parent[s], s) = {}
           /\ \A d \in Above[Parent[s]] :
                Between(d, s) = Between(d, Parent[s]) \cup {Parent[s]}
<1>1. /\ Parent[s] \in Scopes /\ Above[s] = {Parent[s]} \cup Above[Parent[s]]
      /\ Above \in [Scopes -> SUBSET Scopes]
  BY TreeAssumption
<1>2. Parent[s] # s /\ Parent[s] \notin Above[Parent[s]]
  BY <1>1, TreeAssumption
<1>3. ASSUME NEW d \in Above[Parent[s]]
      PROVE  Between(d, s) = Between(d, Parent[s]) \cup {Parent[s]}
  <2>1. d \in Scopes /\ Parent[s] # d /\ Parent[s] \notin Above[d]
    BY <1>1, <1>2, TreeAssumption
  <2> QED BY <1>1, <2>1 DEF Between
<1> QED BY <1>1, <1>2, <1>3 DEF Between

\* A step that builds nothing and changes no wire.
LEMMA WiresUnchanged ==
    ASSUME WiringInv, UNCHANGED <<matter, kind, wireVars>>,
           \A s \in Scopes : phase'[s] = phase[s] \/ (phase[s] = "registered" /\ phase'[s] = "none")
    PROVE  WiringInv'
<1>1. \A s \in Scopes : /\ Alive(s)' = Alive(s)
                        /\ phase'[s] = "registered" => phase[s] = "registered"
                        /\ phase'[s] = "live" => phase[s] = "live"
                        /\ phase[s] \in {"none", "dropped"} => phase'[s] \in {"none", "dropped"}
  BY DEF Alive
<1>2. UNCHANGED <<cell, transit, slot, constval>>
  BY DEF wireVars
<1>3. \A s \in Scopes \ {Root} : Parent[s] \in Scopes
  BY ParentAbove
<1>4. SpawnInv'
  BY <1>1, <1>3 DEF WiringInv, SpawnInv
<1>5. SlotInv'
  BY <1>1, <1>2 DEF WiringInv, SlotInv
<1> QED BY <1>4, <1>5 DEF WiringInv

\* A name registered is of a scope nothing lives under (`spawn`).
LEMMA RegisterWiring ==
    ASSUME IInv, WiringInv, NEW s \in Scopes \ {Root}, Register(s)
    PROVE  WiringInv'
<1>1. /\ Parent[s] \in Scopes /\ Parent[s] # s /\ s # Root
  BY ParentAbove
<1>2. /\ phase[s] \in {"none", "dropped"} /\ Alive(Parent[s])
      /\ \A q \in Scopes : s \in Above[q] => phase[q] \in {"none", "dropped"}
      /\ phase' = [phase EXCEPT ![s] = "registered"] /\ UNCHANGED <<matter, wireVars>>
      /\ kind' = [kind EXCEPT ![s] = IF matter[s] # "export" THEN matter[s]
                    ELSE IF CellInScope(Parent[s]) # None THEN "writer" ELSE "computed"]
  BY DEF Register
<1>3. /\ phase'[s] = "registered" /\ \A q \in Scopes \ {s} : phase'[q] = phase[q]
      /\ \A q \in Scopes \ {s} : kind'[q] = kind[q]
      /\ kind'[s] = IF matter[s] # "export" THEN matter[s]
                    ELSE IF CellInScope(Parent[s]) # None THEN "writer" ELSE "computed"
  BY <1>2 DEF IInv, PhaseInv, WiringInv, SpawnInv
<1>4. matter[s] \in (Kinds \ {"writer"}) \cup {"export"}
  BY MattersAssumption DEF WiringInv, SpawnInv
<1>5. kind' \in [Scopes -> Kinds \cup {"export"}]
  BY <1>2, <1>4 DEF WiringInv, SpawnInv, Kinds
<1>6. \A q \in Scopes : Alive(q)' = Alive(q)
  BY <1>2, <1>3 DEF Alive
<1>7. ASSUME NEW q \in Scopes, phase'[q] = "registered"
      PROVE  /\ q # Root /\ Alive(Parent[q])'
             /\ \A r \in Scopes : q \in Above[r] => phase'[r] \in {"none", "dropped"}
  <2>1. CASE q = s
    <3>1. ASSUME NEW r \in Scopes, s \in Above[r] PROVE r # s
      BY <3>1, TreeAssumption
    <3> QED BY <1>1, <1>2, <1>3, <1>6, <2>1, <3>1
  <2>2. CASE q # s
    <3>1. /\ phase[q] = "registered" /\ q # Root /\ Alive(Parent[q]) /\ Parent[q] \in Scopes
          /\ \A r \in Scopes : q \in Above[r] => phase[r] \in {"none", "dropped"}
      BY <1>3, <1>7, <2>2, ParentAbove DEF WiringInv, SpawnInv
    <3>2. q \notin Above[s]
      <4>1. ASSUME q \in Above[s] PROVE FALSE
        <5>1. q = Parent[s] \/ q \in Above[Parent[s]]
          BY <4>1, ParentAbove
        <5>2. phase[Parent[s]] = "live" /\ phase[q] = "registered"
          BY <1>2, <3>1 DEF Alive
        <5> QED BY <1>1, <3>1, <5>1, <5>2
      <4> QED BY <4>1
    <3> QED BY <1>3, <1>6, <3>1, <3>2
  <2> QED BY <2>1, <2>2
<1>8. SpawnInv'
  <2>1. kind'[Root] = matter'[Root] /\ matter' \in Matters
    BY <1>1, <1>2, <1>3, TreeAssumption DEF WiringInv, SpawnInv
  <2>2. ASSUME NEW q \in Scopes \ {Root}, phase'[q] \in {"registered", "live"}
        PROVE  \/ kind'[q] = matter'[q] /\ matter'[q] # "export"
               \/ kind'[q] \in {"writer", "computed"} /\ matter'[q] = "export"
    BY <1>2, <1>3, <2>2 DEF WiringInv, SpawnInv
  <2> QED BY <1>5, <1>7, <2>1, <2>2 DEF SpawnInv
<1>9. SlotInv'
  <2>1. UNCHANGED <<cell, transit, slot, constval>> /\ kind'[Root] = kind[Root]
    BY <1>1, <1>2, <1>3, TreeAssumption DEF wireVars
  <2>2. \A q \in Scopes : Alive(q) => kind'[q] = kind[q]
    BY <1>2, <1>3 DEF Alive
  <2> QED BY <1>6, <2>1, <2>2 DEF WiringInv, SlotInv
<1> QED BY <1>8, <1>9 DEF WiringInv

\* The scopes below one that is being built are not alive, and the scope itself
\* is not (`instantiate_under`).
LEMMA Instantiated ==
    ASSUME IInv, WiringInv, NEW s \in Scopes \ {Root}, Instantiate(s)
    PROVE  /\ Parent[s] \in Scopes /\ Parent[s] # s /\ Alive(Parent[s]) /\ phase[s] = "registered"
           /\ cell[s] = None /\ transit[s] = None
           /\ \A q \in Scopes : Alive(q)' = (Alive(q) \/ q = s)
           /\ \A q \in Scopes : Alive(q) => q # s /\ s \notin Above[q]
           /\ \A q \in Scopes \ {s} : /\ cell'[q] = cell[q] /\ transit'[q] = transit[q]
                                      /\ slot'[q] = slot[q] /\ constval'[q] = constval[q]
           /\ cell'[s] = IF Subscribes(s) THEN OutputCell(Parent[s]) ELSE BoundCell(s)
           /\ transit'[s] = CarriedCell(s)
           /\ slot'[s] = (IF Copies(s) THEN Lookup(Parent[s]) ELSE None)
           /\ constval'[s] = InitialConst(s, IF Copies(s) THEN Lookup(Parent[s]) ELSE None)
           /\ kind' = kind /\ matter' = matter
<1>1. /\ phase[s] = "registered" /\ phase' = [phase EXCEPT ![s] = "live"]
      /\ UNCHANGED <<kind, matter>>
  BY DEF Instantiate
<1>2. Parent[s] \in Scopes /\ Parent[s] # s /\ Alive(Parent[s])
  BY <1>1, ParentAbove DEF WiringInv, SpawnInv
<1>3. ~Alive(s) /\ cell[s] = None /\ transit[s] = None
  BY <1>1 DEF Alive, WiringInv, SlotInv
<1>4. \A q \in Scopes : Alive(q)' = (Alive(q) \/ q = s)
  BY <1>1 DEF IInv, PhaseInv, Alive
<1>5. ASSUME NEW q \in Scopes, Alive(q) PROVE q # s /\ s \notin Above[q]
  <2>1. phase[q] = "live"
    BY <1>5 DEF Alive
  <2> QED BY <1>1, <2>1 DEF WiringInv, SpawnInv
<1>6. /\ cell' = [cell EXCEPT ![s] = IF Subscribes(s) THEN OutputCell(Parent[s]) ELSE BoundCell(s)]
      /\ transit' = [transit EXCEPT ![s] = CarriedCell(s)]
      /\ slot' = [slot EXCEPT ![s] = IF Copies(s) THEN Lookup(Parent[s]) ELSE None]
      /\ constval' = [constval EXCEPT ![s] =
           InitialConst(s, IF Copies(s) THEN Lookup(Parent[s]) ELSE None)]
  BY DEF Instantiate
<1>7. /\ cell \in [Scopes -> CellIds \cup {None}] /\ transit \in [Scopes -> CellIds \cup {None}]
      /\ slot = [q \in Scopes |-> slot[q]] /\ constval = [q \in Scopes |-> constval[q]]
  BY DEF WiringInv, SlotInv
<1>8. /\ cell'[s] = IF Subscribes(s) THEN OutputCell(Parent[s]) ELSE BoundCell(s)
      /\ transit'[s] = CarriedCell(s)
      /\ \A q \in Scopes \ {s} : cell'[q] = cell[q] /\ transit'[q] = transit[q]
  BY <1>6, <1>7
<1>9. /\ slot'[s] = (IF Copies(s) THEN Lookup(Parent[s]) ELSE None)
      /\ \A q \in Scopes \ {s} : slot'[q] = slot[q]
  BY <1>6, <1>7
<1>10. /\ constval'[s] = InitialConst(s, IF Copies(s) THEN Lookup(Parent[s]) ELSE None)
       /\ \A q \in Scopes \ {s} : constval'[q] = constval[q]
  BY <1>6, <1>7
<1> QED BY <1>1, <1>2, <1>3, <1>4, <1>5, <1>8, <1>9, <1>10

\* The cell in a scope's reach, and what a spawn does with it.
LEMMA CellTypes ==
    ASSUME WiringInv
    PROVE  /\ \A s \in Scopes : CellInScope(s) \in CellIds \cup {None}
           /\ \A s \in Scopes : SharedCell(s) \in CellIds /\ OutputCell(s) \in CellIds
           /\ \A s \in Scopes \ {Root} : /\ BoundCell(s) \in CellIds \cup {None}
                                         /\ CarriedCell(s) \in CellIds \cup {None}
<1>1. \A s \in Scopes : CellInScope(s) \in CellIds \cup {None}
  BY DEF WiringInv, SlotInv, CellInScope
<1>2. \A s \in Scopes : SharedCell(s) \in CellIds /\ OutputCell(s) \in CellIds
  BY DEF SharedCell, OutputCell, CellIds
<1>3. \A s \in Scopes \ {Root} : Parent[s] \in Scopes
  BY ParentAbove
<1> QED BY <1>1, <1>2, <1>3 DEF BoundCell, CarriedCell

LEMMA InstantiateWiring ==
    ASSUME IInv, WiringInv, NEW s \in Scopes \ {Root}, Instantiate(s)
    PROVE  WiringInv'
<1>1. SpawnInv'
  <2>1. UNCHANGED <<kind, matter>> /\ \A q \in Scopes : Alive(q)' = (Alive(q) \/ q = s)
    BY Instantiated
  <2>2. /\ phase'[s] = "live" /\ \A q \in Scopes \ {s} : phase'[q] = phase[q]
        /\ phase[s] = "registered"
    BY DEF Instantiate, IInv, PhaseInv
  <2>3. ASSUME NEW q \in Scopes, phase'[q] = "registered"
        PROVE  /\ q # Root /\ Alive(Parent[q])'
               /\ \A r \in Scopes : q \in Above[r] => phase'[r] \in {"none", "dropped"}
    <3>1. /\ phase[q] = "registered" /\ q # Root /\ Alive(Parent[q]) /\ Parent[q] \in Scopes
          /\ \A r \in Scopes : q \in Above[r] => phase[r] \in {"none", "dropped"}
      BY <2>2, <2>3, ParentAbove DEF WiringInv, SpawnInv
    <3>2. q \notin Above[s]
      BY <2>2, <3>1
    <3> QED BY <2>1, <2>2, <3>1, <3>2
  <2>4. \A q \in Scopes : phase'[q] \in {"registered", "live"} => phase[q] \in {"registered", "live"}
    BY <2>2
  <2> QED BY <2>1, <2>3, <2>4 DEF WiringInv, SpawnInv
<1>2. SlotInv'
  <2>1. cell'[s] \in CellIds \cup {None} /\ transit'[s] \in CellIds \cup {None}
    BY Instantiated, CellTypes
  <2>2. /\ cell' \in [Scopes -> CellIds \cup {None}] /\ transit' \in [Scopes -> CellIds \cup {None}]
        /\ slot' = [q \in Scopes |-> slot'[q]] /\ constval' = [q \in Scopes |-> constval'[q]]
    <3>1. /\ cell' = [q \in Scopes |-> cell'[q]] /\ transit' = [q \in Scopes |-> transit'[q]]
          /\ slot' = [q \in Scopes |-> slot'[q]] /\ constval' = [q \in Scopes |-> constval'[q]]
      BY DEF WiringInv, SlotInv, Instantiate
    <3>2. \A q \in Scopes : cell'[q] \in CellIds \cup {None} /\ transit'[q] \in CellIds \cup {None}
      BY <2>1, Instantiated DEF WiringInv, SlotInv
    <3> QED BY <3>1, <3>2
  <2>3. kind[s] = "const" =>
          cell'[s] = None /\ transit'[s] = None /\ constval'[s] = <<s, 0>>
    BY Instantiated
       DEF BoundCell, CarriedCell, Subscribes, HasSlot, IsConst, InitialConst
  <2>4. kind' = kind /\ s # Root /\ Root \in Scopes
    BY Instantiated, TreeAssumption
  <2>5. \A q \in Scopes : ~Alive(q)' => cell'[q] = None /\ transit'[q] = None
    BY Instantiated DEF WiringInv, SlotInv
  <2>6. \A q \in Scopes : Alive(q)' /\ kind[q] = "const" =>
          cell'[q] = None /\ transit'[q] = None /\ constval'[q] = <<q, 0>>
    <3>1. ASSUME NEW q \in Scopes \ {s}, Alive(q)', kind[q] = "const"
          PROVE  cell'[q] = None /\ transit'[q] = None /\ constval'[q] = <<q, 0>>
      <4>1. Alive(q)
        BY <3>1, Instantiated
      <4>2. cell[q] = None /\ transit[q] = None /\ constval[q] = <<q, 0>>
        BY <3>1, <4>1 DEF WiringInv, SlotInv
      <4> QED BY <4>2, Instantiated
    <3> QED BY <2>3, <3>1
  <2>7. kind[Root] = "shared" => cell'[Root] = SharedCell(Root)
    BY <2>4, Instantiated DEF WiringInv, SlotInv
  <2> QED BY <2>2, <2>4, <2>5, <2>6, <2>7 DEF SlotInv
<1> QED BY <1>1, <1>2 DEF WiringInv

\* The last handle of a released kernel takes its bindings with it.
LEMMA DropWiring ==
    ASSUME IInv, WiringInv, NEW s \in Scopes, DropKernel(s)
    PROVE  WiringInv'
<1>1. /\ s # Root /\ Alive(s) /\ UNCHANGED <<matter, kind, slot, constval>>
      /\ phase' = [phase EXCEPT ![s] = "dropped"]
      /\ cell' = [cell EXCEPT ![s] = None] /\ transit' = [transit EXCEPT ![s] = None]
      /\ \A q \in Scopes \ {Root} : Parent[q] = s => phase[q] # "registered"
  BY DEF DropKernel, IInv, PhaseInv
<1>2. /\ phase'[s] = "dropped" /\ cell'[s] = None /\ transit'[s] = None
      /\ \A q \in Scopes \ {s} : /\ phase'[q] = phase[q] /\ cell'[q] = cell[q]
                                 /\ transit'[q] = transit[q]
  BY <1>1 DEF IInv, PhaseInv, WiringInv, SlotInv
<1>3. \A q \in Scopes : Alive(q)' = (Alive(q) /\ q # s)
  BY <1>2 DEF Alive
<1>4. SpawnInv'
  <2>1. ASSUME NEW q \in Scopes, phase'[q] = "registered"
        PROVE  /\ q # Root /\ Alive(Parent[q])'
               /\ \A r \in Scopes : q \in Above[r] => phase'[r] \in {"none", "dropped"}
    <3>1. /\ phase[q] = "registered" /\ q # Root /\ Alive(Parent[q]) /\ Parent[q] \in Scopes
          /\ \A r \in Scopes : q \in Above[r] => phase[r] \in {"none", "dropped"}
      BY <1>2, <2>1, ParentAbove DEF WiringInv, SpawnInv
    <3> QED BY <1>1, <1>2, <1>3, <3>1
  <2>2. \A q \in Scopes : phase'[q] \in {"registered", "live"} => phase'[q] = phase[q]
    BY <1>2
  <2> QED BY <1>1, <2>1, <2>2 DEF WiringInv, SpawnInv
<1>5. SlotInv'
  <2>1. cell' \in [Scopes -> CellIds \cup {None}] /\ transit' \in [Scopes -> CellIds \cup {None}]
    BY <1>1 DEF WiringInv, SlotInv
  <2>2. Root \in Scopes
    BY TreeAssumption
  <2>3. /\ \A q \in Scopes : ~Alive(q)' => cell'[q] = None /\ transit'[q] = None
        /\ \A q \in Scopes : Alive(q)' /\ kind[q] = "const" =>
             cell'[q] = None /\ transit'[q] = None /\ constval[q] = <<q, 0>>
        /\ kind[Root] = "shared" => cell'[Root] = SharedCell(Root)
    BY <1>1, <1>2, <1>3, <2>2 DEF WiringInv, SlotInv
  <2> QED BY <1>1, <2>1, <2>3 DEF WiringInv, SlotInv
<1> QED BY <1>4, <1>5 DEF WiringInv

LEMMA InitWiring == Init => WiringInv
<1> SUFFICES ASSUME Init PROVE WiringInv
  OBVIOUS
<1>1. matter \in [Scopes -> (Kinds \ {"writer"}) \cup {"export"}] /\ Root \in Scopes
  BY MattersAssumption, TreeAssumption DEF Init
<1>2. SharedCell(Root) \in CellIds
  BY <1>1 DEF SharedCell, CellIds
<1>3. \A s \in Scopes : phase[s] = IF s = Root THEN "live" ELSE "none"
  BY DEF Init
<1>4. SpawnInv
  BY <1>1, <1>3 DEF Init, SpawnInv
<1>5. cell \in [Scopes -> CellIds \cup {None}] /\ transit \in [Scopes -> CellIds \cup {None}]
  BY <1>2 DEF Init
<1>6. /\ slot = [s \in Scopes |-> slot[s]] /\ constval = [s \in Scopes |-> constval[s]]
      /\ \A s \in Scopes : ~Alive(s) => cell[s] = None /\ transit[s] = None
      /\ \A s \in Scopes : Alive(s) /\ kind[s] = "const" =>
           cell[s] = None /\ transit[s] = None /\ constval[s] = <<s, 0>>
      /\ kind[Root] = "shared" => cell[Root] = SharedCell(Root)
  BY <1>1, <1>3 DEF Init, Alive
<1> QED BY <1>4, <1>5, <1>6 DEF WiringInv, SlotInv

LEMMA NextWiring == IInv /\ WiringInv /\ [Next]_vars => WiringInv'
<1> SUFFICES ASSUME IInv, WiringInv, [Next]_vars PROVE WiringInv'
  OBVIOUS
<1>1. CASE UNCHANGED vars
  BY <1>1, WiresUnchanged DEF vars, treeVars
<1>2. CASE Next
  <2>1. PICK s \in Scopes :
          \/ s # Root /\ (Register(s) \/ Instantiate(s) \/ FailInstantiate(s))
          \/ ReleaseChild(s) \/ DropKernel(s) \/ Write(s) \/ SetInputs(s)
          \/ PullOutput(s) \/ EvaluateNode(s)
    BY <1>2 DEF Next
  <2>2. CASE s # Root /\ Register(s)
    BY <2>2, RegisterWiring
  <2>3. CASE s # Root /\ Instantiate(s)
    BY <2>3, InstantiateWiring
  <2>4. CASE FailInstantiate(s)
    <3>1. \A q \in Scopes : phase'[q] = phase[q] \/ (phase[q] = "registered" /\ phase'[q] = "none")
      BY <2>4 DEF FailInstantiate, IInv, PhaseInv
    <3> QED BY <2>4, <3>1, WiresUnchanged DEF FailInstantiate
  <2>5. CASE DropKernel(s)
    BY <2>5, DropWiring
  <2>6. CASE ReleaseChild(s) \/ Write(s) \/ SetInputs(s) \/ PullOutput(s) \/ EvaluateNode(s)
    BY <2>6, WiresUnchanged
       DEF ReleaseChild, Write, SetInputs, PullOutput, EvaluateNode, treeVars
  <2> QED BY <2>1, <2>2, <2>3, <2>4, <2>5, <2>6
<1> QED BY <1>1, <1>2

-----------------------------------------------------------------------------
(* The declaration a scope reads.                                          *)

\* A shared declaration is the root's (MattersAssumption).
LEMMA SharedIsRoot ==
    ASSUME WiringInv, NEW s \in Scopes, Alive(s), kind[s] = "shared"
    PROVE  s = Root
<1>1. matter \in [Scopes -> (Kinds \ {"writer"}) \cup {"export"}] /\ \A q \in Scopes \ {Root} : matter[q] # "shared"
  BY MattersAssumption DEF WiringInv, SpawnInv
<1>2. s # Root => kind[s] = matter[s] \/ kind[s] \in {"writer", "computed"}
  BY DEF WiringInv, SpawnInv, Alive
<1> QED BY <1>1, <1>2

\* What a scope declares is fixed while any scope below it lives.
LEMMA KindsBelowFixed ==
    ASSUME NEW s \in Scopes, NEW r \in Scopes \ {Root}, Register(r), Alive(s),
           kind = [q \in Scopes |-> kind[q]]
    PROVE  \A q \in Above[s] \cup {s} : q \in Scopes => kind'[q] = kind[q]
<1>1. s # r /\ r \notin Above[s]
  BY DEF Register, Alive
<1>2. \A q \in Scopes \ {r} : kind'[q] = kind[q]
  BY DEF Register
<1> QED BY <1>1, <1>2

\* The step leaves alone what live scopes are bound to and what they declare.
LEMMA DeclaredKept ==
    ASSUME DeclaredInv, UNCHANGED wireVars,
           \A s \in Scopes : Alive(s)' => Alive(s) /\ \A q \in (Above[s] \cup {s}) : kind'[q] = kind[q]
    PROVE  DeclaredInv'
<1> SUFFICES ASSUME NEW s \in Scopes, NEW d \in Scopes, Alive(s)', d \in Above[s]
             PROVE  /\ kind'[d] = "shared" /\ (\A e \in Between(d, s) \cup {s} :
                                                  kind'[e] \in {"extern", "writer", "absent"})
                         => /\ CellInScope(s)' = SharedCell(d)
                            /\ kind'[s] # "absent" => cell'[s] = SharedCell(d)
                    /\ kind'[d] = "const" /\ (\A e \in Between(d, s) \cup {s} :
                                                 kind'[e] \in {"extern", "writer", "shadow"})
                         => /\ cell'[s] = None /\ transit'[s] = None /\ slot'[s] = <<d, 0>>
                            /\ kind'[s] = "shadow" => constval'[s] = <<d, 0>>
  BY DEF DeclaredInv, Between, SharedCell
<1>1. Alive(s) /\ \A q \in (Above[s] \cup {s}) : kind'[q] = kind[q]
  OBVIOUS
<1>2. UNCHANGED <<cell, transit, slot, constval>> /\ CellInScope(s)' = CellInScope(s)
  BY DEF wireVars, CellInScope
<1>3. Between(d, s) \subseteq Above[s]
  BY DEF Between
<1> QED BY <1>1, <1>2, <1>3 DEF DeclaredInv

\* A scope spawned under one that reaches a shared cell reaches it too
\* (`wire_child_under`, step 1).
LEMMA SharedReaches ==
    ASSUME IInv, WiringInv, DeclaredInv, NEW s \in Scopes \ {Root}, Instantiate(s),
           NEW d \in Above[s], kind[d] = "shared",
           \A e \in Between(d, s) \cup {s} : kind[e] \in {"extern", "writer", "absent"}
    PROVE  CellInScope(s)' = SharedCell(d) /\ (kind[s] # "absent" => cell'[s] = SharedCell(d))
<1> DEFINE p == Parent[s]
<1>1. /\ p \in Scopes /\ Alive(p) /\ d \in Scopes /\ (d = p \/ d \in Above[p])
      /\ SharedCell(d) \in CellIds /\ SharedCell(d) # None
  BY Instantiated, ParentAbove, CellTypes, NoneAssumption
<1>2. CellInScope(p) = SharedCell(d)
  <2>1. CASE d = p
    <3>1. p = Root
      BY <1>1, <2>1, SharedIsRoot
    <3> QED BY <1>1, <2>1, <3>1 DEF WiringInv, SlotInv, CellInScope
  <2>2. CASE d \in Above[p]
    <3>1. Between(d, s) = Between(d, p) \cup {p}
      BY <2>2, ParentAbove
    <3> QED BY <1>1, <2>2, <3>1 DEF DeclaredInv
  <2> QED BY <1>1, <2>1, <2>2
<1>3. BoundCell(s) = (IF kind[s] = "absent" THEN None ELSE SharedCell(d))
  BY <1>2 DEF BoundCell, HasSlot, IsConst
<1>4. CarriedCell(s) = (IF kind[s] = "absent" THEN SharedCell(d) ELSE None)
  BY <1>2 DEF CarriedCell, HasSlot, IsConst
<1>5. ~Subscribes(s)
  BY <1>1, <1>3 DEF Subscribes, HasSlot
<1>6. /\ cell'[s] = (IF kind[s] = "absent" THEN None ELSE SharedCell(d))
      /\ transit'[s] = (IF kind[s] = "absent" THEN SharedCell(d) ELSE None)
  BY <1>3, <1>4, <1>5, Instantiated
<1> QED BY <1>1, <1>6 DEF CellInScope

\* A scope spawned under one that reads a const is given a copy of it
\* (`wire_child_under`, steps 2 and 3).
LEMMA ConstReaches ==
    ASSUME IInv, WiringInv, DeclaredInv, NEW s \in Scopes \ {Root}, Instantiate(s),
           NEW d \in Above[s], kind[d] = "const",
           \A e \in Between(d, s) \cup {s} : kind[e] \in {"extern", "writer", "shadow"}
    PROVE  /\ cell'[s] = None /\ transit'[s] = None /\ slot'[s] = <<d, 0>>
           /\ kind[s] = "shadow" => constval'[s] = <<d, 0>>
<1> DEFINE p == Parent[s]
<1>1. /\ p \in Scopes /\ Alive(p) /\ d \in Scopes /\ (d = p \/ d \in Above[p])
      /\ <<d, 0>> # None
  <2>1. 0 \in 0 .. MaxWrites
    BY NoneAssumption
  <2> QED BY <2>1, Instantiated, ParentAbove, NoneAssumption
<1>2. /\ cell[p] = None /\ transit[p] = None /\ Lookup(p) = <<d, 0>>
      /\ kind[p] \in {"const", "extern", "writer", "shadow"}
  <2>1. CASE d = p
    <3>1. cell[p] = None /\ transit[p] = None /\ constval[p] = <<p, 0>> /\ kind[p] = "const"
      BY <1>1, <2>1 DEF WiringInv, SlotInv
    <3> QED BY <1>1, <2>1, <3>1 DEF Lookup, IsConst
  <2>2. CASE d \in Above[p]
    <3>1. Between(d, s) = Between(d, p) \cup {p}
      BY <2>2, ParentAbove
    <3>2. kind[p] \in {"extern", "writer", "shadow"}
      BY <3>1
    <3>3. /\ cell[p] = None /\ transit[p] = None /\ slot[p] = <<d, 0>>
          /\ kind[p] = "shadow" => constval[p] = <<d, 0>>
      BY <1>1, <2>2, <3>1 DEF DeclaredInv
    <3> QED BY <1>1, <3>2, <3>3 DEF Lookup, IsConst, SlotValue
  <2> QED BY <1>1, <2>1, <2>2
<1>3. CellInScope(p) = None
  BY <1>2 DEF CellInScope
<1>4. BoundCell(s) = None /\ CarriedCell(s) = None
  BY <1>3 DEF BoundCell, CarriedCell
<1>5. Copies(s) /\ ~Subscribes(s)
  BY <1>2, <1>4 DEF Copies, Subscribes, HasSlot, IsConst, Outputs
<1>6. cell'[s] = None /\ transit'[s] = None /\ slot'[s] = <<d, 0>>
  BY <1>2, <1>4, <1>5, Instantiated
<1>7. kind[s] = "shadow" => constval'[s] = <<d, 0>>
  BY <1>2, <1>5, Instantiated DEF InitialConst
<1> QED BY <1>6, <1>7

LEMMA InstantiateDeclared ==
    ASSUME IInv, WiringInv, DeclaredInv, NEW s \in Scopes \ {Root}, Instantiate(s)
    PROVE  DeclaredInv'
<1> SUFFICES ASSUME NEW q \in Scopes, NEW d \in Scopes, Alive(q)', d \in Above[q]
             PROVE  /\ kind[d] = "shared" /\ (\A e \in Between(d, q) \cup {q} :
                                                 kind[e] \in {"extern", "writer", "absent"})
                         => /\ CellInScope(q)' = SharedCell(d)
                            /\ kind[q] # "absent" => cell'[q] = SharedCell(d)
                    /\ kind[d] = "const" /\ (\A e \in Between(d, q) \cup {q} :
                                                kind[e] \in {"extern", "writer", "shadow"})
                         => /\ cell'[q] = None /\ transit'[q] = None /\ slot'[q] = <<d, 0>>
                            /\ kind[q] = "shadow" => constval'[q] = <<d, 0>>
  BY Instantiated DEF DeclaredInv, Between, SharedCell
<1>1. CASE q = s
  BY <1>1, SharedReaches, ConstReaches
<1>2. CASE q # s
  <2>1. /\ Alive(q) /\ cell'[q] = cell[q] /\ transit'[q] = transit[q] /\ slot'[q] = slot[q]
        /\ constval'[q] = constval[q]
    BY <1>2, Instantiated
  <2>2. CellInScope(q)' = CellInScope(q)
    BY <2>1 DEF CellInScope
  <2> QED BY <2>1, <2>2 DEF DeclaredInv
<1> QED BY <1>1, <1>2

LEMMA NextDeclared == IInv /\ WiringInv /\ DeclaredInv /\ [Next]_vars => DeclaredInv'
<1> SUFFICES ASSUME IInv, WiringInv, DeclaredInv, [Next]_vars PROVE DeclaredInv'
  OBVIOUS
<1>1. ASSUME UNCHANGED <<phase, kind, wireVars>> PROVE DeclaredInv'
  BY <1>1, DeclaredKept DEF Alive
<1>2. CASE UNCHANGED vars
  BY <1>1, <1>2 DEF vars, treeVars
<1>3. CASE Next
  <2>1. PICK s \in Scopes :
          \/ s # Root /\ (Register(s) \/ Instantiate(s) \/ FailInstantiate(s))
          \/ ReleaseChild(s) \/ DropKernel(s) \/ Write(s) \/ SetInputs(s)
          \/ PullOutput(s) \/ EvaluateNode(s)
    BY <1>3 DEF Next
  <2>2. CASE s # Root /\ Register(s)
    <3>1. /\ phase' = [phase EXCEPT ![s] = "registered"] /\ UNCHANGED wireVars
          /\ kind = [q \in Scopes |-> kind[q]]
      BY <2>2 DEF Register, WiringInv, SpawnInv
    <3>2. \A q \in Scopes : Alive(q)' => Alive(q)
      BY <3>1 DEF Alive, IInv, PhaseInv
    <3>3. \A q \in Scopes : Above[q] \subseteq Scopes
      BY TreeAssumption
    <3>4. \A q \in Scopes : Alive(q)' => \A e \in (Above[q] \cup {q}) : kind'[e] = kind[e]
      BY <2>2, <3>1, <3>2, <3>3, KindsBelowFixed
    <3> QED BY <3>1, <3>2, <3>4, DeclaredKept
  <2>3. CASE s # Root /\ Instantiate(s)
    BY <2>3, InstantiateDeclared
  <2>4. CASE FailInstantiate(s)
    <3>1. /\ phase' = [phase EXCEPT ![s] = "none"] /\ UNCHANGED <<kind, wireVars>>
      BY <2>4 DEF FailInstantiate
    <3>2. \A q \in Scopes : Alive(q)' => Alive(q)
      BY <3>1 DEF Alive, IInv, PhaseInv
    <3> QED BY <3>1, <3>2, DeclaredKept
  <2>5. CASE DropKernel(s)
    <3>1. /\ UNCHANGED <<kind, slot, constval>>
          /\ \A q \in Scopes : Alive(q)' => /\ Alive(q) /\ cell'[q] = cell[q]
                                            /\ transit'[q] = transit[q]
      BY <2>5 DEF DropKernel, Alive, IInv, PhaseInv, WiringInv, SlotInv
    <3>2. \A q \in Scopes : Alive(q)' => CellInScope(q)' = CellInScope(q)
      BY <3>1 DEF CellInScope
    <3> QED BY <3>1, <3>2 DEF DeclaredInv, Between, SharedCell
  <2>6. CASE ReleaseChild(s) \/ Write(s) \/ SetInputs(s) \/ PullOutput(s) \/ EvaluateNode(s)
    BY <1>1, <2>6 DEF ReleaseChild, Write, SetInputs, PullOutput, EvaluateNode, treeVars
  <2> QED BY <2>1, <2>2, <2>3, <2>4, <2>5, <2>6
<1> QED BY <1>2, <1>3

\* What a scope reads is what the closest declaration above it holds.
LEMMA DeclaredImplies == WiringInv /\ DeclaredInv => ClosestDeclarationWins
<1> SUFFICES ASSUME WiringInv, DeclaredInv, NEW s \in Scopes, NEW d \in Scopes,
                    ReadsN(s), Declares(d, s)
             PROVE  /\ (kind[d] = "shared" /\ \A e \in Between(d, s) \cup {s} : kind[e] # "shadow")
                         => Reads(s) = cellval[SharedCell(d)]
                    /\ (kind[d] = "const" /\ \A e \in Between(d, s) : kind[e] # "absent")
                         => Reads(s) = <<d, 0>>
  BY DEF ClosestDeclarationWins
<1>1. /\ Alive(s) /\ kind[s] \in {"extern", "writer", "shadow"} /\ d \in Above[s]
      /\ \A e \in Between(d, s) : kind[e] \in {"extern", "writer", "absent", "shadow"}
  BY DEF ReadsN, Declares
<1>2. SharedCell(d) # None
  BY CellTypes, NoneAssumption
<1>3. CASE kind[d] = "shared" /\ \A e \in Between(d, s) \cup {s} : kind[e] # "shadow"
  <2>1. cell[s] = SharedCell(d) /\ kind[s] # "shadow"
    BY <1>1, <1>3 DEF DeclaredInv
  <2> QED BY <1>2, <1>3, <2>1 DEF Reads, SlotValue
<1>4. CASE kind[d] = "const" /\ \A e \in Between(d, s) : kind[e] # "absent"
  <2>1. /\ cell[s] = None /\ slot[s] = <<d, 0>>
        /\ kind[s] = "shadow" => constval[s] = <<d, 0>>
    BY <1>1, <1>4 DEF DeclaredInv
  <2> QED BY <1>4, <2>1 DEF Reads, SlotValue
<1> QED BY <1>3, <1>4

LEMMA Wired == Spec => [](IInv /\ WiringInv)
<1>1. IInv /\ WiringInv /\ [Next]_vars => IInv' /\ WiringInv'
  BY NextIInv, NextWiring
<1> QED BY <1>1, InitIInv, InitWiring, PTL DEF Spec

\* A scope that imports a name reads what the closest scope above that declares
\* it holds, in any tree and after any spawns, failures, drops and writes
\* (`wire_child_under`).
THEOREM DeclarationsReach == Spec => []ClosestDeclarationWins
<1>1. Init => DeclaredInv
  <2> SUFFICES ASSUME Init PROVE \A s \in Scopes : Alive(s) => Above[s] = {}
    BY DEF DeclaredInv
  <2> QED BY TreeAssumption DEF Init, Alive
<1>2. IInv /\ WiringInv /\ DeclaredInv /\ [Next]_vars => DeclaredInv'
  BY NextDeclared
<1> QED BY <1>1, <1>2, DeclaredImplies, Wired, PTL DEF Spec

-----------------------------------------------------------------------------
(* Computed outputs.                                                       *)

OutputInv == FeedInv /\ ShownInv

\* The cells of outputs are told apart from each other and from shared ones.
LEMMA OutputCells ==
    /\ \A s, d \in Scopes : OutputCell(s) = OutputCell(d) => s = d
    /\ \A d \in Scopes : OutputCell(d) \notin SharedCells /\ OutputCell(d) # None
<1>1. \A d \in Scopes : OutputCell(d) \in CellIds
  BY DEF OutputCell, CellIds
<1> QED BY <1>1, NoneAssumption DEF OutputCell, SharedCell, SharedCells

\* Who holds the cell of an output is alive, and below it.
LEMMA HoldersLive ==
    ASSUME WiringInv, OutputInv, NEW s \in Scopes, NEW d \in Scopes, HoldsOutput(s, d)
    PROVE  Alive(s) /\ d \in Above[s] /\ Feeds(d, s) /\ (Alive(d) => d \in broadcasting)
<1>1. OutputCell(d) # None
  BY OutputCells
<1> QED BY <1>1 DEF WiringInv, SlotInv, OutputInv, FeedInv, HoldsOutput

\* A step of no wire and no build, that keeps the outputs' cells right, keeps who
\* holds them.
LEMMA FeedKept ==
    ASSUME FeedInv, UNCHANGED <<matter, kind, cell, transit, broadcasting>>,
           \A s \in Scopes : /\ Alive(s)' => Alive(s)
                             /\ phase'[s] = "registered" => phase[s] = "registered"
    PROVE  FeedInv'
<1>1. \A s, d \in Scopes : /\ HoldsOutput(s, d)' = HoldsOutput(s, d)
                           /\ Feeds(d, s)' = Feeds(d, s)
  BY DEF HoldsOutput, Feeds, OutputCell
<1>2. \A s : CellInScope(s)' = CellInScope(s)
  BY DEF CellInScope
<1> QED BY <1>1, <1>2 DEF FeedInv, SharedCells, SharedCell

\* An export with a cell in scope has a shared one: no output's (`finalize`).
LEMMA RegisterFeed ==
    ASSUME ExportsElsewhere, IInv, WiringInv, OutputInv, NEW s \in Scopes \ {Root}, Register(s)
    PROVE  FeedInv'
<1>1. /\ UNCHANGED <<matter, cell, transit, broadcasting>>
      /\ phase' = [phase EXCEPT ![s] = "registered"] /\ ~Alive(s)
      /\ Parent[s] \in Scopes /\ Alive(Parent[s])
      /\ \A q \in Scopes : s \in Above[q] => phase[q] \in {"none", "dropped"}
  BY ParentAbove DEF Register, wireVars, outputVars, Alive
<1>2. /\ phase'[s] = "registered" /\ \A q \in Scopes \ {s} : phase'[q] = phase[q]
      /\ \A q \in Scopes : Alive(q)' = Alive(q)
  BY <1>1 DEF IInv, PhaseInv, Alive
<1>3. \A q \in Scopes \ {s} : kind'[q] = kind[q]
  BY DEF Register, WiringInv, SpawnInv
<1>4. \A q, d \in Scopes : /\ HoldsOutput(q, d)' = HoldsOutput(q, d)
                           /\ Feeds(d, q)' = Feeds(d, q)
  BY <1>1 DEF HoldsOutput, Feeds, OutputCell
<1>5. \A q : CellInScope(q)' = CellInScope(q)
  BY <1>1 DEF CellInScope
<1>6. ASSUME kind'[s] = "writer" PROVE CellInScope(Parent[s]) \in SharedCells
  <2>1. matter[s] \in (Kinds \ {"writer"}) \cup {"export"} /\ matter \in Matters
    BY MattersAssumption DEF WiringInv, SpawnInv
  <2>2. matter[s] = "export" /\ CellInScope(Parent[s]) # None
    BY <1>6, <2>1 DEF Register, WiringInv, SpawnInv
  <2>3. CellInScope(Parent[s]) \in CellIds
    BY <1>1, <2>2, CellTypes
  <2>4. PICK d \in Scopes : CellInScope(Parent[s]) = SharedCell(d) \/
                            CellInScope(Parent[s]) = OutputCell(d)
    BY <2>3 DEF CellIds, SharedCell, OutputCell
  <2>5. CASE CellInScope(Parent[s]) = OutputCell(d)
    <3>1. HoldsOutput(Parent[s], d)
      BY <2>5 DEF CellInScope, HoldsOutput
    <3>2. Feeds(d, Parent[s])
      BY <1>1, <3>1, HoldersLive
    <3>3. PICK e \in Above[s] \ {Root} :
             matter[e] \in {"extern", "shadow"} /\ matter[Parent[e]] \in {"computed", "export"}
      BY <3>2, ParentAbove DEF Feeds
    <3> QED BY <2>1, <2>2, <3>3 DEF ExportsElsewhere
  <2> QED BY <2>4, <2>5 DEF SharedCells
<1>7. \A q, d \in Scopes : HoldsOutput(q, d)' =>
        d \in Above[q] /\ Feeds(d, q)' /\ (Alive(d)' => d \in broadcasting')
  BY <1>1, <1>2, <1>4 DEF OutputInv, FeedInv
<1>8. ASSUME NEW q \in Scopes, kind'[q] = "writer"
      PROVE  /\ phase'[q] = "registered" => CellInScope(Parent[q])' \in SharedCells
             /\ Alive(q)' => cell'[q] \in SharedCells
  <2>1. CASE q = s
    <3>1. CellInScope(Parent[s])' \in SharedCells /\ ~Alive(s)'
      BY <1>1, <1>2, <1>5, <1>6, <1>8, <2>1
    <3> QED BY <2>1, <3>1
  <2>2. CASE q # s
    <3>1. kind[q] = "writer" /\ phase'[q] = phase[q] /\ Alive(q)' = Alive(q) /\ cell' = cell
      BY <1>1, <1>2, <1>3, <1>8, <2>2
    <3>2. CellInScope(Parent[q])' = CellInScope(Parent[q])
      BY <1>5
    <3> QED BY <3>1, <3>2 DEF OutputInv, FeedInv
  <2> QED BY <2>1, <2>2
<1>9. SharedCells' = SharedCells
  BY DEF SharedCells, SharedCell
<1> QED BY <1>7, <1>8, <1>9 DEF FeedInv

\* A child is bound to its parent's output, or holds what the parent holds
\* (`wire_child_under`).
LEMMA HoldsAfter ==
    ASSUME IInv, WiringInv, OutputInv, NEW s \in Scopes \ {Root}, Instantiate(s),
           NEW d \in Scopes, HoldsOutput(s, d)'
    PROVE  \/ Subscribes(s) /\ d = Parent[s]
           \/ HoldsOutput(Parent[s], d)
<1>1. HoldsOutput(s, d)' = (cell'[s] = OutputCell(d) \/ transit'[s] = OutputCell(d))
  BY DEF HoldsOutput, OutputCell
<1>2. OutputCell(d) # None /\ Parent[s] \in Scopes
  BY OutputCells, Instantiated
<1>3. CASE cell'[s] = OutputCell(d) /\ Subscribes(s)
  <2>1. OutputCell(Parent[s]) = OutputCell(d)
    BY <1>3, Instantiated
  <2> QED BY <1>2, <1>3, <2>1, OutputCells
<1>4. CASE cell'[s] = OutputCell(d) /\ ~Subscribes(s)
  <2>1. BoundCell(s) = OutputCell(d)
    BY <1>4, Instantiated
  <2>2. CellInScope(Parent[s]) = OutputCell(d)
    BY <1>2, <2>1 DEF BoundCell
  <2> QED BY <2>2 DEF CellInScope, HoldsOutput
<1>5. CASE transit'[s] = OutputCell(d)
  <2>1. CarriedCell(s) = OutputCell(d)
    BY <1>5, Instantiated
  <2>2. CellInScope(Parent[s]) = OutputCell(d)
    BY <1>2, <2>1 DEF CarriedCell
  <2> QED BY <2>2 DEF CellInScope, HoldsOutput
<1> QED BY <1>1, <1>3, <1>4, <1>5

\* A scope that subscribes to its parent's output declares no shared name and
\* writes through nothing: it is fed.
LEMMA SubscribersAreFed ==
    ASSUME IInv, WiringInv, OutputInv, NEW s \in Scopes \ {Root}, Instantiate(s), Subscribes(s)
    PROVE  kind[s] # "writer" /\ Feeds(Parent[s], s)
<1> DEFINE p == Parent[s]
<1>1. /\ p \in Scopes /\ Alive(p) /\ phase[s] = "registered" /\ s \in Above[s] \cup {s}
      /\ kind[p] = "computed" /\ HasSlot(kind[s]) /\ BoundCell(s) = None
  BY Instantiated DEF Subscribes
<1>2. ASSUME kind[s] = "writer" PROVE FALSE
  <2>1. CellInScope(p) \in SharedCells /\ BoundCell(s) = CellInScope(p)
    BY <1>1, <1>2 DEF OutputInv, FeedInv, BoundCell, IsConst
  <2>2. SharedCells \subseteq CellIds
    BY DEF SharedCells, SharedCell, CellIds
  <2> QED BY <1>1, <2>1, <2>2, NoneAssumption
<1>3. \/ kind[s] = matter[s] /\ matter[s] # "shared"
      \/ kind[s] \in {"writer", "computed"}
  BY <1>1, MattersAssumption DEF WiringInv, SpawnInv
<1>4. matter[s] \in {"extern", "shadow"}
  BY <1>1, <1>2, <1>3 DEF HasSlot
<1>5. matter[p] \in {"computed", "export"}
  BY <1>1 DEF WiringInv, SpawnInv, Alive
<1> QED BY <1>1, <1>2, <1>4, <1>5 DEF Feeds

LEMMA InstantiateFeed ==
    ASSUME IInv, WiringInv, OutputInv, NEW s \in Scopes \ {Root}, Instantiate(s)
    PROVE  FeedInv'
<1> DEFINE p == Parent[s]
<1>1. /\ p \in Scopes /\ Alive(p) /\ p # s /\ p \in Above[s] /\ Above[p] \subseteq Above[s]
      /\ UNCHANGED <<matter, kind>>
  BY Instantiated, ParentAbove
<1>2. broadcasting' = IF Subscribes(s) THEN broadcasting \cup {p} ELSE broadcasting
  BY DEF Instantiate
<1>3. \A q, d \in Scopes : Feeds(d, q)' = Feeds(d, q)
  BY <1>1 DEF Feeds
<1>4. \A q \in Scopes \ {s}, d \in Scopes : HoldsOutput(q, d)' = HoldsOutput(q, d)
  BY Instantiated DEF HoldsOutput, OutputCell
<1>5. ASSUME NEW q \in Scopes, NEW d \in Scopes, HoldsOutput(q, d)'
      PROVE  d \in Above[q] /\ Feeds(d, q) /\ (Alive(d)' => d \in broadcasting')
  <2>1. ASSUME NEW r \in Scopes, HoldsOutput(r, d)
        PROVE  d \in Above[r] /\ Feeds(d, r) /\ (Alive(d)' => d \in broadcasting')
    <3>1. Alive(r) /\ d \in Above[r] /\ Feeds(d, r) /\ (Alive(d) => d \in broadcasting)
      BY <2>1, HoldersLive
    <3>2. d # s
      BY <3>1, Instantiated
    <3> QED BY <1>2, <3>1, <3>2, Instantiated
  <2>2. CASE q # s
    BY <1>4, <1>5, <2>1, <2>2
  <2>3. CASE q = s /\ Subscribes(s) /\ d = p
    BY <1>1, <1>2, <2>3, SubscribersAreFed
  <2>4. CASE q = s /\ HoldsOutput(p, d)
    <3>1. d \in Above[p] /\ Feeds(d, p) /\ (Alive(d)' => d \in broadcasting')
      BY <1>1, <2>1, <2>4
    <3>2. Feeds(d, s)
      BY <1>1, <3>1 DEF Feeds
    <3> QED BY <1>1, <2>4, <3>1, <3>2
  <2> QED BY <1>5, <2>2, <2>3, <2>4, HoldsAfter
<1>6. ASSUME NEW q \in Scopes, kind[q] = "writer"
      PROVE  /\ phase'[q] = "registered" => CellInScope(Parent[q])' \in SharedCells
             /\ Alive(q)' => cell'[q] \in SharedCells
  <2>1. /\ phase'[s] = "live" /\ \A r \in Scopes \ {s} : phase'[r] = phase[r]
    BY DEF Instantiate, IInv, PhaseInv
  <2>2. CASE q = s
    <3>1. CellInScope(p) \in SharedCells /\ ~Subscribes(s)
      BY <1>6, <2>2, Instantiated, SubscribersAreFed DEF OutputInv, FeedInv
    <3>2. cell'[s] = CellInScope(p)
      BY <1>6, <2>2, <3>1, Instantiated DEF BoundCell, HasSlot, IsConst
    <3>3. cell'[q] \in SharedCells /\ phase'[q] # "registered"
      BY <2>1, <2>2, <3>1, <3>2
    <3> QED BY <3>3
  <2>3. CASE q # s
    <3>1. /\ phase'[q] = phase[q] /\ Alive(q)' = Alive(q) /\ cell'[q] = cell[q]
      BY <2>1, <2>3, Instantiated DEF Alive
    <3>2. ASSUME phase[q] = "registered"
          PROVE  CellInScope(Parent[q])' = CellInScope(Parent[q])
      <4>1. Parent[q] \in Scopes /\ Alive(Parent[q])
        BY <3>2, ParentAbove DEF WiringInv, SpawnInv
      <4>2. Parent[q] # s
        BY <4>1, Instantiated
      <4> QED BY <4>1, <4>2, Instantiated DEF CellInScope
    <3> QED BY <1>6, <3>1, <3>2 DEF OutputInv, FeedInv
  <2> QED BY <2>2, <2>3
<1>7. SharedCells' = SharedCells
  BY DEF SharedCells, SharedCell
<1> QED BY <1>1, <1>3, <1>5, <1>6, <1>7 DEF FeedInv

\* A dropped kernel holds nothing, and nothing was being built under it.
LEMMA DropFeed ==
    ASSUME IInv, WiringInv, OutputInv, NEW s \in Scopes, DropKernel(s)
    PROVE  FeedInv'
<1>1. /\ s # Root /\ Alive(s) /\ UNCHANGED <<matter, kind>>
      /\ phase' = [phase EXCEPT ![s] = "dropped"] /\ broadcasting' = broadcasting \ {s}
      /\ cell' = [cell EXCEPT ![s] = None] /\ transit' = [transit EXCEPT ![s] = None]
      /\ \A q \in Scopes \ {Root} : Parent[q] = s => phase[q] # "registered"
  BY DEF DropKernel, IInv, PhaseInv
<1>2. /\ phase'[s] = "dropped" /\ cell'[s] = None /\ transit'[s] = None
      /\ \A q \in Scopes \ {s} : /\ phase'[q] = phase[q] /\ cell'[q] = cell[q]
                                 /\ transit'[q] = transit[q]
  BY <1>1 DEF IInv, PhaseInv, WiringInv, SlotInv
<1>3. \A q \in Scopes : Alive(q)' = (Alive(q) /\ q # s)
  BY <1>2 DEF Alive
<1>4. \A q, d \in Scopes : HoldsOutput(q, d)' => HoldsOutput(q, d) /\ q # s
  BY <1>2, OutputCells DEF HoldsOutput, OutputCell
<1>5. \A q, d \in Scopes : Feeds(d, q)' = Feeds(d, q)
  BY <1>1 DEF Feeds
<1>6. ASSUME NEW q \in Scopes, kind[q] = "writer", phase'[q] = "registered"
      PROVE  CellInScope(Parent[q])' \in SharedCells
  <2>1. phase[q] = "registered" /\ q # Root /\ Parent[q] \in Scopes
    BY <1>2, <1>6, ParentAbove DEF WiringInv, SpawnInv
  <2>2. Parent[q] # s
    BY <1>1, <2>1
  <2>3. CellInScope(Parent[q])' = CellInScope(Parent[q])
    BY <1>2, <2>1, <2>2 DEF CellInScope
  <2> QED BY <1>6, <2>1, <2>3 DEF OutputInv, FeedInv
<1>7. SharedCells' = SharedCells
  BY DEF SharedCells, SharedCell
<1> QED BY <1>1, <1>2, <1>3, <1>4, <1>5, <1>6, <1>7 DEF OutputInv, FeedInv

\* The value of an output is in its cell when it has been pulled, at every step
\* that touches neither.
LEMMA ShownKept ==
    ASSUME WiringInv, OutputInv, UNCHANGED <<buffer, coord, cellval>>, shown' = shown, clean' = clean,
           \A s \in Scopes : Alive(s) => Alive(s)',
           \A s, d \in Scopes : HoldsOutput(s, d)' => \E q \in Scopes : HoldsOutput(q, d)
    PROVE  ShownInv'
BY DEF OutputInv, ShownInv, OutputCell

\* A new subscriber is handed the cell with the output's current value
\* (`output_cell`); a child bound to a cell its parent holds finds the same in it.
LEMMA InstantiateShown ==
    ASSUME IInv, WiringInv, OutputInv, NEW s \in Scopes \ {Root}, Instantiate(s)
    PROVE  ShownInv'
<1> DEFINE p == Parent[s]
<1>1. /\ p \in Scopes /\ Alive(p) /\ p # s
      /\ UNCHANGED <<coord, clean, buffer, shown>>
      /\ cellval' = [c \in CellIds |->
           IF Subscribes(s) /\ c = OutputCell(p) /\ CaughtUp(p) THEN buffer[p]
           ELSE IF c = OutputCell(s) THEN None ELSE cellval[c]]
  BY Instantiated DEF Instantiate
<1>2. \A q \in Scopes : Alive(q) => Alive(q)'
  BY Instantiated
<1>3. s \notin shown
  BY Instantiated DEF OutputInv, ShownInv
<1>4. ASSUME NEW q \in Scopes, NEW d \in Scopes, HoldsOutput(q, d)', d \in shown
      PROVE  cellval'[OutputCell(d)] = <<d, coord[d]>>
  <2>1. d # s /\ d \in clean /\ buffer[d] = <<d, coord[d]>> /\ OutputCell(d) \in CellIds
    BY <1>3, <1>4, CellTypes DEF OutputInv, ShownInv
  <2>2. cellval'[OutputCell(d)] =
          IF Subscribes(s) /\ d = p /\ CaughtUp(p) THEN buffer[p] ELSE cellval[OutputCell(d)]
    BY <1>1, <2>1, OutputCells
  <2>3. CASE Subscribes(s) /\ d = p
    BY <2>1, <2>2, <2>3 DEF CaughtUp
  <2>4. CASE ~(Subscribes(s) /\ d = p)
    <3>1. \E r \in Scopes : HoldsOutput(r, d)
      <4>1. CASE q = s
        BY <1>1, <1>4, <2>4, <4>1, HoldsAfter
      <4>2. CASE q # s
        BY ZenonT(40), <1>4, <4>2, Instantiated DEF HoldsOutput, OutputCell
      <4> QED BY <4>1, <4>2
    <3> QED BY <1>4, <2>2, <2>4, <3>1 DEF OutputInv, ShownInv
  <2> QED BY <2>3, <2>4
<1>5. cellval' = [c \in CellIds |-> cellval'[c]]
  BY <1>1
<1> QED BY <1>1, <1>2, <1>4, <1>5 DEF OutputInv, ShownInv, OutputCell

\* A pull stores the output in its cell while anyone holds it
\* (`publish_output`).
LEMMA PullShown ==
    ASSUME IInv, WiringInv, OutputInv, NEW s \in Scopes, PullOutput(s)
    PROVE  ShownInv'
<1>1. /\ Alive(s) /\ UNCHANGED <<coord, cell, transit, phase, matter>>
      /\ clean' = clean \cup {s} /\ shown' = shown \cup {s}
  BY DEF PullOutput, treeVars, wireVars
<1>2. (IF s \in clean THEN buffer[s] ELSE <<s, coord[s]>>) = <<s, coord[s]>>
  BY DEF OutputInv, ShownInv
<1>3. /\ buffer' = [buffer EXCEPT ![s] = <<s, coord[s]>>]
      /\ cellval' = IF Publishes(s) THEN [cellval EXCEPT ![OutputCell(s)] = <<s, coord[s]>>]
                    ELSE cellval
  BY <1>2 DEF PullOutput
<1>4. /\ buffer'[s] = <<s, coord[s]>> /\ \A q \in Scopes \ {s} : buffer'[q] = buffer[q]
      /\ buffer' = [q \in Scopes |-> buffer'[q]]
  BY <1>3 DEF OutputInv, ShownInv
<1>5. \A q, d \in Scopes : HoldsOutput(q, d)' = HoldsOutput(q, d)
  BY <1>1 DEF HoldsOutput, OutputCell
<1>6. \A q \in Scopes : Alive(q)' = Alive(q)
  BY <1>1 DEF Alive
<1>7. cellval' = [c \in CellIds |-> cellval'[c]]
  BY <1>3 DEF OutputInv, ShownInv
<1>8. ASSUME NEW q \in Scopes, NEW d \in Scopes, HoldsOutput(q, d), d \in shown'
      PROVE  cellval'[OutputCell(d)] = <<d, coord[d]>>
  <2>1. CASE d = s
    <3>1. Alive(q) /\ s \in broadcasting
      BY <1>1, <1>8, <2>1, HoldersLive
    <3>2. q \in Holders(OutputCell(s))
      BY <1>8, <2>1, <3>1 DEF Holders, HoldsOutput
    <3>3. Publishes(s)
      BY <3>1, <3>2 DEF Publishes
    <3>4. OutputCell(s) \in CellIds
      BY CellTypes
    <3> QED BY <1>3, <2>1, <3>3, <3>4 DEF OutputInv, ShownInv
  <2>2. CASE d # s
    <3>1. OutputCell(d) # OutputCell(s) /\ OutputCell(d) \in CellIds /\ d \in shown
      BY <1>1, <1>8, <2>2, OutputCells, CellTypes
    <3>2. cellval'[OutputCell(d)] = cellval[OutputCell(d)]
      BY <1>3, <3>1 DEF OutputInv, ShownInv
    <3> QED BY <1>8, <3>1, <3>2 DEF OutputInv, ShownInv
  <2> QED BY <2>1, <2>2
<1>9. shown' \subseteq clean' /\ \A d \in clean' : Alive(d)' /\ buffer'[d] = <<d, coord[d]>>
  BY <1>1, <1>4, <1>6 DEF OutputInv, ShownInv, Alive
<1> QED BY <1>1, <1>4, <1>5, <1>7, <1>8, <1>9 DEF OutputInv, ShownInv, OutputCell

\* The other steps: a write goes to a shared cell, an output whose coordinate
\* moves is not shown, an evaluation is of a node that was not memoized.
LEMMA ShownOtherwise ==
    ASSUME IInv, WiringInv, OutputInv, NEW s \in Scopes,
           Write(s) \/ SetInputs(s) \/ EvaluateNode(s) \/ DropKernel(s)
    PROVE  ShownInv'
<1>1. CASE Write(s)
  <2>1. /\ UNCHANGED <<phase, cell, transit, coord, clean, buffer, shown>>
        /\ \E n \in 1 .. MaxWrites : cellval' = [cellval EXCEPT ![cell[s]] = <<s, n>>]
    BY <1>1 DEF Write, treeVars, wireVars, outputVars
  <2>2. cell[s] \in SharedCells
    <3>1. CASE kind[s] = "shared"
      <4>1. s = Root
        BY <1>1, <3>1, SharedIsRoot DEF Write
      <4> QED BY <3>1, <4>1 DEF WiringInv, SlotInv, SharedCells
    <3>2. CASE kind[s] = "writer"
      BY <1>1, <3>2 DEF Write, OutputInv, FeedInv
    <3> QED BY <1>1, <3>1, <3>2 DEF Write
  <2>3. \A d \in Scopes : cellval'[OutputCell(d)] = cellval[OutputCell(d)]
    BY <2>1, <2>2, OutputCells, CellTypes DEF OutputInv, ShownInv
  <2>4. cellval' = [c \in CellIds |-> cellval'[c]]
    BY <2>1 DEF OutputInv, ShownInv
  <2>5. \A q, d \in Scopes : HoldsOutput(q, d)' = HoldsOutput(q, d)
    BY <2>1 DEF HoldsOutput, OutputCell
  <2> QED BY <2>1, <2>3, <2>4, <2>5 DEF OutputInv, ShownInv, Alive, OutputCell
<1>2. CASE SetInputs(s)
  <2>1. /\ UNCHANGED <<phase, cell, transit, cellval, buffer>> /\ coord[s] \in Nat
        /\ coord' = [coord EXCEPT ![s] = @ + 1] /\ clean' = clean \ {s} /\ shown' = shown \ {s}
    BY <1>2 DEF SetInputs, treeVars, wireVars, OutputInv, ShownInv
  <2>2. coord' \in [Scopes -> Nat] /\ \A d \in Scopes \ {s} : coord'[d] = coord[d]
    BY <2>1 DEF OutputInv, ShownInv
  <2>3. \A q, d \in Scopes : HoldsOutput(q, d)' = HoldsOutput(q, d)
    BY <2>1 DEF HoldsOutput, OutputCell
  <2>4. /\ shown' \subseteq clean'
        /\ \A d \in clean' : Alive(d)' /\ buffer'[d] = <<d, coord'[d]>>
    BY <2>1, <2>2 DEF OutputInv, ShownInv, Alive, IInv, PhaseInv
  <2>5. /\ clean' \subseteq Scopes /\ buffer' = [q \in Scopes |-> buffer'[q]]
        /\ cellval' = [c \in CellIds |-> cellval'[c]]
    BY <2>1 DEF OutputInv, ShownInv
  <2>6. \A q, d \in Scopes : HoldsOutput(q, d) /\ d \in shown' =>
          cellval'[OutputCell(d)] = <<d, coord'[d]>>
    BY <2>1, <2>2 DEF OutputInv, ShownInv
  <2> QED BY <2>2, <2>3, <2>4, <2>5, <2>6 DEF ShownInv, OutputCell
<1>3. CASE EvaluateNode(s)
  <2>1. /\ UNCHANGED <<phase, cell, transit, cellval, coord, shown>> /\ Alive(s) /\ s \notin clean
        /\ buffer' = [buffer EXCEPT ![s] = <<s, coord[s]>>] /\ clean' = clean \cup {s}
    BY <1>3 DEF EvaluateNode, treeVars, wireVars
  <2>2. /\ buffer' = [q \in Scopes |-> buffer'[q]] /\ buffer'[s] = <<s, coord[s]>>
        /\ \A q \in Scopes \ {s} : buffer'[q] = buffer[q]
    BY <2>1 DEF OutputInv, ShownInv
  <2>3. \A q, d \in Scopes : HoldsOutput(q, d)' = HoldsOutput(q, d)
    BY <2>1 DEF HoldsOutput, OutputCell
  <2>4. /\ shown' \subseteq clean'
        /\ \A d \in clean' : Alive(d)' /\ buffer'[d] = <<d, coord[d]>>
    BY <2>1, <2>2 DEF OutputInv, ShownInv, Alive
  <2>5. /\ clean' \subseteq Scopes /\ coord' \in [Scopes -> Nat]
        /\ cellval' = [c \in CellIds |-> cellval'[c]]
    BY <2>1 DEF OutputInv, ShownInv
  <2>6. \A q, d \in Scopes : HoldsOutput(q, d) /\ d \in shown' =>
          cellval'[OutputCell(d)] = <<d, coord'[d]>>
    BY <2>1 DEF OutputInv, ShownInv
  <2> QED BY <2>1, <2>2, <2>3, <2>4, <2>5, <2>6 DEF ShownInv, OutputCell
<1>4. CASE DropKernel(s)
  <2>1. /\ UNCHANGED <<cellval, buffer>> /\ clean' = clean \ {s} /\ shown' = shown \ {s}
        /\ coord' = [coord EXCEPT ![s] = 0]
        /\ phase' = [phase EXCEPT ![s] = "dropped"]
        /\ cell' = [cell EXCEPT ![s] = None] /\ transit' = [transit EXCEPT ![s] = None]
    BY <1>4 DEF DropKernel
  <2>2. coord' \in [Scopes -> Nat] /\ \A d \in Scopes \ {s} : coord'[d] = coord[d]
    BY <2>1 DEF OutputInv, ShownInv
  <2>3. \A q, d \in Scopes : HoldsOutput(q, d)' => HoldsOutput(q, d)
    BY <2>1, OutputCells DEF HoldsOutput, OutputCell, WiringInv, SlotInv
  <2>4. \A q \in Scopes \ {s} : Alive(q)' = Alive(q)
    BY <2>1 DEF Alive, IInv, PhaseInv
  <2>5. /\ shown' \subseteq clean' /\ clean' \subseteq Scopes
        /\ \A d \in clean' : Alive(d)' /\ buffer'[d] = <<d, coord'[d]>>
    BY <2>1, <2>2, <2>4 DEF OutputInv, ShownInv
  <2> QED BY <2>1, <2>2, <2>3, <2>5 DEF OutputInv, ShownInv, OutputCell
<1> QED BY <1>1, <1>2, <1>3, <1>4

LEMMA NextOutput ==
    ASSUME ExportsElsewhere
    PROVE  IInv /\ WiringInv /\ OutputInv /\ [Next]_vars => OutputInv'
<1> SUFFICES ASSUME IInv, WiringInv, OutputInv, [Next]_vars PROVE OutputInv'
  OBVIOUS
<1>1. ASSUME UNCHANGED <<phase, kind, matter, wireVars, cellval, outputVars>> PROVE OutputInv'
  <2>1. UNCHANGED <<cell, transit, coord, clean, buffer, broadcasting, shown>>
    BY <1>1 DEF wireVars, outputVars
  <2>2. \A s \in Scopes : Alive(s)' = Alive(s)
    BY <1>1 DEF Alive
  <2>3. \A s, d \in Scopes : HoldsOutput(s, d)' = HoldsOutput(s, d)
    BY <2>1 DEF HoldsOutput, OutputCell
  <2> QED BY <1>1, <2>1, <2>2, <2>3, FeedKept, ShownKept DEF OutputInv
<1>2. CASE UNCHANGED vars
  BY <1>1, <1>2 DEF vars, treeVars
<1>3. CASE Next
  <2>1. PICK s \in Scopes :
          \/ s # Root /\ (Register(s) \/ Instantiate(s) \/ FailInstantiate(s))
          \/ ReleaseChild(s) \/ DropKernel(s) \/ Write(s) \/ SetInputs(s)
          \/ PullOutput(s) \/ EvaluateNode(s)
    BY <1>3 DEF Next
  <2>2. CASE s # Root /\ Register(s)
    <3>1. UNCHANGED <<matter, cell, transit, cellval, coord, clean, buffer, shown>>
      BY <2>2 DEF Register, wireVars, outputVars
    <3>2. \A q \in Scopes : Alive(q) => Alive(q)'
      BY <2>2 DEF Register, Alive, IInv, PhaseInv
    <3>3. \A q, d \in Scopes : HoldsOutput(q, d)' = HoldsOutput(q, d)
      BY <3>1 DEF HoldsOutput, OutputCell
    <3> QED BY <2>2, <3>1, <3>2, <3>3, RegisterFeed, ShownKept DEF OutputInv
  <2>3. CASE s # Root /\ Instantiate(s)
    BY <2>3, InstantiateFeed, InstantiateShown DEF OutputInv
  <2>4. CASE s # Root /\ FailInstantiate(s)
    <3>1. /\ UNCHANGED <<matter, kind, cell, transit, cellval, coord, clean, buffer, broadcasting, shown>>
          /\ phase[s] = "registered" /\ phase' = [phase EXCEPT ![s] = "none"]
      BY <2>4 DEF FailInstantiate, wireVars, outputVars
    <3>2. \A q \in Scopes : /\ Alive(q)' = Alive(q)
                            /\ phase'[q] = "registered" => phase[q] = "registered"
      BY <3>1 DEF Alive, IInv, PhaseInv
    <3>3. \A q, d \in Scopes : HoldsOutput(q, d)' = HoldsOutput(q, d)
      BY <3>1 DEF HoldsOutput, OutputCell
    <3> QED BY <3>1, <3>2, <3>3, FeedKept, ShownKept DEF OutputInv
  <2>5. CASE DropKernel(s)
    BY <2>5, DropFeed, ShownOtherwise DEF OutputInv
  <2>6. CASE Write(s) \/ SetInputs(s) \/ EvaluateNode(s)
    <3>1. UNCHANGED <<matter, kind, phase, cell, transit, broadcasting>>
      BY <2>6 DEF Write, SetInputs, EvaluateNode, treeVars, wireVars, outputVars
    <3> QED BY <2>6, <3>1, FeedKept, ShownOtherwise DEF OutputInv, Alive
  <2>7. CASE PullOutput(s)
    <3>1. UNCHANGED <<matter, kind, phase, cell, transit, broadcasting>>
      BY <2>7 DEF PullOutput, treeVars, wireVars
    <3> QED BY <2>7, <3>1, FeedKept, PullShown DEF OutputInv, Alive
  <2>8. CASE ReleaseChild(s)
    BY <1>1, <2>8 DEF ReleaseChild
  <2> QED BY <2>1, <2>2, <2>3, <2>4, <2>5, <2>6, <2>7, <2>8
<1> QED BY <1>2, <1>3

LEMMA InitOutput == Init => OutputInv
<1> SUFFICES ASSUME Init PROVE OutputInv
  OBVIOUS
<1>1. /\ Root \in Scopes /\ SharedCell(Root) \in SharedCells
      /\ \A s, d \in Scopes : ~HoldsOutput(s, d)
  BY TreeAssumption, OutputCells DEF Init, HoldsOutput, SharedCells
<1>2. matter \in [Scopes -> (Kinds \ {"writer"}) \cup {"export"}]
  BY MattersAssumption DEF Init
<1>3. \A s \in Scopes : kind[s] # "writer"
  BY <1>2 DEF Init, Kinds
<1> QED BY <1>1, <1>3 DEF Init, OutputInv, FeedInv, ShownInv

\* After a pull, and until its inputs move, every scope subscribed to a computed
\* output reads the value pulled, whenever it was spawned and whatever else is
\* spawned, dropped or written, if no export has that output's cell in its scope
\* (`publish_output`, `output_cell`).
THEOREM BroadcastsReach ==
    ASSUME ExportsElsewhere
    PROVE  Spec => []SubscribersSeeThePull
<1>1. IInv /\ WiringInv /\ OutputInv /\ [Next]_vars => OutputInv'
  BY NextOutput
<1>2. OutputInv => SubscribersSeeThePull
  <2> SUFFICES ASSUME OutputInv, NEW s \in Scopes, NEW d \in Scopes,
                      cell[s] = OutputCell(d), d \in shown
               PROVE  SlotValue(s) = <<d, coord[d]>>
    BY DEF SubscribersSeeThePull
  <2> QED BY OutputCells DEF OutputInv, ShownInv, HoldsOutput, SlotValue
<1> QED BY <1>1, <1>2, InitOutput, Wired, PTL DEF Spec

=============================================================================
