------------------------ MODULE ResourceScope_proofs ------------------------
(***************************************************************************)
(* Theorems about ResourceScope, for any set of scopes and any number of   *)
(* threads: every chain of parents stays acyclic, but for cycles whose     *)
(* joins are still in progress.                                            *)
(*                                                                         *)
(* The property is not inductive: a join in its second walk would be       *)
(* allowed to end anywhere.  What makes it so is where that walk is: once  *)
(* it is inside a closed ring it can only leave it by finding its own      *)
(* scope, which severs the link.                                           *)
(*                                                                         *)
(* And a join no other overlaps is never severed: what its first walk      *)
(* passed is still all there is when the second one walks it.              *)
(***************************************************************************)
EXTENDS ResourceScope, TLAPS

Calls ==
    {Idle} \cup [at : {"lookup"}, pos : Scopes]
    \cup [at : {"check", "set", "recheck", "sever"}, scope : Scopes, to : Scopes, pos : Scopes]

\* A join that will sever a link of the ring.
WillSever(t, ring) ==
    \/ At(t, "recheck") /\ thread[t].scope \in ring /\ thread[t].pos \in ring
    \/ At(t, "sever") /\ thread[t].scope \in ring

RingsHaveWalkers ==
    \A ring \in SUBSET Scopes : Closed(ring) => \E t \in Threads : WillSever(t, ring)

\* What the first walk has passed: a way from the parent to where it is, that
\* does not hold the scope.
Passed(t, way) ==
    /\ thread[t].scope \notin way /\ thread[t].to \in way \cup {thread[t].pos}
    /\ \A s \in way : Joined(s) /\ parent[s] \in way \cup {thread[t].pos}

\* Scopes the parent resolves through, all of them, and the scope is none.
Clears(t, past) ==
    /\ thread[t].scope \notin past /\ {thread[t].to, thread[t].pos} \subseteq past
    /\ \A s \in past : Joined(s) => parent[s] \in past

\* A join nobody overlapped is alone, and what its walks find is still so.
AloneInv ==
    \A t \in Threads : InJoin(t) /\ t \notin raced =>
        /\ \A u \in Threads : InJoin(u) => u = t
        /\ At(t, "check") => \E way \in SUBSET Scopes : Passed(t, way)
        /\ thread[t].at \in {"set", "recheck"} => \E past \in SUBSET Scopes : Clears(t, past)
        /\ ~At(t, "sever")

-----------------------------------------------------------------------------

\* The record of a join's move, and of a lookup's (`join`, `lookup`).
LEMMA CallTypes ==
    ASSUME NEW s \in Scopes, NEW p \in Scopes, NEW pos \in Scopes,
           NEW stage \in {"check", "set", "recheck", "sever"}
    PROVE  Joining(stage, s, p, pos) \in Calls /\ Looking(pos) \in Calls
BY DEF Joining, Looking, Calls

\* A call of a join has a scope, a parent and a position.
LEMMA JoinRecord ==
    ASSUME TypeOK, NEW t \in Threads, InJoin(t)
    PROVE  thread[t].scope \in Scopes /\ thread[t].to \in Scopes /\ thread[t].pos \in Scopes
BY DEF TypeOK, InJoin, Idle

\* A walk moves to a scope: what a joined scope's link holds is one.
LEMMA ParentType ==
    ASSUME TypeOK, NEW s \in Scopes, Joined(s)
    PROVE  parent[s] \in Scopes
BY DEF TypeOK, Joined

\* Every step preserves the types (all of resource.rs, `ResourceScope`).
LEMMA NextType == TypeOK /\ [Next]_vars => TypeOK'
<1> SUFFICES ASSUME TypeOK, [Next]_vars PROVE TypeOK'
  OBVIOUS
<1> USE DEF TypeOK
<1>1. ASSUME NEW t \in Threads, NEW call \in Calls, Goto(t, call)
      PROVE thread' \in [Threads -> Calls]
  BY <1>1 DEF Goto, Calls
<1>2. ASSUME NEW t \in Threads, NEW stage \in {"check", "set", "recheck", "sever"},
             NEW pos \in Scopes, InJoin(t), Move(t, stage, pos)
      PROVE thread' \in [Threads -> Calls]
  <2>1. Joining(stage, thread[t].scope, thread[t].to, pos) \in Calls
    BY <1>2, JoinRecord, CallTypes
  <2> QED BY <1>1, <1>2, <2>1 DEF Move
<1>3. Idle \in Calls
  BY DEF Calls
<1>4. ASSUME NEW t \in Threads, NEW s \in Scopes, NEW p \in Scopes, StartJoin(t, s, p)
      PROVE TypeOK'
  <2>1. thread' \in [Threads -> Calls]
    BY <1>1, <1>4, CallTypes DEF StartJoin
  <2> QED BY <1>4, <2>1 DEF StartJoin, Overlap, Calls
<1>5. ASSUME NEW t \in Threads, Check(t) PROVE TypeOK'
  <2>1. InJoin(t)
    BY <1>5 DEF Check, At, InJoin
  <2>2. thread' \in [Threads -> Calls]
    BY <1>1, <1>2, <1>3, <1>5, <2>1, JoinRecord, ParentType DEF Check, WalkOn
  <2> QED BY <1>5, <2>2 DEF Check, Calls
<1>6. ASSUME NEW t \in Threads, SetLink(t) PROVE TypeOK'
  <2>1. InJoin(t)
    BY <1>6 DEF SetLink, At, InJoin
  <2>2. thread[t].to \in Scopes /\ thread[t].scope \in Scopes
    BY <2>1, JoinRecord
  <2>3. thread' \in [Threads -> Calls]
    BY <1>1, <1>2, <1>3, <1>6, <2>1, <2>2 DEF SetLink
  <2>4. parent' \in [Scopes -> Scopes \cup {NoScope}]
    BY <1>6, <2>2 DEF SetLink
  <2> QED BY <1>6, <2>3, <2>4 DEF SetLink, Calls
<1>7. ASSUME NEW t \in Threads, Recheck(t) PROVE TypeOK'
  <2>1. InJoin(t)
    BY <1>7 DEF Recheck, At, InJoin
  <2>2. thread' \in [Threads -> Calls]
    BY <1>1, <1>2, <1>3, <1>7, <2>1, JoinRecord, ParentType DEF Recheck, WalkOn
  <2> QED BY <1>7, <2>2 DEF Recheck, Calls
<1>8. ASSUME NEW t \in Threads, Sever(t) PROVE TypeOK'
  <2>1. thread[t].scope \in Scopes
    BY <1>8, JoinRecord DEF Sever, At, InJoin
  <2>2. thread' \in [Threads -> Calls]
    BY <1>1, <1>3, <1>8 DEF Sever
  <2> QED BY <1>8, <2>1, <2>2 DEF Sever, Calls
<1>10. ASSUME NEW t \in Threads, Lookup(t) PROVE TypeOK'
  <2>1. thread[t].pos \in Scopes
    BY <1>10 DEF Lookup, At, Idle
  <2>2. thread' \in [Threads -> Calls]
    BY <1>1, <1>3, <1>10, <2>1, ParentType, CallTypes DEF Lookup
  <2> QED BY <1>10, <2>2 DEF Lookup, Calls
<1>11. ASSUME NEW t \in Threads, NEW s \in Scopes, Install(t, s) PROVE TypeOK'
  BY <1>11 DEF Install
<1>12. ASSUME NEW t \in Threads, NEW s \in Scopes, StartLookup(t, s) PROVE TypeOK'
  <2>1. thread' \in [Threads -> Calls]
    BY <1>1, <1>12, CallTypes DEF StartLookup
  <2> QED BY <1>12, <2>1 DEF StartLookup, Calls
<1>9. CASE UNCHANGED vars
  BY <1>9 DEF vars, TypeOK
<1> QED BY <1>4, <1>5, <1>6, <1>7, <1>8, <1>9, <1>10, <1>11, <1>12 DEF Next, CallStep

\* The type invariant of the resource scopes holds throughout.
THEOREM TypeCorrect == Spec => []TypeOK
<1>1. Init => TypeOK
  BY DEF Init, TypeOK
<1> QED BY <1>1, NextType, PTL DEF Spec

-----------------------------------------------------------------------------

\* A step that changes no link keeps the walkers of every ring, if each of them
\* that moves is still one.
LEMMA RingsKept ==
    ASSUME RingsHaveWalkers, severed \subseteq severed', parent' = parent,
           \A ring \in SUBSET Scopes, t \in Threads :
               Closed(ring) /\ Closed(ring)' /\ WillSever(t, ring) => WillSever(t, ring)'
    PROVE  RingsHaveWalkers'
<1> SUFFICES ASSUME NEW ring \in SUBSET Scopes, Closed(ring)'
             PROVE  \E t \in Threads : WillSever(t, ring)'
  BY DEF RingsHaveWalkers
<1>1. Closed(ring)
  BY DEF Closed, Joined
<1>2. PICK t \in Threads : WillSever(t, ring)
  BY <1>1 DEF RingsHaveWalkers
<1> QED BY <1>1, <1>2

\* A thread that is in no second walk and severs nothing keeps no ring, so what
\* it does next to its own record changes no walker.
LEMMA OthersKept ==
    ASSUME TypeOK, NEW t \in Threads, NEW call, Goto(t, call),
           thread[t].at \notin {"recheck", "sever"}
    PROVE  \A ring \in SUBSET Scopes, u \in Threads : WillSever(u, ring) => WillSever(u, ring)'
BY DEF TypeOK, Goto, WillSever, At

\* The second walk, in a closed ring, stays in it or finds its own scope
\* (`join`, the walk after the set).
LEMMA RecheckKeepsRing ==
    ASSUME TypeOK, NEW t \in Threads, Recheck(t), NEW ring \in SUBSET Scopes, Closed(ring),
           WillSever(t, ring)
    PROVE  WillSever(t, ring)'
<1>1. thread[t].scope \in ring /\ thread[t].pos \in ring /\ t \in DOMAIN thread
  BY DEF Recheck, WillSever, At, TypeOK
<1>2. Joined(thread[t].pos) /\ parent[thread[t].pos] \in ring
  BY <1>1 DEF Closed
<1>3. CASE WalkOn(t, "recheck")
  BY <1>1, <1>2, <1>3 DEF WalkOn, Move, Goto, Joining, WillSever, At
<1>4. CASE WalkEnds(t)
  BY <1>2, <1>4 DEF WalkEnds
<1>5. CASE Move(t, "sever", thread[t].pos)
  BY <1>1, <1>5 DEF Move, Goto, Joining, WillSever, At
<1> QED BY <1>3, <1>4, <1>5 DEF Recheck

\* The strengthened invariant is inductive.
LEMMA NextRings ==
    ASSUME TypeOK, RingsHaveWalkers, [Next]_vars
    PROVE  RingsHaveWalkers'
<1>1. ASSUME NEW t \in Threads, NEW call, Goto(t, call), UNCHANGED <<parent, severed>>,
             thread[t].at \notin {"recheck", "sever"}
      PROVE  RingsHaveWalkers'
  BY <1>1, OthersKept, RingsKept
<1>2. ASSUME NEW t \in Threads, NEW s \in Scopes, NEW p \in Scopes, StartJoin(t, s, p)
      PROVE RingsHaveWalkers'
  BY <1>1, <1>2 DEF StartJoin, At
<1>3. ASSUME NEW t \in Threads, Check(t) PROVE RingsHaveWalkers'
  BY <1>1, <1>3 DEF Check, At, WalkOn, Move
<1>4. ASSUME NEW t \in Threads, SetLink(t) PROVE RingsHaveWalkers'
  <2> DEFINE s == thread[t].scope
             p == thread[t].to
  <2>1. s \in Scopes /\ p \in Scopes
    BY <1>4, JoinRecord DEF SetLink, At, InJoin
  <2>2. CASE parent[s] = NoScope
    <3> SUFFICES ASSUME NEW ring \in SUBSET Scopes, Closed(ring)'
                 PROVE  \E u \in Threads : WillSever(u, ring)'
      BY DEF RingsHaveWalkers
    <3>1. /\ parent' = [parent EXCEPT ![s] = p]
          /\ severed' = severed
          /\ Goto(t, Joining("recheck", s, p, p))
      BY <1>4, <2>2 DEF SetLink, Move
    <3>2. CASE s \in ring
      <4>1. p \in ring
        BY <2>1, <3>1, <3>2 DEF Closed, TypeOK
      <4>2. thread'[t] = Joining("recheck", s, p, p)
        BY <3>1 DEF Goto, TypeOK
      <4>3. /\ thread'[t].at = "recheck"
            /\ thread'[t].scope = s
            /\ thread'[t].pos = p
        BY <4>2 DEF Joining
      <4>4. WillSever(t, ring)'
        BY <3>2, <4>1, <4>3 DEF WillSever, At
      <4> QED BY <4>4
    <3>3. CASE s \notin ring
      <4>1. \A q \in ring : parent'[q] = parent[q]
        BY <2>1, <3>1, <3>3 DEF TypeOK
      <4>2. Closed(ring)
        BY <3>1, <4>1 DEF Closed, Joined
      <4>3. PICK u \in Threads : WillSever(u, ring)
        BY <4>2 DEF RingsHaveWalkers
      <4>4. WillSever(u, ring)'
        BY <1>4, <3>1, <4>3, OthersKept DEF SetLink, At
      <4> QED BY <4>4
    <3> QED BY <3>2, <3>3
  <2>3. CASE parent[s] # NoScope
    BY <1>1, <1>4, <2>3 DEF SetLink, At
  <2> QED BY <2>2, <2>3
<1>5. ASSUME NEW t \in Threads, Recheck(t) PROVE RingsHaveWalkers'
  <2>1. UNCHANGED <<parent, severed>>
    BY <1>5 DEF Recheck
  <2>2. ASSUME NEW u \in Threads, u # t PROVE thread'[u] = thread[u]
    BY <1>5, <2>2 DEF Recheck, WalkOn, Move, Goto, TypeOK
  <2>3. ASSUME NEW ring \in SUBSET Scopes, NEW u \in Threads, Closed(ring), WillSever(u, ring)
        PROVE  WillSever(u, ring)'
    <3>1. CASE u = t
      BY <1>5, <2>3, <3>1, RecheckKeepsRing
    <3>2. CASE u # t
      BY <2>2, <2>3, <3>2 DEF WillSever, At
    <3> QED BY <3>1, <3>2
  <2> QED BY <2>1, <2>3, RingsKept
<1>6. ASSUME NEW t \in Threads, Sever(t) PROVE RingsHaveWalkers'
  <2>1. parent' = parent /\ severed' = severed \cup {thread[t].scope}
    BY <1>6 DEF Sever
  <2>2. ASSUME NEW ring \in SUBSET Scopes, NEW u \in Threads, Closed(ring)', WillSever(u, ring)
        PROVE  WillSever(u, ring)'
    <3>1. thread[t].scope \notin ring
      BY <2>1, <2>2 DEF Closed, Joined
    <3>2. u # t
      BY <2>2, <3>1 DEF WillSever
    <3> QED BY <1>6, <2>2, <3>2 DEF Sever, Goto, WillSever, At, TypeOK
  <2> QED BY <2>1, <2>2, RingsKept
<1>7. ASSUME NEW t \in Threads, Lookup(t) PROVE RingsHaveWalkers'
  BY <1>1, <1>7 DEF Lookup, At
<1>8. ASSUME NEW t \in Threads, NEW s \in Scopes, StartLookup(t, s) PROVE RingsHaveWalkers'
  BY <1>1, <1>8 DEF StartLookup, At
<1>9. ASSUME UNCHANGED <<parent, severed, thread>> PROVE RingsHaveWalkers'
  BY <1>9 DEF RingsHaveWalkers, Closed, Joined, WillSever, At
<1>10. ASSUME NEW t \in Threads, NEW s \in Scopes, Install(t, s) PROVE RingsHaveWalkers'
  BY <1>9, <1>10 DEF Install
<1>11. CASE UNCHANGED vars
  BY <1>9, <1>11 DEF vars
<1> QED BY <1>2, <1>3, <1>4, <1>5, <1>6, <1>7, <1>8, <1>10, <1>11 DEF Next, CallStep

\* However many threads join scopes at once, and in whatever order: a cycle of
\* scopes has a join in progress that will sever it (`join`).
THEOREM CyclesDoNotLast == Spec => []CyclesAreBeingSevered
<1>1. Init => TypeOK /\ RingsHaveWalkers
  BY DEF Init, TypeOK, RingsHaveWalkers, Closed, Joined
<1>2. TypeOK /\ RingsHaveWalkers /\ [Next]_vars => (TypeOK /\ RingsHaveWalkers)'
  BY NextType, NextRings
<1>3. RingsHaveWalkers => CyclesAreBeingSevered
  BY DEF RingsHaveWalkers, CyclesAreBeingSevered, WillSever, At
<1> QED BY <1>1, <1>2, <1>3, PTL DEF Spec

-----------------------------------------------------------------------------
(* Joins that overlapped no other.                                         *)

\* Where a join is after a move of its own (`join`).
LEMMA MoveRecord ==
    ASSUME TypeOK, NEW t \in Threads, NEW stage, NEW pos, Move(t, stage, pos)
    PROVE  /\ thread'[t].at = stage /\ thread'[t].pos = pos
           /\ thread'[t].scope = thread[t].scope /\ thread'[t].to = thread[t].to
           /\ \A u \in Threads : u # t => thread'[u] = thread[u]
BY DEF TypeOK, Move, Goto, Joining

\* A step of one join says nothing of another: the joins that overlapped none
\* are alone before it and after it.
LEMMA OneAlone ==
    ASSUME AloneInv, TypeOK, NEW t \in Threads, NEW call, Goto(t, call), InJoin(t),
           raced' = raced,
           InJoin(t)' /\ t \notin raced =>
             /\ At(t, "check")' => \E way \in SUBSET Scopes : Passed(t, way)'
             /\ thread'[t].at \in {"set", "recheck"} =>
                  \E past \in SUBSET Scopes : Clears(t, past)'
             /\ ~At(t, "sever")'
    PROVE  AloneInv'
<1> SUFFICES ASSUME NEW u \in Threads, InJoin(u)', u \notin raced
             PROVE  /\ \A k \in Threads : InJoin(k)' => k = u
                    /\ At(u, "check")' => \E way \in SUBSET Scopes : Passed(u, way)'
                    /\ thread'[u].at \in {"set", "recheck"} =>
                         \E past \in SUBSET Scopes : Clears(u, past)'
                    /\ ~At(u, "sever")'
  BY DEF AloneInv
<1>1. \A k \in Threads \ {t} : thread'[k] = thread[k]
  BY DEF Goto, TypeOK
<1>2. \A k \in Threads : InJoin(k)' => InJoin(k)
  BY <1>1 DEF InJoin
<1>3. \A k \in Threads : InJoin(k) => k = u
  BY <1>2 DEF AloneInv
<1> QED BY <1>2, <1>3

\* A step that moves no join and changes no link.
LEMMA AloneKept ==
    ASSUME AloneInv, UNCHANGED <<parent, severed, raced>>,
           \A k \in Threads : InJoin(k) \/ InJoin(k)' => thread'[k] = thread[k]
    PROVE  AloneInv'
<1> SUFFICES ASSUME NEW u \in Threads, InJoin(u)', u \notin raced
             PROVE  /\ \A k \in Threads : InJoin(k)' => k = u
                    /\ At(u, "check")' => \E way \in SUBSET Scopes : Passed(u, way)'
                    /\ thread'[u].at \in {"set", "recheck"} =>
                         \E past \in SUBSET Scopes : Clears(u, past)'
                    /\ ~At(u, "sever")'
  BY DEF AloneInv
<1>1. thread'[u] = thread[u] /\ InJoin(u)
  BY DEF InJoin
<1>2. \A k \in Threads : InJoin(k)' => InJoin(k)
  BY DEF InJoin
<1>3. \A s : Joined(s)' = Joined(s)
  BY DEF Joined
<1>4. \A way \in SUBSET Scopes : Passed(u, way)' = Passed(u, way) /\ Clears(u, way)' = Clears(u, way)
  BY <1>1, <1>3 DEF Passed, Clears
<1> QED BY <1>1, <1>2, <1>4 DEF AloneInv, At

\* A join nobody overlaps is never severed: what its first walk passed holds no
\* scope that leads back, and no link of it changes before the second.
LEMMA NextAlone ==
    ASSUME TypeOK, AloneInv, [Next]_vars
    PROVE  AloneInv'
<1>1. ASSUME NEW t \in Threads, NEW s \in Scopes, NEW p \in Scopes, StartJoin(t, s, p)
      PROVE AloneInv'
  <2> DEFINE others == {u \in Threads \ {t} : InJoin(u)}
  <2>1. /\ thread'[t] = Joining("check", s, p, p)
        /\ \A u \in Threads \ {t} : thread'[u] = thread[u]
    BY <1>1 DEF StartJoin, Goto, TypeOK
  <2>2. ASSUME NEW u \in Threads, InJoin(u)', u \notin raced'
        PROVE  u = t /\ others = {}
    <3>1. u # t => u \in others
      BY <2>1, <2>2 DEF InJoin
    <3> QED BY <1>1, <2>2, <3>1 DEF StartJoin, Overlap
  <2>3. others = {} => \A k \in Threads : InJoin(k)' => k = t
    BY <2>1 DEF InJoin
  <2>4. /\ thread'[t].at = "check" /\ thread'[t].scope = s /\ thread'[t].to = p
        /\ thread'[t].pos = p
    BY <2>1 DEF Joining
  <2>5. Passed(t, {})' /\ {} \in SUBSET Scopes
    BY <2>4 DEF Passed
  <2> QED BY <2>2, <2>3, <2>4, <2>5 DEF AloneInv, At
<1>2. ASSUME NEW t \in Threads, Check(t) PROVE AloneInv'
  <2>1. InJoin(t) /\ At(t, "check") /\ UNCHANGED <<parent, severed, raced>>
    BY <1>2 DEF Check, InJoin, At
  <2>2. thread[t].scope \in Scopes /\ thread[t].to \in Scopes /\ thread[t].pos \in Scopes
    BY <2>1, JoinRecord
  <2>3. CASE WalkOn(t, "check")
    <3>1. Move(t, "check", parent[thread[t].pos])
      BY <2>3 DEF WalkOn
    <3>2. ASSUME NEW way \in SUBSET Scopes, Passed(t, way),
                 NEW longer, longer = way \cup {thread[t].pos}
          PROVE  Passed(t, longer)'
      BY <2>1, <2>3, <3>1, <3>2, MoveRecord DEF Passed, WalkOn, Joined
    <3>3. \A way \in SUBSET Scopes : way \cup {thread[t].pos} \in SUBSET Scopes
      BY <2>2
    <3>4. thread'[t].at = "check"
      BY <3>1, MoveRecord
    <3>5. ASSUME t \notin raced PROVE \E way \in SUBSET Scopes : Passed(t, way)'
      <4>1. PICK way \in SUBSET Scopes : Passed(t, way)
        BY <2>1, <3>5 DEF AloneInv
      <4>2. PICK longer \in SUBSET Scopes : longer = way \cup {thread[t].pos}
        BY <3>3
      <4> QED BY <3>2, <4>1, <4>2
    <3> QED BY <2>1, <3>1, <3>4, <3>5, OneAlone DEF Move, At
  <2>4. CASE WalkEnds(t) /\ Move(t, "set", thread[t].pos)
    <3>1. ASSUME NEW way \in SUBSET Scopes, Passed(t, way),
                 NEW longer, longer = way \cup {thread[t].pos}
          PROVE  Clears(t, longer)'
      BY <2>1, <2>4, <3>1, MoveRecord DEF Passed, Clears, WalkEnds, WalkFinds, Joined
    <3>2. \A way \in SUBSET Scopes : way \cup {thread[t].pos} \in SUBSET Scopes
      BY <2>2
    <3>3. thread'[t].at = "set"
      BY <2>4, MoveRecord
    <3>4. ASSUME t \notin raced PROVE \E past \in SUBSET Scopes : Clears(t, past)'
      <4>1. PICK way \in SUBSET Scopes : Passed(t, way)
        BY <2>1, <3>4 DEF AloneInv
      <4>2. PICK past \in SUBSET Scopes : past = way \cup {thread[t].pos}
        BY <3>2
      <4> QED BY <3>1, <4>1, <4>2
    <3> QED BY <2>1, <2>4, <3>3, <3>4, OneAlone DEF Move, At
  <2>5. CASE Goto(t, Idle)
    <3>1. ~InJoin(t)'
      BY <2>5 DEF Goto, TypeOK, InJoin, Idle
    <3> QED BY <2>1, <2>5, <3>1, OneAlone
  <2> QED BY <1>2, <2>3, <2>4, <2>5 DEF Check
<1>3. ASSUME NEW t \in Threads, SetLink(t) PROVE AloneInv'
  <2> DEFINE s == thread[t].scope
             p == thread[t].to
  <2>1. InJoin(t) /\ At(t, "set") /\ UNCHANGED <<severed, raced>>
    BY <1>3 DEF SetLink, InJoin, At
  <2>2. s \in Scopes /\ p \in Scopes
    BY <2>1, JoinRecord
  <2>3. CASE parent[s] = NoScope
    <3>1. parent' = [parent EXCEPT ![s] = p] /\ Move(t, "recheck", p)
      BY <1>3, <2>3 DEF SetLink
    <3>2. ASSUME NEW past \in SUBSET Scopes, Clears(t, past)
          PROVE  Clears(t, past)'
      <4>1. \A q \in past : parent'[q] = parent[q]
        BY <2>2, <3>1, <3>2 DEF TypeOK, Clears
      <4> QED BY <2>1, <3>1, <3>2, <4>1, MoveRecord DEF Clears, Joined
    <3>3. thread'[t].at = "recheck"
      BY <3>1, MoveRecord
    <3>4. t \notin raced => \E past \in SUBSET Scopes : Clears(t, past)'
      BY <2>1, <3>2 DEF AloneInv, At
    <3> QED BY <2>1, <3>1, <3>3, <3>4, OneAlone DEF Move, At
  <2>4. CASE parent[s] # NoScope
    <3>1. Goto(t, Idle)
      BY <1>3, <2>4 DEF SetLink
    <3>2. ~InJoin(t)'
      BY <3>1 DEF Goto, TypeOK, InJoin, Idle
    <3> QED BY <2>1, <3>1, <3>2, OneAlone
  <2> QED BY <2>3, <2>4
<1>4. ASSUME NEW t \in Threads, Recheck(t) PROVE AloneInv'
  <2>1. InJoin(t) /\ At(t, "recheck") /\ UNCHANGED <<parent, severed, raced>>
    BY <1>4 DEF Recheck, InJoin, At
  <2>2. CASE WalkOn(t, "recheck")
    <3>1. Move(t, "recheck", parent[thread[t].pos])
      BY <2>2 DEF WalkOn
    <3>2. ASSUME NEW past \in SUBSET Scopes, Clears(t, past)
          PROVE  Clears(t, past)'
      BY <2>1, <2>2, <3>1, <3>2, MoveRecord DEF Clears, WalkOn, Joined
    <3>3. thread'[t].at = "recheck"
      BY <3>1, MoveRecord
    <3>4. t \notin raced => \E past \in SUBSET Scopes : Clears(t, past)'
      BY <2>1, <3>2 DEF AloneInv, At
    <3> QED BY <2>1, <3>1, <3>3, <3>4, OneAlone DEF Move, At
  <2>3. CASE Goto(t, Idle)
    <3>1. ~InJoin(t)'
      BY <2>3 DEF Goto, TypeOK, InJoin, Idle
    <3> QED BY <2>1, <2>3, <3>1, OneAlone
  <2>4. CASE WalkFinds(t) /\ Move(t, "sever", thread[t].pos)
    <3>1. t \in raced
      BY <2>1, <2>4 DEF AloneInv, Clears, WalkFinds, At
    <3> QED BY <2>1, <2>4, <3>1, OneAlone DEF Move
  <2> QED BY <1>4, <2>2, <2>3, <2>4 DEF Recheck, WalkEnds
<1>5. ASSUME NEW t \in Threads, Sever(t) PROVE AloneInv'
  <2>1. InJoin(t) /\ t \in raced /\ raced' = raced /\ Goto(t, Idle)
    BY <1>5 DEF Sever, InJoin, At, AloneInv
  <2> QED BY <2>1, OneAlone
<1>6. ASSUME NEW t \in Threads, NEW call, ~InJoin(t), Goto(t, call),
             call.at \notin {"check", "set", "recheck", "sever"},
             UNCHANGED <<parent, severed, raced>>
      PROVE  AloneInv'
  <2>1. /\ thread'[t] = call
        /\ \A k \in Threads \ {t} : thread'[k] = thread[k]
    BY <1>6 DEF Goto, TypeOK
  <2>2. ~InJoin(t)'
    BY <1>6, <2>1 DEF InJoin
  <2> QED BY <1>6, <2>1, <2>2, AloneKept
<1>7. ASSUME NEW t \in Threads, Lookup(t) PROVE AloneInv'
  <2>1. ~InJoin(t) /\ UNCHANGED <<parent, severed, raced>>
    BY <1>7 DEF Lookup, InJoin, At
  <2>2. Goto(t, Idle) \/ Goto(t, Looking(parent[thread[t].pos]))
    BY <1>7 DEF Lookup
  <2> QED BY <1>6, <2>1, <2>2 DEF Idle, Looking
<1>8. ASSUME NEW t \in Threads, NEW s \in Scopes, StartLookup(t, s) PROVE AloneInv'
  <2>1. ~InJoin(t) /\ UNCHANGED <<parent, severed, raced>> /\ Goto(t, Looking(s))
    BY <1>8 DEF StartLookup, InJoin, At
  <2> QED BY <1>6, <2>1 DEF Looking
<1>9. ASSUME NEW t \in Threads, NEW s \in Scopes, Install(t, s) PROVE AloneInv'
  BY <1>9, AloneKept DEF Install
<1>10. CASE UNCHANGED vars
  BY <1>10, AloneKept DEF vars
<1> QED BY <1>1, <1>2, <1>3, <1>4, <1>5, <1>7, <1>8, <1>9, <1>10 DEF Next, CallStep

\* A join is told of a cycle it closed, and severed, only when another join
\* overlapped it: on its own, its first walk has seen every cycle (`join`,
\* `ScopeJoinError::Cycle`).
THEOREM LoneJoinsStay == Spec => []OnlyRacesAreSevered
<1>1. Init => TypeOK /\ AloneInv
  BY DEF Init, TypeOK, AloneInv, InJoin, Idle
<1>2. TypeOK /\ AloneInv /\ [Next]_vars => (TypeOK /\ AloneInv)'
  BY NextType, NextAlone
<1>3. AloneInv => OnlyRacesAreSevered
  BY DEF AloneInv, OnlyRacesAreSevered, InJoin, At
<1> QED BY <1>1, <1>2, <1>3, PTL DEF Spec

=============================================================================
