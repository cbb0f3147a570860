--------------------------- MODULE ResourceScope ---------------------------
(***************************************************************************)
(* Resource scopes (`ResourceScope`, resource.rs): every program tree has  *)
(* one, a scope joins at most one parent, and a lookup that finds no       *)
(* accessor in a scope goes on to the parent it joined.                    *)
(*                                                                         *)
(* No lock is taken: a join is a walk of the parents, a `OnceLock` set, a  *)
(* second walk, and a store that severs the link if the second walk finds  *)
(* a cycle.  One action is one of those accesses to shared memory; threads *)
(* join, install and look up at any time.                                  *)
(***************************************************************************)
EXTENDS Naturals

CONSTANTS
    Scopes,       \* the scopes
    Threads,      \* the threads that call them
    NoScope,      \* the parent of a scope that joined none
    Lookups       \* whether the threads look up as well as join

ASSUME NoScopeAssumption == NoScope \notin Scopes
ASSUME LookupsAssumption == Lookups \in BOOLEAN

VARIABLES
    parent,       \* parent[s]: the parent s joined (`Slot::parent`), once set
    severed,      \* the scopes whose link is not `live`
    installed,    \* the scopes with an accessor of their own
    thread,       \* thread[t]: the call t is in
    raced         \* history: the threads whose join overlapped another call

vars == <<parent, severed, installed, thread, raced>>

Idle == [at |-> "idle"]
Joining(at, s, p, pos) == [at |-> at, scope |-> s, to |-> p, pos |-> pos]
Looking(pos) == [at |-> "lookup", pos |-> pos]
At(t, stage) == thread[t].at = stage
Goto(t, call) == thread' = [thread EXCEPT ![t] = call]
Move(t, at, pos) == Goto(t, Joining(at, thread[t].scope, thread[t].to, pos))

InJoin(t) == thread[t].at \in {"check", "set", "recheck", "sever"}

\* `parent()`: the link is set and live.
Joined(s) == parent[s] # NoScope /\ s \notin severed

Init ==
    /\ parent = [s \in Scopes |-> NoScope]
    /\ severed = {}
    /\ installed = {}
    /\ thread = [t \in Threads |-> Idle]
    /\ raced = {}

-----------------------------------------------------------------------------
(* `join`.                                                                 *)

\* A call of t begins or goes on while other joins are in progress.
Overlap(t) ==
    raced' = LET others == {u \in Threads \ {t} : InJoin(u)}
             IN IF others = {} THEN raced \ {t} ELSE raced \cup others \cup {t}

\* A scope with an accessor of its own keeps it and joins nothing.
StartJoin(t, s, p) ==
    /\ At(t, "idle") /\ s \notin installed
    /\ Goto(t, Joining("check", s, p, p))
    /\ Overlap(t)
    /\ UNCHANGED <<parent, severed, installed>>

\* One step of `parent.reaches(self)` from the scope the walk is at.
WalkOn(t, stage) ==
    /\ Joined(thread[t].pos) /\ thread[t].pos # thread[t].scope
    /\ Move(t, stage, parent[thread[t].pos])

WalkFinds(t) == thread[t].pos = thread[t].scope
WalkEnds(t) == ~WalkFinds(t) /\ ~Joined(thread[t].pos)

\* Mutant of Check: only the parent itself is compared, not what it resolves through.
CheckParentAlone(t) ==
    /\ At(t, "check")
    /\ \/ ~WalkFinds(t) /\ Move(t, "set", thread[t].pos)
       \/ WalkFinds(t) /\ Goto(t, Idle)
    /\ UNCHANGED <<parent, severed, installed, raced>>

\* The walk before the join: a parent that resolves through the scope already
\* ends it.
Check(t) ==
    /\ At(t, "check")
    /\ \/ WalkOn(t, "check")
       \/ WalkEnds(t) /\ Move(t, "set", thread[t].pos)
       \/ WalkFinds(t) /\ Goto(t, Idle)
    /\ UNCHANGED <<parent, severed, installed, raced>>

\* `OnceLock::set`: the first join of a scope wins.
SetLink(t) ==
    LET s == thread[t].scope IN
    /\ At(t, "set")
    /\ IF parent[s] = NoScope
         THEN /\ parent' = [parent EXCEPT ![s] = thread[t].to]
              /\ Move(t, "recheck", thread[t].to)
         ELSE Goto(t, Idle) /\ UNCHANGED parent
    /\ UNCHANGED <<severed, installed, raced>>

\* Mutant of Recheck: a cycle the second walk finds is left in place.
RecheckInVain(t) ==
    /\ At(t, "recheck")
    /\ \/ WalkOn(t, "recheck")
       \/ WalkEnds(t) /\ Goto(t, Idle)
       \/ WalkFinds(t) /\ Goto(t, Idle)
    /\ UNCHANGED <<parent, severed, installed, raced>>

\* The walk after it: a concurrent join may have closed a cycle.
Recheck(t) ==
    /\ At(t, "recheck")
    /\ \/ WalkOn(t, "recheck")
       \/ WalkEnds(t) /\ Goto(t, Idle)
       \/ WalkFinds(t) /\ Move(t, "sever", thread[t].pos)
    /\ UNCHANGED <<parent, severed, installed, raced>>

\* Mutant of Sever: the error is returned and the link stays live.
SeverInName(t) ==
    /\ At(t, "sever")
    /\ Goto(t, Idle)
    /\ UNCHANGED <<parent, severed, installed, raced>>

Sever(t) ==
    /\ At(t, "sever")
    /\ severed' = severed \cup {thread[t].scope}
    /\ Goto(t, Idle)
    /\ UNCHANGED <<parent, installed, raced>>

-----------------------------------------------------------------------------
(* `install` and `lookup`.                                                 *)

\* One accessor for the life of a scope.
Install(t, s) ==
    /\ At(t, "idle")
    /\ installed' = installed \cup {s}
    /\ UNCHANGED <<parent, severed, thread, raced>>

StartLookup(t, s) ==
    /\ Lookups /\ At(t, "idle")
    /\ Goto(t, Looking(s))
    /\ UNCHANGED <<parent, severed, installed, raced>>

\* The accessor of the scope the lookup is at answers it, or its parent does.
Lookup(t) ==
    /\ At(t, "lookup")
    /\ IF thread[t].pos \notin installed /\ Joined(thread[t].pos)
         THEN Goto(t, Looking(parent[thread[t].pos]))
         ELSE Goto(t, Idle)
    /\ UNCHANGED <<parent, severed, installed, raced>>

CallStep(t) == Check(t) \/ SetLink(t) \/ Recheck(t) \/ Sever(t) \/ Lookup(t)

Next ==
    \E t \in Threads :
        \/ CallStep(t)
        \/ \E s \in Scopes : Install(t, s) \/ StartLookup(t, s)
        \/ \E s, p \in Scopes : StartJoin(t, s, p)

Spec == Init /\ [][Next]_vars

\* A thread in a call keeps running.
FairSpec == Spec /\ \A t \in Threads : WF_vars(CallStep(t))

-----------------------------------------------------------------------------

\* The type invariant.
TypeOK ==
    /\ parent \in [Scopes -> Scopes \cup {NoScope}]
    /\ severed \subseteq Scopes /\ installed \subseteq Scopes
    /\ thread \in [Threads ->
         {Idle} \cup [at : {"lookup"}, pos : Scopes]
         \cup [at : {"check", "set", "recheck", "sever"}, scope : Scopes, to : Scopes,
               pos : Scopes]]
    /\ raced \subseteq Threads

\* A set of scopes each of which is joined to one of the set: what a cycle is,
\* and what holds every walk that enters it.
Closed(ring) == ring # {} /\ \A s \in ring : Joined(s) /\ parent[s] \in ring

\* `join`, "severing it keeps every scope's chain acyclic": a cycle exists only
\* while the join that closed it is still in progress.
CyclesAreBeingSevered ==
    \A ring \in SUBSET Scopes :
        Closed(ring) =>
            \E t \in Threads : thread[t].at \in {"recheck", "sever"} /\ thread[t].scope \in ring

\* `ScopeJoinError::Cycle`: a join is severed only when it raced another.
OnlyRacesAreSevered == \A t \in Threads : At(t, "sever") => t \in raced

\* `lookup` never blocks, and neither does `join`: no call walks forever, not
\* even one that enters a cycle while it lasts.
CallsReturn == \A t \in Threads : ~At(t, "idle") ~> At(t, "idle")

=============================================================================
