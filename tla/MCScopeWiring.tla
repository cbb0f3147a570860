--------------------------- MODULE MCScopeWiring ---------------------------
(***************************************************************************)
(* Instances of ScopeWiring: a root, a phase under it, two operations of   *)
(* one name under the phase, and a scope under the first of them.          *)
(***************************************************************************)
EXTENDS ScopeWiring

CONSTANTS root, phase1, op1, op2, inner

TheParent == [s \in {phase1, op1, op2, inner} |->
                IF s = phase1 THEN root ELSE IF s = inner THEN op1 ELSE phase1]
TheAbove == LET above[s \in Scopes] ==
                  IF s = root THEN {} ELSE {TheParent[s]} \cup above[TheParent[s]]
            IN above
TheName == [s \in {phase1, op1, op2, inner} |-> IF s \in {op1, op2} THEN "op" ELSE "scope"]

Declarations(r, p, o, q, i) ==
    {[s \in Scopes |-> IF s = root THEN x[1] ELSE IF s = phase1 THEN x[2]
                       ELSE IF s = op1 THEN x[3] ELSE IF s = op2 THEN x[4] ELSE x[5]] :
       x \in r \X p \X o \X q \X i}

ComputedMatters ==
    Declarations({"computed"}, {"extern", "absent"}, {"extern"}, {"export"}, {"extern"})

\* An export under a scope subscribed to a computed output is left to
\* ComputedMatters.
AllMatters ==
    {m \in Declarations({"shared", "const", "computed", "absent"},
                      {"extern", "absent", "const", "export"},
                      {"extern", "shadow", "absent"}, {"extern", "export"}, {"extern"}) :
       ~(m[root] = "computed" /\ m[phase1] = "extern" /\ m[op2] = "export")}

SharedMatters ==
    Declarations({"shared"}, {"extern", "absent"}, {"shadow"}, {"extern"}, {"extern"})

=============================================================================
