--------------------------- MODULE MCAPIBindings ---------------------------
EXTENDS APIBindings, TLC

CONSTANTS a, b, s1

MCSchemaOf == [x \in Bindings |-> s1]

Budget(f) == f @@ [e \in Events |-> 0]

Start(o, f) == [owner |-> o, budget |-> Budget(f)]

\* A binding hands over to another, and both may go; its name is used again; a
\* bound CRD grows old; a first binding is deleted; bindings and the workspace's
\* own CRD; two bindings at once and a restart.
MCStarts ==
    {Start(a, [create |-> 1, delete |-> 2, instance |-> 1]),
     Start(b, [create |-> 2, delete |-> 1, instance |-> 1]),
     Start(b, [create |-> 1, delete |-> 1, age |-> 1]),
     Start("none", [create |-> 1, delete |-> 1]),
     Start("none", [create |-> 1, age |-> 1]),
     Start("none", [create |-> 1, crd |-> 1, deleteCRD |-> 1]),
     Start("none", [create |-> 2, restart |-> 1])}
============================================================================
