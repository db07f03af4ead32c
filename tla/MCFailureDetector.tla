--------------------------- MODULE MCFailureDetector ---------------------------
(***************************************************************************)
(* An instance of FailureDetector for TLC: three nodes, two of which watch *)
(* the others.                                                             *)
(***************************************************************************)
EXTENDS FailureDetector

CONSTANTS n1, n2, n3

Only(faults) == [f \in Fault |-> IF f \in DOMAIN faults THEN faults[f] ELSE 0]

\* A live node suspected (and joining again), a node lost with a ping, with a
\* removal that fails, with a start that makes it join again, two nodes lost.
MCBudgets ==
    {Only([loss |-> 3, join |-> 1]),
     Only([loss |-> 1, crash |-> 1]),
     Only([error |-> 1, crash |-> 1]),
     Only([crash |-> 1, start |-> 1, join |-> 1]),
     Only([crash |-> 2])}
==============================================================================
