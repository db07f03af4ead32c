------------------------------ MODULE MCStorage ------------------------------
(***************************************************************************)
(* Instances of Storage for TLC: three nodes at most, one key, one or two  *)
(* pieces of which one suffices, and small histories of cluster maps.      *)
(***************************************************************************)
EXTENDS Storage

CONSTANTS a, b, c, k

\* A map whose candidates for every key are the sequence ids.
Ranked(ids) ==
    [members |-> {ids[i] : i \in DOMAIN ids}, ids |-> [x \in Key |-> ids]]

\* The history whose versions 1, 2, ... are the maps of s.
From(s) == [v \in 0..Len(s) |-> IF v = 0 THEN EmptyMap ELSE Ranked(s[v])]

\* The cluster does not change.
StaticHistory == {From(<< <<a, b>> >>)}

\* The first piece moves from a to b, which joins; then a leaves.
MoveHistory == {From(<< <<a>>, <<b, a>>, <<b>> >>)}
JoinHistory == {From(<< <<a>>, <<b, a>> >>)}

\* a leaves and b takes its piece.
LeaveHistory == {From(<< <<a, b>>, <<b>> >>)}
JoinAndLeave == JoinHistory \cup LeaveHistory

\* b, which has stopped, is removed: c takes its piece ...
ReplaceHistory == {From(<< <<a, b, c>>, <<a, c>> >>)}
\* ... or a takes it and passes its own on to c ...
RotateHistory == {From(<< <<b, a, c>>, <<a, c>> >>)}
\* ... or a alone is left.
SurvivorHistory == {From(<< <<a, b>>, <<a>> >>)}

\* b joins and leaves again: its piece returns to a.
ReturnHistory == {From(<< <<a>>, <<a, b>>, <<a>> >>)}

\* One fault of each kind in kinds.
One(kinds) == [x \in FaultKind |-> IF x \in kinds THEN 1 ELSE 0]

NoFaults == {One({})}
NetIoOrReapply == {One({"net"}), One({"io"}), One({"reapply"})}
NetAndIo == {One({"net", "io"})}
NodeFaults == {One({"io", "crash", "restart"}), One({"io", "crash", "reapply"})}
=============================================================================
