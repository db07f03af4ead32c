----------------------------- MODULE ClusterMap -----------------------------
(***************************************************************************)
(* Cluster maps (sorock-core/src/cluster_map.rs): a version, the members   *)
(* and, for every key, the N nodes that hold the N erasure-coded pieces of *)
(* that key.  The ASURA hash that ranks the nodes for a key is a library:  *)
(* a map carries its answer, ids[key], the sequence of distinct nodes      *)
(* calc_candidates returns.  The version of a map is its index in          *)
(* `history' (module NodeState), because equal versions mean equal maps    *)
(* (theorem VersionNamesMap of module RaftServiceProofs).                  *)
(***************************************************************************)
EXTENDS Integers, Sequences, FiniteSets

CONSTANTS
    Node,    \* storage nodes (their URIs)
    Key,     \* object keys
    N,       \* pieces of an object (data + parity)
    K,       \* pieces that suffice to rebuild it
    NoNode   \* the None of an Option<Uri>

ASSUME SizeAssumption == N \in Nat \ {0} /\ K \in 1..N
ASSUME NoNodeAssumption == NoNode \notin Node

Index == 0..N-1

\* PieceLocator
Loc == [key : Key, index : Index]
LocsOf(k) == {l \in Loc : l.key = k}

IsClusterMap(m) ==
    /\ m.members \in SUBSET Node
    /\ m.ids \in [Key -> Seq(Node)]
    /\ \A k \in Key : \A i \in 1..Len(m.ids[k]) : m.ids[k][i] \in m.members

\* ClusterMap::new, the map of version 0
EmptyMap == [members |-> {}, ids |-> [k \in Key |-> << >>]]

\* Element `index' of compute_holders: candidates wrap around, and an empty
\* cluster gives None for every index.
Holder(m, l) ==
    LET ids == m.ids[l.key]
    IN  IF ids = << >> THEN NoNode ELSE ids[(l.index % Len(ids)) + 1]

=============================================================================
