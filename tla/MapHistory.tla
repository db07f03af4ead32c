------------------------------ MODULE MapHistory ------------------------------
(***************************************************************************)
(* What the storage nodes may rely on: one history of cluster maps, to     *)
(* which a map is added at a time, its version one higher than the last;   *)
(* every node runs one of them, and while it runs it is only told maps     *)
(* that are not older than its own.  Module RaftService implements this,   *)
(* and module Storage builds on it (`history', BeginInstall and Reapply).  *)
(***************************************************************************)
EXTENDS Naturals

CONSTANTS
    Server,    \* the nodes
    FirstMap   \* the map of version 0, of no members

VARIABLES
    maps,    \* maps[v]: the map of version v
    told     \* told[s]: the map server s was told last

vars == <<maps, told>>

Init ==
    /\ maps = [v \in {0} |-> FirstMap]
    /\ told = [s \in Server |-> FirstMap]

Last(m) == CHOOSE v \in DOMAIN m : v + 1 \notin DOMAIN m

Extend ==
    /\ DOMAIN maps' = DOMAIN maps \cup {Last(maps) + 1}
    /\ \A v \in DOMAIN maps : maps'[v] = maps[v]
    /\ maps'[Last(maps) + 1].version = Last(maps) + 1
    /\ UNCHANGED told

Tell(s) ==
    /\ \E v \in DOMAIN maps :
          /\ v >= told[s].version
          /\ told' = [told EXCEPT ![s] = maps[v]]
    /\ UNCHANGED maps

Restart(s) ==
    /\ told' = [told EXCEPT ![s] = FirstMap]
    /\ UNCHANGED maps

Next == Extend \/ \E s \in Server : Tell(s) \/ Restart(s)

Spec == Init /\ [][Next]_vars
==============================================================================
