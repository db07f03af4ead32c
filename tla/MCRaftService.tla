----------------------------- MODULE MCRaftService -----------------------------
(***************************************************************************)
(* An instance of RaftService for TLC: two replicas, two nodes that join   *)
(* and leave.                                                              *)
(***************************************************************************)
EXTENDS RaftService

CONSTANTS s1, s2, u1, u2
==============================================================================
