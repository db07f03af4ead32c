------------------------------- MODULE ClusterIn -------------------------------
(***************************************************************************)
(* The fan-out of a new cluster map inside a node                          *)
(* (sorock-core/src/cluster_in.rs and the set_new_cluster handlers it      *)
(* calls).  Raft (raft_service.rs, module RaftService) delivers maps in    *)
(* increasing versions, one at a time: by applying the next command, or by *)
(* a snapshot that skips some.  The first step of the fan-out, telling the *)
(* failure detector the members (cluster_in.rs:41-44), touches nothing of  *)
(* this state; it is Learn in FailureDetector.                             *)
(***************************************************************************)
EXTENDS NodeState

\* MUTANT: the stabilizer learns the new map before the receiver of pieces.
FanOutStabilizerFirst == <<"io", "stab", "peer", "rebuild">>

\* The order in which the services are told.
FanOut == <<"io", "peer", "rebuild", "stab">>

\* process_write or install_snapshot calls set_new_cluster with a newer map.
BeginInstall(n, v) ==
    /\ n \in alive /\ install[n].pc = "idle" /\ v > install[n].version
    /\ install' = [install EXCEPT ![n] =
                      [pc |-> FanOut[1], version |-> v, keys |-> {}]]
    /\ UNCHANGED <<world, view, store, stabVars, calls, rebuildVars, create,
                   aux>>

\* A command that changes nothing (a node added twice) broadcasts the same
\* map again.
Reapply(n) ==
    /\ n \in alive /\ install[n].pc = "idle" /\ install[n].version > 0
    /\ MayFail("reapply") /\ Spend("reapply")
    /\ install' = [install EXCEPT ![n].pc = FanOut[1]]
    /\ UNCHANGED <<history, alive, view, store, stabVars, calls, rebuildVars,
                   create, aux>>

\* MUTANT: the receiver's map is replaced while a piece is being saved.
NoLock(n, s) == TRUE

\* peer_in's set_new_cluster waits for the read guards of save_piece.
LockFree(n, s) ==
    s = "peer" => \A c \in calls : c.to = n => c.st # "put"

\* The i-th set_new_cluster call of the fan-out.
SetNewCluster(n, i) ==
    /\ n \in alive /\ install[n].pc = FanOut[i]
    /\ LockFree(n, FanOut[i])
    /\ view' = [view EXCEPT ![n][FanOut[i]] = install[n].version]
    /\ install' = [install EXCEPT ![n].pc =
                      IF i < Len(FanOut) THEN FanOut[i + 1] ELSE "keys"]
    /\ UNCHANGED <<world, store, stabVars, calls, rebuildVars, create, aux>>

\* The stabilizer asks its piece store for the keys it holds pieces of ...
ReadKeys(n) ==
    /\ n \in alive /\ install[n].pc = "keys"
    /\ install' = [install EXCEPT ![n].pc = "reset",
                                  ![n].keys = {l.key : l \in store[n]}]
    /\ UNCHANGED <<world, view, store, stabVars, calls, rebuildVars, create,
                   aux>>

\* ... the error leaves process_write, and Raft applies the command again.
KeysFails(n) ==
    /\ n \in alive /\ install[n].pc = "keys"
    /\ MayFail("io") /\ Spend("io")
    /\ install' = [install EXCEPT ![n].pc = FanOut[1]]
    /\ UNCHANGED <<history, alive, view, store, stabVars, calls, rebuildVars,
                   create, aux>>

\* MUTANT: the queue is left as it is.
QueueNotReset(n) ==
    /\ n \in alive /\ install[n].pc = "reset"
    /\ install' = [install EXCEPT ![n].pc = "flush", ![n].keys = {}]
    /\ UNCHANGED <<world, view, store, stabVars, calls, rebuildVars, create, aux>>

\* ... and overwrites its queue with them; the flush comes next.
ResetQueue(n) ==
    /\ n \in alive /\ install[n].pc = "reset"
    /\ stabQ' = [stabQ EXCEPT ![n] = install[n].keys]
    /\ install' = [install EXCEPT ![n].pc = "flush", ![n].keys = {}]
    /\ UNCHANGED <<world, view, store, flush, calls, rebuildVars, create, aux>>

ClusterInNext(n) ==
    \/ \E v \in Version : BeginInstall(n, v)
    \/ \E i \in 1..Len(FanOut) : SetNewCluster(n, i)
    \/ ReadKeys(n)
    \/ ResetQueue(n)

ClusterInFault(n) == Reapply(n) \/ KeysFails(n)

==============================================================================
