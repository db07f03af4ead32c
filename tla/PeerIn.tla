-------------------------------- MODULE PeerIn --------------------------------
(***************************************************************************)
(* The receiver of pieces (sorock-core/src/peer_in.rs, reached through     *)
(* storage_service.rs send_piece).  save_piece holds the read guard of the *)
(* cluster map from the version check to the end: module ClusterIn takes   *)
(* the write guard only when no call is between "put" and its reply.       *)
(***************************************************************************)
EXTENDS NodeState

\* MUTANT: the version check is missing.
AcceptsAnything(c) == TRUE
\* MUTANT: the piece is stored and its key is not queued.
QueueTaskForgotten(n, c) ==
    /\ c.to = n /\ n \in alive /\ c.st = "put"
    /\ calls' = Advance(c, "ok")
    /\ UNCHANGED <<world, maps, store, stabVars, rebuildVars, create, aux>>

\* A piece sent under an older map than this node's is refused.
Accepts(c) == c.version >= view[c.to].peer

Arrived(n, c) == c.to = n /\ n \in alive /\ c.st = "sent"

RejectPiece(n, c) ==
    /\ Arrived(n, c) /\ ~Accepts(c)
    /\ calls' = Advance(c, "rejected")
    /\ UNCHANGED <<world, maps, store, stabVars, rebuildVars, create, aux>>

\* put_piece
PutPiece(n, c) ==
    /\ Arrived(n, c) /\ Accepts(c) /\ c.data
    /\ store' = [store EXCEPT ![n] = @ \cup {c.loc}]
    /\ written' = written \cup {c.loc}
    /\ calls' = MarkReput(Advance(c, "put"), n, c.loc)
    /\ UNCHANGED <<world, maps, stabVars, rebuildVars, create, exposed>>

PutFails(n, c) ==
    /\ Arrived(n, c) /\ Accepts(c) /\ c.data
    /\ MayFail("io") /\ Spend("io")
    /\ calls' = Advance(c, "failed")
    /\ UNCHANGED <<history, alive, maps, store, stabVars, rebuildVars, create,
                   aux>>

\* stabilizer.queue_task, then the reply
QueueTask(n, c) ==
    /\ c.to = n /\ n \in alive /\ c.st = "put"
    /\ stabQ' = [stabQ EXCEPT ![n] = @ \cup {c.loc.key}]
    /\ calls' = Advance(c, "ok")
    /\ UNCHANGED <<world, maps, store, flush, rebuildVars, create, aux>>

\* MUTANT: a request to rebuild is acknowledged and forgotten.
RebuildRequestForgotten(n, c) ==
    /\ Arrived(n, c) /\ Accepts(c) /\ ~c.data
    /\ calls' = Advance(c, "ok")
    /\ UNCHANGED <<world, maps, store, stabVars, rebuildVars, create, aux>>

\* A message without data asks the receiver to rebuild the piece.
QueueRebuild(n, c) ==
    /\ Arrived(n, c) /\ Accepts(c) /\ ~c.data
    /\ rebuildQ' = [rebuildQ EXCEPT ![n] = @ \cup {c.loc}]
    /\ calls' = Advance(c, "ok")
    /\ UNCHANGED <<world, maps, store, stabVars, rflush, rebuilds, create, aux>>

PeerInNext(n) ==
    \/ \E c \in calls : RejectPiece(n, c)
    \/ \E c \in calls : PutPiece(n, c)
    \/ \E c \in calls : QueueTask(n, c)
    \/ \E c \in calls : QueueRebuild(n, c)

PeerInFault(n) == \E c \in calls : PutFails(n, c)

==============================================================================
