----------------------------- MODULE RebuildQueue -----------------------------
(***************************************************************************)
(* The rebuilder of missing pieces (sorock-core/src/rebuild_queue.rs and   *)
(* rebuild.rs).  flush_queue is called by the tick alone.  Each ExecRebuild *)
(* looks for the piece in the local store, then asks the N holders for any *)
(* pieces of the key, then, having fewer than K, starts over with every    *)
(* member; K different pieces give all N.  A reply is handled when it is   *)
(* made: replies of different nodes only add up, so their delay changes    *)
(* nothing but the moment the K-th piece is known.                         *)
(***************************************************************************)
EXTENDS NodeState

RebuildStatus == {"check", "scan", "bcast", "store", "queue"}
Ask == Index \X Node
Rebuild == [node : Node, loc : Loc, version : Version, st : RebuildStatus,
            wait : SUBSET Ask, found : SUBSET Index]

RebuildsOf(n) == {r \in rebuilds : r.node = n}
Become(r, new) == rebuilds' = (rebuilds \ {r}) \cup {new}
Gone(r) == rebuilds' = rebuilds \ {r}

DrainRebuilds(n) ==
    /\ n \in alive /\ rflush[n].pc = "idle" /\ rebuildQ[n] # {}
    /\ rflush' = [rflush EXCEPT ![n] =
                     [pc |-> "drained", todo |-> rebuildQ[n], failed |-> {}]]
    /\ rebuildQ' = [rebuildQ EXCEPT ![n] = {}]
    /\ UNCHANGED <<world, maps, store, stabVars, calls, rebuilds, create, aux>>

ReadRebuildCluster(n) ==
    /\ n \in alive /\ rflush[n].pc = "drained"
    /\ rebuilds' = rebuilds \cup
          {[node |-> n, loc |-> l, version |-> view[n].rebuild, st |-> "check",
            wait |-> {}, found |-> {}] : l \in rflush[n].todo}
    /\ rflush' = [rflush EXCEPT ![n].pc = "run", ![n].todo = {}]
    /\ UNCHANGED <<world, maps, store, stabVars, calls, rebuildQ, create, aux>>

Runs(n, r) == r.node = n /\ n \in alive

\* The N requests of the scan for key k under map v; an index without holder
\* fails at once.
ScanAsks(v, k) ==
    {<<i, HolderAt(v, [key |-> k, index |-> i])>> :
        i \in {i \in Index : HolderAt(v, [key |-> k, index |-> i]) # NoNode}}

PieceExists(n, r) ==
    /\ Runs(n, r) /\ r.st = "check"
    /\ IF r.loc \in store[n] THEN Gone(r)
       ELSE Become(r, [r EXCEPT !.st = "scan",
                                !.wait = ScanAsks(r.version, r.loc.key)])
    /\ UNCHANGED <<world, maps, store, stabVars, calls, rebuildQ, rflush,
                   create, aux>>

\* request_any_pieces: what node m holds of key k
PiecesAt(m, k) == {l.index : l \in {l \in store[m] : l.key = k}}

\* A reply adds its pieces; with K of them the others are not waited for.
AnyPieces(n, r) ==
    /\ Runs(n, r)
    /\ \E a \in r.wait :
          LET found == r.found \cup PiecesAt(a[2], r.loc.key)
          IN  /\ a[2] \in alive
              /\ IF Cardinality(found) >= K
                 THEN Become(r, [r EXCEPT !.st = "store", !.wait = {},
                                          !.found = {}])
                 ELSE Become(r, [r EXCEPT !.wait = @ \ {a}, !.found = found])
    /\ UNCHANGED <<world, maps, store, stabVars, calls, rebuildQ, rflush,
                   create, aux>>

\* A request to a dead node fails, or runs into its timeout.
NoReply(n, r) ==
    /\ Runs(n, r)
    /\ \E a \in r.wait :
          /\ a[2] \notin alive
          /\ Become(r, [r EXCEPT !.wait = @ \ {a}])
    /\ UNCHANGED <<world, maps, store, stabVars, calls, rebuildQ, rflush,
                   create, aux>>

AskLost(n, r) ==
    /\ Runs(n, r)
    /\ MayFail("net") /\ Spend("net")
    /\ \E a \in r.wait : Become(r, [r EXCEPT !.wait = @ \ {a}])
    /\ UNCHANGED <<history, alive, maps, store, stabVars, calls, rebuildQ,
                   rflush, create, aux>>

\* The scan did not find K pieces: ask every member, from nothing.
Broadcast(n, r) ==
    /\ Runs(n, r) /\ r.st = "scan" /\ r.wait = {}
    /\ Become(r, [r EXCEPT !.st = "bcast", !.found = {},
                           !.wait = {0} \X Map(r.version).members])
    /\ UNCHANGED <<world, maps, store, stabVars, calls, rebuildQ, rflush,
                   create, aux>>

\* Nor did the broadcast ("data is lost"): the task is failed.
RebuildFails(n, r) ==
    /\ Runs(n, r) /\ r.st = "bcast" /\ r.wait = {}
    /\ Gone(r)
    /\ rflush' = [rflush EXCEPT ![n].failed = @ \cup {r.loc}]
    /\ UNCHANGED <<world, maps, store, stabVars, calls, rebuildQ, create, aux>>

\* put_piece of the rebuilt piece
StoreRebuilt(n, r) ==
    /\ Runs(n, r) /\ r.st = "store"
    /\ Become(r, [r EXCEPT !.st = "queue"])
    /\ store' = [store EXCEPT ![n] = @ \cup {r.loc}]
    /\ written' = written \cup {r.loc}
    /\ calls' = MarkReput(calls, n, r.loc)
    /\ UNCHANGED <<world, maps, stabVars, rebuildQ, rflush, create, exposed>>

\* piece_exists or put_piece fails
RebuildIoFails(n, r) ==
    /\ Runs(n, r) /\ r.st \in {"check", "store"}
    /\ MayFail("io") /\ Spend("io")
    /\ Gone(r)
    /\ rflush' = [rflush EXCEPT ![n].failed = @ \cup {r.loc}]
    /\ UNCHANGED <<history, alive, maps, store, stabVars, calls, rebuildQ,
                   create, aux>>

\* stabilizer.queue_task of the rebuilt key
QueueRebuilt(n, r) ==
    /\ Runs(n, r) /\ r.st = "queue"
    /\ Gone(r)
    /\ stabQ' = [stabQ EXCEPT ![n] = @ \cup {r.loc.key}]
    /\ UNCHANGED <<world, maps, store, flush, calls, rebuildQ, rflush, create,
                   aux>>

\* MUTANT: the failed tasks are not queued again.
RebuildFlushForgets(n) ==
    /\ n \in alive /\ rflush[n].pc = "run" /\ RebuildsOf(n) = {}
    /\ rflush' = [rflush EXCEPT ![n] = IdleFlush]
    /\ UNCHANGED <<world, maps, store, stabVars, calls, rebuildQ, rebuilds,
                   create, aux>>

RebuildFlushEnds(n) ==
    /\ n \in alive /\ rflush[n].pc = "run" /\ RebuildsOf(n) = {}
    /\ rebuildQ' = [rebuildQ EXCEPT ![n] = @ \cup rflush[n].failed]
    /\ rflush' = [rflush EXCEPT ![n] = IdleFlush]
    /\ UNCHANGED <<world, maps, store, stabVars, calls, rebuilds, create, aux>>

RebuildQueueNext(n) ==
    \/ DrainRebuilds(n)
    \/ ReadRebuildCluster(n)
    \/ \E r \in rebuilds : PieceExists(n, r)
    \/ \E r \in rebuilds : AnyPieces(n, r)
    \/ \E r \in rebuilds : NoReply(n, r)
    \/ \E r \in rebuilds : Broadcast(n, r)
    \/ \E r \in rebuilds : RebuildFails(n, r)
    \/ \E r \in rebuilds : StoreRebuilt(n, r)
    \/ \E r \in rebuilds : QueueRebuilt(n, r)
    \/ RebuildFlushEnds(n)

RebuildQueueFault(n) ==
    \/ \E r \in rebuilds : AskLost(n, r)
    \/ \E r \in rebuilds : RebuildIoFails(n, r)

==============================================================================
