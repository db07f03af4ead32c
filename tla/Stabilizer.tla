------------------------------ MODULE Stabilizer ------------------------------
(***************************************************************************)
(* The mover of pieces (sorock-core/src/stabilizer.rs).  flush_queue runs  *)
(* for the periodic tick and, awaited by ClusterIn, after a cluster        *)
(* change; the two may overlap.  For every queued key and every piece of   *)
(* it that another node must hold, one future reads the local store, sends *)
(* the piece (or an empty message if it has none) and deletes its copy     *)
(* once the receiver has acknowledged it.                                  *)
(***************************************************************************)
EXTENDS NodeState

\* MUTANT: pieces this node must hold are sent to itself.
TasksToSelf(n, f, v, ks) ==
    {[from |-> n, by |-> f, to |-> HolderAt(v, l), loc |-> l, version |-> v,
      data |-> FALSE, st |-> "get", reput |-> FALSE] :
        l \in {l \in Loc : l.key \in ks /\ HolderAt(v, l) # NoNode}}

\* MUTANT: the None of an empty cluster is taken for a node.
TasksUnwrapped(n, f, v, ks) ==
    {[from |-> n, by |-> f, to |-> HolderAt(v, l), loc |-> l, version |-> v,
      data |-> FALSE, st |-> "get", reput |-> FALSE] :
        l \in {l \in Loc : l.key \in ks /\ HolderAt(v, l) # n}}

\* exec(key) for the keys ks under map v: what another node must hold.
Tasks(n, f, v, ks) ==
    {[from |-> n, by |-> f, to |-> HolderAt(v, l), loc |-> l, version |-> v,
      data |-> FALSE, st |-> "get", reput |-> FALSE] :
        l \in {l \in Loc : l.key \in ks /\ HolderAt(v, l) \notin {NoNode, n}}}

\* The queue is drained first, the map is read after.  Flushing an empty
\* queue does nothing; the flush after a cluster change is kept anyway, as
\* ClusterIn waits for it.
Drain(n, f) ==
    /\ n \in alive /\ flush[n][f].pc = "idle"
    /\ \/ f = "tick" /\ stabQ[n] # {} /\ UNCHANGED install
       \/ /\ f = "cluster" /\ install[n].pc = "flush"
          /\ install' = [install EXCEPT ![n].pc = "wait"]
    /\ flush' = [flush EXCEPT ![n][f] =
                    [pc |-> "drained", todo |-> stabQ[n], failed |-> {}]]
    /\ stabQ' = [stabQ EXCEPT ![n] = {}]
    /\ UNCHANGED <<world, view, store, calls, rebuildVars, create, aux>>

ReadCluster(n, f) ==
    /\ n \in alive /\ flush[n][f].pc = "drained"
    /\ calls' = calls \cup Tasks(n, f, view[n].stab, flush[n][f].todo)
    /\ flush' = [flush EXCEPT ![n][f].pc = "run", ![n][f].todo = {}]
    /\ UNCHANGED <<world, maps, store, stabQ, rebuildVars, create, aux>>

\* A future of a running flush of n.
Mine(n, c) == c.from = n /\ n \in alive /\ c.by \in Flusher

GetPiece(n, c) ==
    /\ Mine(n, c) /\ c.st = "get"
    /\ calls' = (calls \ {c}) \cup
                {[c EXCEPT !.st = "sent", !.data = (c.loc \in store[n])]}
    /\ UNCHANGED <<world, maps, store, stabVars, rebuildVars, create, aux>>

\* MUTANT: the piece is deleted whatever the receiver answered.
DeletesUnacknowledged(n, c) ==
    /\ Mine(n, c) /\ c.st \in {"sent", "ok"}
    /\ calls' = Abandon({c})
    /\ store' = IF c.data THEN [store EXCEPT ![n] = @ \ {c.loc}] ELSE store
    /\ exposed' = IF c.data /\ c.reput THEN exposed \cup {c.loc} ELSE exposed
    /\ UNCHANGED <<world, maps, stabVars, rebuildVars, create, written>>

\* The receiver acknowledged: the local copy of a moved piece is deleted.
DeletePiece(n, c) ==
    /\ Mine(n, c) /\ c.st = "ok"
    /\ calls' = calls \ {c}
    /\ store' = IF c.data THEN [store EXCEPT ![n] = @ \ {c.loc}] ELSE store
    /\ exposed' = IF c.data /\ c.reput THEN exposed \cup {c.loc} ELSE exposed
    /\ UNCHANGED <<world, maps, stabVars, rebuildVars, create, written>>

\* delete_piece(..).ok(): a failed deletion counts as success.
DeleteFails(n, c) ==
    /\ Mine(n, c) /\ c.st = "ok" /\ c.data
    /\ MayFail("io") /\ Spend("io")
    /\ calls' = calls \ {c}
    /\ UNCHANGED <<history, alive, maps, store, stabVars, rebuildVars, create,
                   aux>>

\* The first failed future ends exec(key), its siblings are dropped and the
\* key is tried again at the next flush.
FailKey(n, c) ==
    /\ calls' = Abandon({d \in CallsOf(n, c.by) : d.loc.key = c.loc.key})
    /\ flush' = [flush EXCEPT ![n][c.by].failed = @ \cup {c.loc.key}]
    /\ UNCHANGED <<history, alive, maps, store, stabQ, rebuildVars, create, aux>>

GetFails(n, c) ==
    /\ Mine(n, c) /\ c.st = "get"
    /\ MayFail("io") /\ Spend("io")
    /\ FailKey(n, c)

SendFailed(n, c) ==
    /\ Mine(n, c)
    /\ \/ c.st = "failed"
       \/ c.st \in {"sent", "put", "ok"} /\ c.to \notin alive
    /\ FailKey(n, c)
    /\ UNCHANGED budget

\* A request or its reply is lost although the receiver is alive.
SendLost(n, c) ==
    /\ Mine(n, c) /\ c.st \in {"sent", "put", "ok"}
    /\ MayFail("net") /\ Spend("net")
    /\ FailKey(n, c)

\* ClusterIn's set_new_cluster returns when the flush it awaits returns.
Returns(n, f) ==
    install' = IF f = "cluster" THEN [install EXCEPT ![n].pc = "idle"]
                                ELSE install

\* One refused piece ends the whole flush; the drained keys are dropped.
SendRejected(n, c) ==
    /\ Mine(n, c) /\ c.st = "rejected"
    /\ calls' = Abandon(CallsOf(n, c.by))
    /\ flush' = [flush EXCEPT ![n][c.by] = IdleFlush]
    /\ Returns(n, c.by)
    /\ UNCHANGED <<world, view, store, stabQ, rebuildVars, create, aux>>

\* MUTANT: the failed keys are not queued again.
FlushForgetsFailed(n, f) ==
    /\ n \in alive /\ flush[n][f].pc = "run" /\ CallsOf(n, f) = {}
    /\ flush' = [flush EXCEPT ![n][f] = IdleFlush]
    /\ Returns(n, f)
    /\ UNCHANGED <<world, view, store, stabQ, calls, rebuildVars, create, aux>>

FlushEnds(n, f) ==
    /\ n \in alive /\ flush[n][f].pc = "run" /\ CallsOf(n, f) = {}
    /\ stabQ' = [stabQ EXCEPT ![n] = @ \cup flush[n][f].failed]
    /\ flush' = [flush EXCEPT ![n][f] = IdleFlush]
    /\ Returns(n, f)
    /\ UNCHANGED <<world, view, store, calls, rebuildVars, create, aux>>

\* The steps of the flush of n that f called.
FlushNext(n, f) ==
    \/ Drain(n, f)
    \/ ReadCluster(n, f)
    \/ \E c \in CallsOf(n, f) : GetPiece(n, c)
    \/ \E c \in CallsOf(n, f) : DeletePiece(n, c)
    \/ \E c \in CallsOf(n, f) : SendFailed(n, c)
    \/ \E c \in CallsOf(n, f) : SendRejected(n, c)
    \/ FlushEnds(n, f)

StabilizerNext(n) == \E f \in Flusher : FlushNext(n, f)

StabilizerFault(n) ==
    \/ \E c \in calls : GetFails(n, c)
    \/ \E c \in calls : DeleteFails(n, c)
    \/ \E c \in calls : SendLost(n, c)

==============================================================================
