------------------------------ MODULE NodeState ------------------------------
(***************************************************************************)
(* The state the services of a storage node keep, for all nodes, and the   *)
(* SendPiece RPCs between them.  One module per service (PeerIn,           *)
(* Stabilizer, RebuildQueue, IOFront, ClusterIn) holds its actions; module *)
(* Storage composes them.                                                  *)
(*                                                                         *)
(* Data abstraction.  The bytes of a piece are determined by its locator   *)
(* (a key is written once, book/src/api.md), so a store is a set of        *)
(* locators.  A cluster map is named by its version.                       *)
(***************************************************************************)
EXTENDS ClusterMap

CONSTANTS
    Histories,    \* the sequences of cluster maps to consider, by version
    LastVersion,  \* bound: the last version of a history
    Start,        \* the version the other members have installed initially
    Settled,      \* keys whose pieces are in place initially
    Down,         \* nodes that have stopped before the first step
    Late,         \* nodes that have not been told any map yet
    Budgets       \* bound: the faults to consider, each a number by kind

\* "net": an RPC to a live node fails or times out.  "io": a piece store
\* operation fails.  "crash": a node stops for ever.  "restart": a node is
\* shut down cleanly and started again.  "reapply": a command that changes
\* no map broadcasts it again.
FaultKind == {"net", "io", "crash", "restart", "reapply"}

Version == 0..LastVersion

ASSUME VersionAssumption == LastVersion \in Nat /\ Start \in Version
ASSUME HistoryAssumption ==
    \A h \in Histories :
        /\ DOMAIN h = Version
        /\ h[0] = EmptyMap
        /\ \A v \in Version : IsClusterMap(h[v])
        \* one node is added or removed at a time
        /\ \A v \in Start + 1..LastVersion :
              \E n \in Node : \/ h[v].members = h[v - 1].members \cup {n}
                             \/ h[v].members = h[v - 1].members \ {n}
ASSUME SettledAssumption ==
    /\ Settled \subseteq Key /\ Down \subseteq Node
    \* a key is written when there are nodes to hold it
    /\ \A h \in Histories, k \in Settled : h[Start].ids[k] # << >>
ASSUME BudgetAssumption == \A b \in Budgets : b \in [FaultKind -> Nat]

Flusher == {"tick", "cluster"}  \* the two callers of Stabilizer::flush_queue
ViewName == {"io", "peer", "rebuild", "stab"}

VARIABLES
    history,   \* history[v]: the cluster map of version v
    alive,     \* nodes that run
    budget,    \* faults that may still happen, by kind
    view,      \* view[n][s]: version of the map service s of node n holds
    install,   \* install[n]: progress of ClusterIn::set_new_cluster at n
    store,     \* store[n]: the pieces in the piece store of n
    stabQ,     \* stabQ[n]: Stabilizer's queue of keys
    flush,     \* flush[n][f]: progress of Stabilizer::flush_queue called by f
    calls,     \* SendPiece futures and RPCs, from creation to consumed reply
    rebuildQ,  \* rebuildQ[n]: RebuildQueue's queue of locators
    rflush,    \* rflush[n]: progress of RebuildQueue::flush_queue
    rebuilds,  \* the ExecRebuild futures of the running rebuild flushes
    create,    \* create[k]: progress of IOFront::create for key k
    written,   \* auxiliary: locators ever put in a store
    exposed    \* auxiliary: locators whose loss is explained (see Storage)

world == <<history, alive, budget>>
maps == <<view, install>>
stabVars == <<stabQ, flush>>
rebuildVars == <<rebuildQ, rflush, rebuilds>>
aux == <<written, exposed>>
vars == <<world, maps, store, stabVars, calls, rebuildVars, create, aux>>

Map(v) == history[v]
HolderAt(v, l) == Holder(Map(v), l)

\* A fault of kind b is possible, and using it up.
MayFail(b) == budget[b] > 0
Spend(b) == budget' = [budget EXCEPT ![b] = @ - 1]

------------------------------------------------------------------------------
(* SendPiece calls.  st: "get" (the future exists, its piece is not read),  *)
(* "sent" (the request is on its way), "put" (the receiver has stored the   *)
(* piece and not yet queued it), "ok", "rejected", "failed" (the reply is   *)
(* on its way back).  by: the flush that owns the future, "create", or      *)
(* "gone" when nobody waits for the reply any more: the caller gave up,     *)
(* and the request may still be executed, or lost.                          *)

SendStatus == {"get", "sent", "put", "ok", "rejected", "failed"}
Call == [from : Node, by : Flusher \cup {"create", "gone"}, to : Node,
         loc : Loc, version : Version, data : BOOLEAN, st : SendStatus,
         reput : BOOLEAN]

CallsOf(n, f) == {c \in calls : c.from = n /\ c.by = f}

\* Move call c to status st; a reply nobody waits for disappears.
Advance(c, st) ==
    (calls \ {c}) \cup
        (IF c.by = "gone" /\ st \in {"ok", "rejected", "failed"}
         THEN {} ELSE {[c EXCEPT !.st = st]})

\* Drop the futures in S: those not sent never will be, the others run on.
Abandon(S) ==
    (calls \ S) \cup
        {[c EXCEPT !.by = "gone"] : c \in {d \in S : d.st \in {"sent", "put"}}}

\* A piece is put at node n while a move of that piece from n is under way:
\* the deletion that ends the move will also delete what is put now.
MarkReput(cs, n, l) ==
    {IF /\ c.from = n /\ c.loc = l /\ c.data
        /\ c.by \in Flusher /\ c.st \in {"sent", "put", "ok"}
     THEN [c EXCEPT !.reput = TRUE] ELSE c : c \in cs}

IdleFlush == [pc |-> "idle", todo |-> {}, failed |-> {}]

==============================================================================
