-------------------------------- MODULE Storage --------------------------------
(***************************************************************************)
(* A cluster of Sorock storage nodes: the services of every node           *)
(* (ClusterIn, PeerIn, Stabilizer, RebuildQueue, IOFront) running          *)
(* concurrently, RPCs between nodes that fail, are abandoned or arrive     *)
(* late, and nodes that stop for ever or are restarted.                    *)
(***************************************************************************)
EXTENDS ClusterIn, PeerIn, Stabilizer, RebuildQueue, IOFront

(* -- Initial states: the members run the map of version Start, except the *)
(* late ones, and the pieces of the settled keys are where that map wants  *)
(* them.  The nodes in Down have just stopped, and nobody knows yet.       *)
Init ==
    /\ history \in Histories
    /\ alive = Node \ Down
    /\ budget \in Budgets
    /\ LET v(n) == IF n \in Map(Start).members \ Late THEN Start ELSE 0
       IN  /\ view = [n \in Node |-> [s \in ViewName |-> v(n)]]
           /\ install = [n \in Node |->
                            [pc |-> "idle", version |-> v(n), keys |-> {}]]
    /\ store = [n \in Node |->
                   {l \in Loc : /\ l.key \in Settled /\ n \notin Down
                                /\ HolderAt(Start, l) = n}]
    /\ stabQ = [n \in Node |-> {}]
    /\ flush = [n \in Node |-> [f \in Flusher |-> IdleFlush]]
    /\ calls = {}
    /\ rebuildQ = [n \in Node |-> {}]
    /\ rflush = [n \in Node |-> IdleFlush]
    /\ rebuilds = {}
    /\ create = [k \in Key |->
                    [pc |-> IF k \in Settled THEN "acked" ELSE "idle",
                     node |-> NoNode, hv |-> 0, ok |-> 0]]
    /\ written = {l \in Loc : l.key \in Settled /\ HolderAt(Start, l) # NoNode}
    /\ exposed = {l \in written : HolderAt(Start, l) \in Down}

(* -- The environment.  A process that died does not come back: main.rs    *)
(* leaves a dead_flag file behind and refuses to start when it finds it.   *)
Crash(n) ==
    /\ n \in alive /\ MayFail("crash") /\ Spend("crash")
    /\ alive' = alive \ {n}
    /\ store' = [store EXCEPT ![n] = {}]
    /\ exposed' = exposed \cup store[n]
    /\ calls' = Abandon({c \in calls : c.from = n})
    /\ rebuilds' = rebuilds \ RebuildsOf(n)
    /\ install' = [install EXCEPT ![n].pc = "idle", ![n].keys = {}]
    /\ stabQ' = [stabQ EXCEPT ![n] = {}]
    /\ flush' = [flush EXCEPT ![n] = [f \in Flusher |-> IdleFlush]]
    /\ rebuildQ' = [rebuildQ EXCEPT ![n] = {}]
    /\ rflush' = [rflush EXCEPT ![n] = IdleFlush]
    /\ create' = [k \in Key |->
                     IF /\ create[k].node = n
                        /\ create[k].pc \in {"holders", "run"}
                     THEN [create[k] EXCEPT !.pc = "failed"] ELSE create[k]]
    /\ UNCHANGED <<history, view, written>>

\* A clean shutdown (main.rs, module Volume): the server answers the requests
\* it has accepted, then the process ends.  What it has stored stays, and
\* everything else is gone: its maps, its queues, what its services were
\* doing.
Shutdown(n) ==
    /\ n \in alive /\ MayFail("restart") /\ Spend("restart")
    /\ \A x \in Key : create[x].node = n =>
                         create[x].pc \notin {"holders", "run"}
    /\ \A c \in calls : c.to = n /\ c.st = "put" => c.by = "gone"
    /\ alive' = alive \ {n}
    /\ calls' = Abandon({c \in calls : c.from = n})
    /\ rebuilds' = rebuilds \ RebuildsOf(n)
    /\ install' = [install EXCEPT ![n] =
                      [pc |-> "stopped", version |-> 0, keys |-> {}]]
    /\ stabQ' = [stabQ EXCEPT ![n] = {}]
    /\ flush' = [flush EXCEPT ![n] = [f \in Flusher |-> IdleFlush]]
    /\ rebuildQ' = [rebuildQ EXCEPT ![n] = {}]
    /\ rflush' = [rflush EXCEPT ![n] = IdleFlush]
    /\ view' = [view EXCEPT ![n] = [s \in ViewName |-> 0]]
    /\ UNCHANGED <<history, store, create, aux>>

\* ... and starts again, with no map: Raft tells it the maps from its log and
\* its snapshot.  Requests sent before, and given up, went to the old process.
Boot(n) ==
    /\ install[n].pc = "stopped"
    /\ alive' = alive \cup {n}
    /\ install' = [install EXCEPT ![n].pc = "idle"]
    /\ calls' = {c \in calls : ~(c.to = n /\ c.by = "gone")}
    /\ UNCHANGED <<history, budget, view, store, stabVars, rebuildVars, create,
                   aux>>

\* An abandoned request is never executed, or its handler is cancelled.
LoseAbandoned(c) ==
    /\ c.by = "gone"
    /\ calls' = calls \ {c}
    /\ UNCHANGED <<world, maps, store, stabVars, rebuildVars, create, aux>>

NodeNext(n) ==
    ClusterInNext(n) \/ PeerInNext(n) \/ StabilizerNext(n)
        \/ RebuildQueueNext(n) \/ IOFrontNext(n)

FaultNext(n) ==
    ClusterInFault(n) \/ PeerInFault(n) \/ StabilizerFault(n)
        \/ RebuildQueueFault(n) \/ IOFrontFault(n) \/ Crash(n)
        \/ Shutdown(n) \/ Boot(n)

Next ==
    \/ \E n \in Node : NodeNext(n) \/ FaultNext(n)
    \/ \E c \in calls : LoseAbandoned(c)

(* -- Fairness: the tasks of a live node are scheduled, the two ticks go   *)
(* on, Raft delivers new maps, an RPC to a live node is served and one to  *)
(* a dead node fails.  No fault is fair.                                   *)
Fairness ==
    /\ \A n \in Node :
          /\ WF_vars(ClusterInNext(n))
          /\ WF_vars(PeerInNext(n))
          /\ \A f \in Flusher : WF_vars(FlushNext(n, f))
          /\ WF_vars(RebuildQueueNext(n))
          /\ WF_vars(IOFrontNext(n))

Spec == Init /\ [][Next]_vars
FairSpec == Spec /\ Fairness

------------------------------------------------------------------------------
(* -- Types -- *)

InstallPc == {"idle", "keys", "reset", "flush", "wait", "stopped"} \cup ViewName
InstallState == [pc : InstallPc, version : Version, keys : SUBSET Key]
CreateState == [pc : {"idle", "holders", "run", "acked", "failed"},
                node : Node \cup {NoNode}, hv : Version, ok : Nat]
FlushState(S) == [pc : {"idle", "drained", "run"}, todo : SUBSET S,
                  failed : SUBSET S]

\* The values the variables can take.
TypeOK ==
    /\ history \in Histories
    /\ alive \in SUBSET Node
    /\ budget \in [FaultKind -> Nat]
    /\ view \in [Node -> [ViewName -> Version]]
    /\ install \in [Node -> InstallState]
    /\ store \in [Node -> SUBSET Loc]
    /\ stabQ \in [Node -> SUBSET Key]
    /\ flush \in [Node -> [Flusher -> FlushState(Key)]]
    /\ calls \in SUBSET Call
    /\ rebuildQ \in [Node -> SUBSET Loc]
    /\ rflush \in [Node -> FlushState(Loc)]
    /\ rebuilds \in SUBSET Rebuild
    /\ create \in [Key -> CreateState]
    /\ written \in SUBSET Loc
    /\ exposed \in SUBSET Loc

------------------------------------------------------------------------------
(* -- Safety -- *)

Held(l) == \E n \in Node : l \in store[n]

\* A piece once stored is in some store of the cluster.
PieceNeverVanishes == \A l \in written : Held(l)

\* A piece leaves the cluster in two ways only: a node that held a copy
\* stopped, or a move deleted a copy that had been stored again since the
\* move read it.  Otherwise a sender never deletes the last copy.
NoUnexplainedLoss == \A l \in written \ exposed : Held(l)

\* A node whose stabilizer sends pieces under a map refuses the pieces sent
\* under older maps: peer_in is told of a new map before the stabilizer is.
GateBeforeSend ==
    \A c \in calls : c.by \in Flusher => c.version <= view[c.from].peer

\* While a piece is being saved the receiver's map is not newer than the
\* sender's: the read guard is held to the end of save_piece.
GateHeldWhileSaving ==
    \A c \in calls : c.st = "put" /\ c.to \in alive =>
                        c.version >= view[c.to].peer

Quiet(n) ==
    /\ install[n].pc = "idle" /\ stabQ[n] = {} /\ rebuildQ[n] = {}
    /\ rflush[n].pc = "idle" /\ \A f \in Flusher : flush[n][f].pc = "idle"

\* Every live node has the last map, its members are alive, no node is about
\* to be started again, and nothing is under way anywhere.
Quiescent ==
    /\ calls = {} /\ Map(LastVersion).members \subseteq alive
    /\ \A n \in Node : install[n].pc # "stopped"
    /\ \A n \in alive : Quiet(n) /\ install[n].version = LastVersion
    /\ \A k \in Key : create[k].pc \notin {"holders", "run"}

\* When nothing is under way under the last map, every piece ever stored is
\* at the node that map wants it, and nowhere else.
QuiescentPlaced ==
    Quiescent => \A l \in written, n \in alive :
                    l \in store[n] <=> n = HolderAt(LastVersion, l)

\* When nothing is under way, a key with K pieces left has lost none.
QuiescentHealed ==
    Quiescent => \A k \in Key :
        Cardinality({l \in LocsOf(k) : Held(l)}) >= K =>
            \A n \in alive : NLost(n, k) = 0

\* From the moment create tells the client yes, K pieces of the key are in
\* stores: what fails, moves or is rebuilt meanwhile never takes one too many.
AckedIsReadable ==
    \A k \in Key : create[k].pc = "acked" =>
        Cardinality({l \in LocsOf(k) : Held(l)}) >= K

------------------------------------------------------------------------------
(* -- What the client sees -- *)

Phase(k) == IF create[k].pc \in {"holders", "run"} THEN "writing"
                                                   ELSE create[k].pc

\* The moves that have read the piece they move.
IsMove(c) == c.by \in Flusher /\ c.data /\ c.st \in {"sent", "put", "ok"}
Copies(S) == {<<c.from, c.loc>> : c \in S}

Objects == INSTANCE ObjectStore
              WITH phase <- [k \in Key |-> Phase(k)], copies <- store,
                   moving <- Copies({c \in calls : IsMove(c)}),
                   again <- Copies({c \in calls : IsMove(c) /\ c.reput}),
                   excused <- exposed

\* The nodes together keep the promises of an object store: pieces come from
\* a create only, a yes stands for K of them, and a copy is deleted only by a
\* move that read it, when there is another one or with an excuse.
ImplementsObjectStore == Objects!Spec

------------------------------------------------------------------------------
(* -- Liveness -- *)

Healed(k) == \A n \in alive : NLost(n, k) = 0

\* A key acknowledged to the client is eventually complete: the pieces that
\* create failed to send are rebuilt where they belong.
AckedThenComplete ==
    \A k \in Key : create[k].pc = "acked" ~> []Healed(k)

==============================================================================
