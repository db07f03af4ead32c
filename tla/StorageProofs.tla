----------------------------- MODULE StorageProofs -----------------------------
(***************************************************************************)
(* Theorems about Storage, for every set of nodes and keys, every history  *)
(* of cluster maps and every number of faults: the types of its variables, *)
(* the version gate between the sender and the receiver of a piece, and    *)
(* the two ways in which a piece can be lost.                              *)
(***************************************************************************)
EXTENDS Storage, TLAPS, FiniteSetTheorems, FunctionTheorems

------------------------------------------------------------------------------
(* -- The operators the actions are built from -- *)

\* A map names a holder that is a node, or none (compute_holders).
LEMMA HolderType ==
    ASSUME NEW m, IsClusterMap(m), NEW l \in Loc
    PROVE  /\ Holder(m, l) \in Node \cup {NoNode}
           /\ m.ids[l.key] # << >> => Holder(m, l) \in Node
<1>1. l.key \in Key /\ l.index \in Nat
  BY SizeAssumption DEF Loc, Index
<1>2. m.ids[l.key] \in Seq(Node)
  BY <1>1 DEF IsClusterMap
<1>3. CASE m.ids[l.key] = << >>
  BY <1>3 DEF Holder
<1>4. CASE m.ids[l.key] # << >>
  <2> DEFINE ids == m.ids[l.key]
  <2>1. Len(ids) \in Nat /\ Len(ids) > 0
    BY <1>2, <1>4
  <2>2. (l.index % Len(ids)) + 1 \in 1..Len(ids)
    BY <1>1, <2>1
  <2>3. ids[(l.index % Len(ids)) + 1] \in Node
    BY <1>2, <2>2
  <2> QED BY <1>4, <2>3 DEF Holder
<1> QED BY <1>3, <1>4

LEMMA HolderAtType ==
    ASSUME history \in Histories, NEW v \in Version, NEW l \in Loc
    PROVE  HolderAt(v, l) \in Node \cup {NoNode}
<1>1. IsClusterMap(history[v])
  BY HistoryAssumption
<1> QED BY <1>1, HolderType DEF HolderAt, Map

\* A key has N locators.
LEMMA PiecesOfKey ==
    ASSUME NEW k \in Key
    PROVE  IsFiniteSet(LocsOf(k)) /\ Cardinality(LocsOf(k)) = N
<1> DEFINE f == [i \in Index |-> [key |-> k, index |-> i]]
<1>1. f \in [Index -> LocsOf(k)]
  BY DEF LocsOf, Loc
<1>2. \A i, j \in Index : f[i] = f[j] => i = j
  OBVIOUS
<1>3. \A l \in LocsOf(k) : \E i \in Index : f[i] = l
  BY DEF LocsOf, Loc
<1> HIDE DEF f
<1>4. f \in Bijection(Index, LocsOf(k))
  BY <1>1, <1>2, <1>3, Fun_IsBij
<1>5. ExistsBijection(Index, LocsOf(k))
  BY <1>4, Fun_ExistsBij
<1>6. IsFiniteSet(Index) /\ Cardinality(Index) = N
  BY FS_Interval, SizeAssumption DEF Index
<1> QED BY <1>5, <1>6, FS_Bijection

\* Counting among the locators of a key.
LEMMA CountMonotone ==
    ASSUME NEW k \in Key, NEW T \in SUBSET LocsOf(k), NEW S \in SUBSET T
    PROVE  /\ IsFiniteSet(S) /\ Cardinality(S) \in Nat
           /\ Cardinality(T) \in Nat /\ Cardinality(S) <= Cardinality(T)
<1>1. IsFiniteSet(T)
  BY PiecesOfKey, FS_Subset
<1> QED BY <1>1, FS_Subset, FS_CardinalityType

\* The fan-out names services of the node.
LEMMA FanOutType ==
    Len(FanOut) = 4 /\ \A i \in 1..Len(FanOut) : FanOut[i] \in ViewName
BY DEF FanOut, ViewName

\* Advancing, abandoning or marking calls gives calls.
LEMMA AdvanceType ==
    ASSUME calls \in SUBSET Call, NEW c \in calls, NEW st \in SendStatus
    PROVE  Advance(c, st) \in SUBSET Call
<1>1. [c EXCEPT !.st = st] \in Call
  BY DEF Call
<1> QED BY <1>1 DEF Advance

LEMMA AbandonType ==
    ASSUME calls \in SUBSET Call, NEW S \in SUBSET calls
    PROVE  Abandon(S) \in SUBSET Call
<1>1. \A c \in S : [c EXCEPT !.by = "gone"] \in Call
  BY DEF Call
<1> QED BY <1>1 DEF Abandon

LEMMA MarkReputType ==
    ASSUME NEW cs \in SUBSET Call, NEW n, NEW l
    PROVE  MarkReput(cs, n, l) \in SUBSET Call
<1>1. \A c \in cs : [c EXCEPT !.reput = TRUE] \in Call
  BY DEF Call
<1> QED BY <1>1 DEF MarkReput

\* A call whose piece has been read is a call.
LEMMA SentType ==
    ASSUME NEW c \in Call, NEW d \in BOOLEAN
    PROVE  [c EXCEPT !.st = "sent", !.data = d] \in Call
<1>1. [c EXCEPT !.st = "sent", !.data = TRUE] \in Call
  BY DEF Call, SendStatus
<1>2. [c EXCEPT !.st = "sent", !.data = FALSE] \in Call
  BY DEF Call, SendStatus
<1>3. CASE d = TRUE
  BY <1>1, <1>3
<1>4. CASE d = FALSE
  BY <1>2, <1>4
<1> QED BY <1>3, <1>4

\* exec(key) creates calls.
LEMMA TasksType ==
    ASSUME history \in Histories, NEW n \in Node, NEW f \in Flusher,
           NEW v \in Version, NEW ks \in SUBSET Key
    PROVE  Tasks(n, f, v, ks) \in SUBSET Call
<1> SUFFICES ASSUME NEW l \in Loc, HolderAt(v, l) \notin {NoNode, n}
             PROVE  [from |-> n, by |-> f, to |-> HolderAt(v, l), loc |-> l,
                     version |-> v, data |-> FALSE, st |-> "get",
                     reput |-> FALSE] \in Call
  BY DEF Tasks
<1>1. HolderAt(v, l) \in Node
  BY HolderAtType
<1> QED BY <1>1 DEF Call, SendStatus

\* Replacing the state of one flush of one node.
LEMMA FlushUpdate ==
    ASSUME flush \in [Node -> [Flusher -> FlushState(Key)]],
           NEW n \in Node, NEW f \in Flusher, NEW x \in FlushState(Key)
    PROVE  [flush EXCEPT ![n][f] = x]
              \in [Node -> [Flusher -> FlushState(Key)]]
<1>1. [flush[n] EXCEPT ![f] = x] \in [Flusher -> FlushState(Key)]
  OBVIOUS
<1>2. [flush EXCEPT ![n][f] = x] = [flush EXCEPT ![n] = [@ EXCEPT ![f] = x]]
  OBVIOUS
<1> QED BY <1>1, <1>2

LEMMA IdleFlushType == ASSUME NEW S PROVE IdleFlush \in FlushState(S)
BY DEF IdleFlush, FlushState

\* Moving the progress of one node's set_new_cluster.
LEMMA InstallUpdate ==
    ASSUME install \in [Node -> InstallState], NEW n \in Node,
           NEW pc \in InstallPc, NEW ks \in SUBSET Key
    PROVE  /\ [install EXCEPT ![n].pc = pc] \in [Node -> InstallState]
           /\ [install EXCEPT ![n].pc = pc, ![n].keys = ks]
                 \in [Node -> InstallState]
<1>1. [install[n] EXCEPT !.pc = pc] \in InstallState
  BY DEF InstallState
<1>2. [install[n] EXCEPT !.pc = pc, !.keys = ks] \in InstallState
  BY DEF InstallState
<1>3. [install EXCEPT ![n].pc = pc]
         = [install EXCEPT ![n] = [install[n] EXCEPT !.pc = pc]]
  OBVIOUS
<1>4. [install EXCEPT ![n].pc = pc, ![n].keys = ks]
         = [install EXCEPT ![n] =
               [install[n] EXCEPT !.pc = pc, !.keys = ks]]
  OBVIOUS
<1> QED BY <1>1, <1>2, <1>3, <1>4

LEMMA ReturnsType ==
    ASSUME install \in [Node -> InstallState], NEW n \in Node, NEW f,
           Returns(n, f)
    PROVE  install' \in [Node -> InstallState]
<1>1. "idle" \in InstallPc
  BY DEF InstallPc
<1> QED BY <1>1, InstallUpdate DEF Returns

\* Using up a fault.
LEMMA SpendType ==
    ASSUME budget \in [FaultKind -> Nat], NEW x \in FaultKind,
           MayFail(x), Spend(x)
    PROVE  budget' \in [FaultKind -> Nat]
BY DEF MayFail, Spend

------------------------------------------------------------------------------
(* -- Types: one lemma per service -- *)

LEMMA PeerInType ==
    ASSUME TypeOK, NEW n \in Node, PeerInNext(n) \/ PeerInFault(n)
    PROVE  TypeOK'
<1> USE DEF TypeOK, world, maps, stabVars, rebuildVars, aux
<1>0. \A c \in calls : c.loc \in Loc /\ c.loc.key \in Key
  BY DEF Call, Loc
<1>1. ASSUME NEW c \in calls, RejectPiece(n, c) PROVE TypeOK'
  BY <1>1, AdvanceType DEF RejectPiece, SendStatus
<1>2. ASSUME NEW c \in calls, PutPiece(n, c) PROVE TypeOK'
  <2>1. calls' \in SUBSET Call
    BY <1>2, AdvanceType, MarkReputType DEF PutPiece, SendStatus
  <2> QED BY <1>0, <1>2, <2>1 DEF PutPiece
<1>3. ASSUME NEW c \in calls, QueueTask(n, c) PROVE TypeOK'
  <2>1. calls' \in SUBSET Call
    BY <1>3, AdvanceType DEF QueueTask, SendStatus
  <2> QED BY <1>0, <1>3, <2>1 DEF QueueTask
<1>4. ASSUME NEW c \in calls, QueueRebuild(n, c) PROVE TypeOK'
  <2>1. calls' \in SUBSET Call
    BY <1>4, AdvanceType DEF QueueRebuild, SendStatus
  <2> QED BY <1>0, <1>4, <2>1 DEF QueueRebuild
<1>5. ASSUME NEW c \in calls, PutFails(n, c) PROVE TypeOK'
  <2>1. calls' \in SUBSET Call
    BY <1>5, AdvanceType DEF PutFails, SendStatus
  <2>2. budget' \in [FaultKind -> Nat]
    BY <1>5, SpendType DEF PutFails, FaultKind
  <2> QED BY <1>5, <2>1, <2>2 DEF PutFails
<1> QED
  BY <1>1, <1>2, <1>3, <1>4, <1>5 DEF PeerInNext, PeerInFault

LEMMA StabilizerType ==
    ASSUME TypeOK, NEW n \in Node, StabilizerNext(n) \/ StabilizerFault(n)
    PROVE  TypeOK'
<1> USE DEF TypeOK, world, maps, stabVars, rebuildVars, aux
<1>0. \A c \in calls : /\ c.loc \in Loc /\ c.loc.key \in Key
                       /\ CallsOf(n, c.by) \in SUBSET calls
  BY DEF Call, Loc, CallsOf
<1>1. ASSUME NEW f \in Flusher, Drain(n, f) PROVE TypeOK'
  <2> DEFINE x == [pc |-> "drained", todo |-> stabQ[n], failed |-> {}]
  <2>1. x \in FlushState(Key)
    BY DEF FlushState
  <2>2. flush' \in [Node -> [Flusher -> FlushState(Key)]]
    BY <1>1, <2>1, FlushUpdate DEF Drain
  <2>3. install' \in [Node -> InstallState]
    <3>1. "wait" \in InstallPc
      BY DEF InstallPc
    <3>2. [install EXCEPT ![n].pc = "wait"] \in [Node -> InstallState]
      BY <3>1, InstallUpdate
    <3> QED BY <1>1, <3>2 DEF Drain
  <2> QED BY <1>1, <2>2, <2>3 DEF Drain
<1>2. ASSUME NEW f \in Flusher, ReadCluster(n, f) PROVE TypeOK'
  <2>1. view[n].stab \in Version /\ flush[n][f].todo \in SUBSET Key
    BY DEF ViewName, FlushState
  <2>2. calls' \in SUBSET Call
    BY <1>2, <2>1, TasksType DEF ReadCluster
  <2> DEFINE y == flush[n][f]
             x == [y EXCEPT !.pc = "run", !.todo = {}]
  <2>3. y \in FlushState(Key)
    OBVIOUS
  <2> HIDE DEF y
  <2>4. x \in FlushState(Key)
    BY <2>3 DEF FlushState
  <2>5. flush' = [flush EXCEPT ![n][f] = x]
    BY <1>2 DEF ReadCluster, y
  <2>6. flush' \in [Node -> [Flusher -> FlushState(Key)]]
    BY <2>4, <2>5, FlushUpdate
  <2> QED BY <1>2, <2>2, <2>6 DEF ReadCluster
<1>3. ASSUME NEW c \in calls, GetPiece(n, c) PROVE TypeOK'
  <2> DEFINE x == [c EXCEPT !.st = "sent", !.data = (c.loc \in store[n])]
  <2>1. x \in Call
    <3>1. (c.loc \in store[n]) \in BOOLEAN
      OBVIOUS
    <3> QED BY <3>1, SentType
  <2>2. calls' = (calls \ {c}) \cup {x}
    BY <1>3 DEF GetPiece
  <2> HIDE DEF x
  <2>3. calls' \in SUBSET Call
    BY <2>1, <2>2
  <2> QED BY <1>3, <2>3 DEF GetPiece
<1>4. ASSUME NEW c \in calls, DeletePiece(n, c) PROVE TypeOK'
  BY <1>0, <1>4 DEF DeletePiece
<1>5. ASSUME NEW c \in calls, DeleteFails(n, c) PROVE TypeOK'
  BY <1>5, SpendType DEF DeleteFails, FaultKind
<1>6. ASSUME NEW c \in calls, Mine(n, c), FailKey(n, c),
             budget' \in [FaultKind -> Nat]
      PROVE  TypeOK'
  <2>1. calls' \in SUBSET Call
    BY <1>0, <1>6, AbandonType DEF FailKey
  <2>2. c.by \in Flusher /\ c.loc.key \in Key
    BY <1>0, <1>6 DEF Mine
  <2> DEFINE y == flush[n][c.by]
             x == [y EXCEPT !.failed = @ \cup {c.loc.key}]
  <2>3. y \in FlushState(Key)
    BY <2>2
  <2> HIDE DEF y
  <2>4. x \in FlushState(Key)
    BY <2>2, <2>3 DEF FlushState
  <2>5. flush' = [flush EXCEPT ![n][c.by] = x]
    BY <1>6 DEF FailKey, y
  <2>6. flush' \in [Node -> [Flusher -> FlushState(Key)]]
    BY <2>2, <2>4, <2>5, FlushUpdate
  <2> QED BY <1>6, <2>1, <2>6 DEF FailKey
<1>7. ASSUME NEW c \in calls, GetFails(n, c) PROVE TypeOK'
  BY <1>6, <1>7, SpendType DEF GetFails, FaultKind
<1>8. ASSUME NEW c \in calls, SendFailed(n, c) PROVE TypeOK'
  BY <1>6, <1>8 DEF SendFailed
<1>9. ASSUME NEW c \in calls, SendLost(n, c) PROVE TypeOK'
  BY <1>6, <1>9, SpendType DEF SendLost, FaultKind
<1>10. ASSUME NEW c \in calls, SendRejected(n, c) PROVE TypeOK'
  <2>1. calls' \in SUBSET Call
    BY <1>0, <1>10, AbandonType DEF SendRejected
  <2>2. flush' \in [Node -> [Flusher -> FlushState(Key)]]
    BY <1>10, FlushUpdate, IdleFlushType DEF SendRejected, Mine
  <2>3. install' \in [Node -> InstallState]
    BY <1>10, ReturnsType DEF SendRejected
  <2> QED BY <1>10, <2>1, <2>2, <2>3 DEF SendRejected
<1>11. ASSUME NEW f \in Flusher, FlushEnds(n, f) PROVE TypeOK'
  <2>1. flush' \in [Node -> [Flusher -> FlushState(Key)]]
    BY <1>11, FlushUpdate, IdleFlushType DEF FlushEnds
  <2>2. flush[n][f].failed \in SUBSET Key
    BY DEF FlushState
  <2>3. stabQ' \in [Node -> SUBSET Key]
    BY <1>11, <2>2 DEF FlushEnds
  <2>4. install' \in [Node -> InstallState]
    BY <1>11, ReturnsType DEF FlushEnds
  <2> QED BY <1>11, <2>1, <2>3, <2>4 DEF FlushEnds
<1> QED
  BY <1>1, <1>2, <1>3, <1>4, <1>5, <1>7, <1>8, <1>9, <1>10, <1>11
  DEF StabilizerNext, FlushNext, CallsOf, StabilizerFault

LEMMA ClusterInType ==
    ASSUME TypeOK, NEW n \in Node, ClusterInNext(n) \/ ClusterInFault(n)
    PROVE  TypeOK'
<1> USE DEF TypeOK, world, maps, stabVars, rebuildVars, aux
<1>0. \A i \in 1..Len(FanOut) : FanOut[i] \in ViewName
  BY FanOutType
<1>1. FanOut[1] \in InstallPc
  BY FanOutType DEF InstallPc
<1>2. ASSUME NEW v \in Version, BeginInstall(n, v) PROVE TypeOK'
  <2>1. [pc |-> FanOut[1], version |-> v, keys |-> {}] \in InstallState
    BY <1>1 DEF InstallState
  <2> QED BY <1>2, <2>1 DEF BeginInstall
<1>3. ASSUME Reapply(n) PROVE TypeOK'
  <2>1. install' \in [Node -> InstallState]
    BY <1>1, <1>3, InstallUpdate DEF Reapply
  <2> QED BY <1>3, <2>1, SpendType DEF Reapply, FaultKind
<1>4. ASSUME NEW i \in 1..Len(FanOut), SetNewCluster(n, i) PROVE TypeOK'
  <2>1. (IF i < Len(FanOut) THEN FanOut[i + 1] ELSE "keys") \in InstallPc
    BY <1>0, FanOutType DEF InstallPc
  <2>2. install' \in [Node -> InstallState]
    BY <1>4, <2>1, InstallUpdate DEF SetNewCluster
  <2>3. install[n].version \in Version /\ FanOut[i] \in ViewName
    BY <1>0 DEF InstallState
  <2>4. [view[n] EXCEPT ![FanOut[i]] = install[n].version]
           \in [ViewName -> Version]
    BY <2>3
  <2>5. view' = [view EXCEPT ![n] =
                    [@ EXCEPT ![FanOut[i]] = install[n].version]]
    BY <1>4 DEF SetNewCluster
  <2>6. view' \in [Node -> [ViewName -> Version]]
    BY <2>4, <2>5
  <2> QED BY <1>4, <2>2, <2>6 DEF SetNewCluster
<1>5. ASSUME ReadKeys(n) PROVE TypeOK'
  <2>1. {l.key : l \in store[n]} \in SUBSET Key
    BY DEF Loc
  <2>2. install' \in [Node -> InstallState]
    BY <1>5, <2>1, InstallUpdate DEF ReadKeys, InstallPc
  <2> QED BY <1>5, <2>2 DEF ReadKeys
<1>6. ASSUME KeysFails(n) PROVE TypeOK'
  <2>1. install' \in [Node -> InstallState]
    BY <1>1, <1>6, InstallUpdate DEF KeysFails
  <2> QED BY <1>6, <2>1, SpendType DEF KeysFails, FaultKind
<1>7. ASSUME ResetQueue(n) PROVE TypeOK'
  <2>1. install' \in [Node -> InstallState]
    BY <1>7, InstallUpdate DEF ResetQueue, InstallPc
  <2>2. install[n].keys \in SUBSET Key
    BY DEF InstallState
  <2> QED BY <1>7, <2>1, <2>2 DEF ResetQueue
<1> QED
  BY <1>2, <1>3, <1>4, <1>5, <1>6, <1>7 DEF ClusterInNext, ClusterInFault

\* Counting one more piece of a create.
LEMMA CountType ==
    ASSUME NEW y \in CreateState
    PROVE  [y EXCEPT !.ok = @ + 1] \in CreateState
BY DEF CreateState

LEMMA IOFrontType ==
    ASSUME TypeOK, NEW n \in Node, IOFrontNext(n) \/ IOFrontFault(n)
    PROVE  TypeOK'
<1> USE DEF TypeOK, world, maps, stabVars, rebuildVars, aux
<1>0. view[n].io \in Version /\ \A c \in calls : c.loc.key \in Key
  BY DEF ViewName, Call, Loc
<1>1. ASSUME NEW k \in Key, CreateBegins(n, k) PROVE TypeOK'
  <2>1. [pc |-> "holders", node |-> n, hv |-> view[n].io, ok |-> 0]
           \in CreateState
    BY <1>0 DEF CreateState
  <2> QED BY <1>1, <2>1 DEF CreateBegins
<1>2. ASSUME NEW k \in Key, SendPieces(n, k) PROVE TypeOK'
  <2>1. \A l \in Loc : HolderAt(create[k].hv, l) \in Node \cup {NoNode}
    BY HolderAtType DEF CreateState
  <2>2. \A l \in Loc : HolderAt(create[k].hv, l) # NoNode =>
          [from |-> n, by |-> "create", to |-> HolderAt(create[k].hv, l),
           loc |-> l, version |-> view[n].io, data |-> TRUE, st |-> "sent",
           reput |-> FALSE] \in Call
    BY <1>0, <2>1 DEF Call, SendStatus
  <2>3. calls' \in SUBSET Call
    BY <1>2, <2>2 DEF SendPieces, LocsOf
  <2>4. create' \in [Key -> CreateState]
    BY <1>2 DEF SendPieces, CreateState
  <2> QED BY <1>2, <2>3, <2>4 DEF SendPieces
<1>3. ASSUME NEW c \in calls, CountOk(n, c) PROVE TypeOK'
  <2> DEFINE y == create[c.loc.key]
             x == [y EXCEPT !.ok = @ + 1]
  <2>1. y \in CreateState
    BY <1>0
  <2> HIDE DEF y
  <2>2. x \in CreateState
    BY <2>1, CountType
  <2>3. create' = [create EXCEPT ![c.loc.key] = x]
    BY <1>3 DEF CountOk, y
  <2> HIDE DEF x
  <2>4. create' \in [Key -> CreateState]
    BY <1>0, <2>2, <2>3
  <2> QED BY <1>3, <2>4 DEF CountOk
<1>4. ASSUME NEW c \in calls, CountNotOk(n, c) PROVE TypeOK'
  BY <1>4, AbandonType DEF CountNotOk
<1>5. ASSUME NEW c \in calls, CreateLost(n, c) PROVE TypeOK'
  <2>1. calls' \in SUBSET Call
    BY <1>5, AbandonType DEF CreateLost
  <2> QED BY <1>5, <2>1, SpendType DEF CreateLost, FaultKind
<1>6. ASSUME NEW k \in Key, CreateReturns(n, k) PROVE TypeOK'
  <2> DEFINE pc == IF create[k].ok >= K THEN "acked" ELSE "failed"
  <2>1. create' \in [Key -> CreateState]
    <3>1. create' = [create EXCEPT ![k] = [create[k] EXCEPT !.pc = pc]]
      BY <1>6 DEF CreateReturns
    <3>2. pc \in {"acked", "failed"}
      OBVIOUS
    <3> HIDE DEF pc
    <3>3. [create[k] EXCEPT !.pc = pc] \in CreateState
      BY <3>2 DEF CreateState
    <3> QED BY <3>1, <3>3
  <2> QED BY <1>6, <2>1 DEF CreateReturns
<1> QED
  BY <1>1, <1>2, <1>3, <1>4, <1>5, <1>6 DEF IOFrontNext, IOFrontFault

\* What Become and Gone do to the set of rebuilds.
LEMMA BecomeType ==
    ASSUME rebuilds \in SUBSET Rebuild, NEW r, NEW new \in Rebuild,
           Become(r, new)
    PROVE  rebuilds' \in SUBSET Rebuild
BY DEF Become

LEMMA GoneType ==
    ASSUME rebuilds \in SUBSET Rebuild, NEW r, Gone(r)
    PROVE  rebuilds' \in SUBSET Rebuild
BY DEF Gone

\* A rebuild that moves on in its scan is a rebuild.
LEMMA RebuildUpdate ==
    ASSUME NEW r \in Rebuild, NEW st \in RebuildStatus,
           NEW w \in SUBSET Ask, NEW fd \in SUBSET Index
    PROVE  /\ [r EXCEPT !.st = st] \in Rebuild
           /\ [r EXCEPT !.wait = w] \in Rebuild
           /\ [r EXCEPT !.st = st, !.wait = w] \in Rebuild
           /\ [r EXCEPT !.wait = w, !.found = fd] \in Rebuild
           /\ [r EXCEPT !.st = st, !.wait = w, !.found = fd] \in Rebuild
           /\ [r EXCEPT !.st = st, !.found = fd, !.wait = w] \in Rebuild
BY DEF Rebuild

\* The requests of a scan go to holders, those of a broadcast to members.
LEMMA ScanAsksType ==
    ASSUME history \in Histories, NEW v \in Version, NEW k \in Key
    PROVE  /\ ScanAsks(v, k) \in SUBSET Ask
           /\ {0} \X Map(v).members \in SUBSET Ask
<1>1. ScanAsks(v, k) \in SUBSET Ask
  <2> SUFFICES ASSUME NEW i \in Index,
                      HolderAt(v, [key |-> k, index |-> i]) # NoNode
               PROVE  <<i, HolderAt(v, [key |-> k, index |-> i])>> \in Ask
    BY DEF ScanAsks
  <2>1. [key |-> k, index |-> i] \in Loc
    BY DEF Loc
  <2> QED BY <2>1, HolderAtType DEF Ask
<1>2. Map(v).members \in SUBSET Node
  BY HistoryAssumption DEF Map, IsClusterMap
<1>3. 0 \in Index
  BY SizeAssumption DEF Index
<1> QED BY <1>1, <1>2, <1>3 DEF Ask

\* A failed rebuild task is remembered for the next flush.
LEMMA RebuildFailed ==
    ASSUME rflush \in [Node -> FlushState(Loc)], NEW n \in Node,
           NEW l \in Loc, rflush' = [rflush EXCEPT ![n].failed = @ \cup {l}]
    PROVE  rflush' \in [Node -> FlushState(Loc)]
<1> DEFINE y == rflush[n]
           x == [y EXCEPT !.failed = @ \cup {l}]
<1>1. y \in FlushState(Loc)
  OBVIOUS
<1> HIDE DEF y
<1>2. x \in FlushState(Loc)
  BY <1>1 DEF FlushState
<1>3. rflush' = [rflush EXCEPT ![n] = x]
  BY DEF y
<1> QED BY <1>2, <1>3

LEMMA RebuildQueueType ==
    ASSUME TypeOK, NEW n \in Node,
           RebuildQueueNext(n) \/ RebuildQueueFault(n)
    PROVE  TypeOK'
<1> USE DEF TypeOK, world, maps, stabVars, rebuildVars, aux
<1>0. \A r \in rebuilds : /\ r \in Rebuild /\ r.loc \in Loc
                          /\ r.loc.key \in Key /\ r.wait \in SUBSET Ask
                          /\ r.found \in SUBSET Index
                          /\ r.version \in Version
  BY DEF Rebuild, Loc
<1>1. ASSUME DrainRebuilds(n) PROVE TypeOK'
  <2>1. [pc |-> "drained", todo |-> rebuildQ[n], failed |-> {}]
           \in FlushState(Loc)
    BY DEF FlushState
  <2> QED BY <1>1, <2>1 DEF DrainRebuilds
<1>2. ASSUME ReadRebuildCluster(n) PROVE TypeOK'
  <2> DEFINE y == rflush[n]
             x == [y EXCEPT !.pc = "run", !.todo = {}]
  <2>1. y \in FlushState(Loc) /\ y.todo \in SUBSET Loc
    BY DEF FlushState
  <2>2. view[n].rebuild \in Version
    BY DEF ViewName
  <2>3. \A l \in y.todo :
           [node |-> n, loc |-> l, version |-> view[n].rebuild,
            st |-> "check", wait |-> {}, found |-> {}] \in Rebuild
    BY <2>1, <2>2 DEF Rebuild, RebuildStatus
  <2>4. rebuilds' \in SUBSET Rebuild
    BY <1>2, <2>3 DEF ReadRebuildCluster
  <2> HIDE DEF y
  <2>5. x \in FlushState(Loc)
    BY <2>1 DEF FlushState
  <2>6. rflush' = [rflush EXCEPT ![n] = x]
    BY <1>2 DEF ReadRebuildCluster, y
  <2> HIDE DEF x
  <2>7. rflush' \in [Node -> FlushState(Loc)]
    BY <2>5, <2>6
  <2> QED BY <1>2, <2>4, <2>7 DEF ReadRebuildCluster
<1>3. ASSUME NEW r \in rebuilds, PieceExists(n, r) PROVE TypeOK'
  <2>1. [r EXCEPT !.st = "scan", !.wait = ScanAsks(r.version, r.loc.key)]
           \in Rebuild
    BY <1>0, RebuildUpdate, ScanAsksType DEF RebuildStatus
  <2>2. rebuilds' \in SUBSET Rebuild
    BY <1>3, <2>1, BecomeType, GoneType DEF PieceExists
  <2> QED BY <1>3, <2>2 DEF PieceExists
<1>4. ASSUME NEW r \in rebuilds, AnyPieces(n, r) PROVE TypeOK'
  <2>1. PICK a \in r.wait :
          LET found == r.found \cup PiecesAt(a[2], r.loc.key)
          IN  IF Cardinality(found) >= K
              THEN Become(r, [r EXCEPT !.st = "store", !.wait = {},
                                       !.found = {}])
              ELSE Become(r, [r EXCEPT !.wait = @ \ {a}, !.found = found])
    BY <1>4 DEF AnyPieces
  <2> DEFINE found == r.found \cup PiecesAt(a[2], r.loc.key)
  <2>2. a[2] \in Node
    BY <1>0 DEF Ask
  <2>3. found \in SUBSET Index
    BY <1>0, <2>2 DEF PiecesAt, Loc
  <2> HIDE DEF found
  <2>4. /\ [r EXCEPT !.st = "store", !.wait = {}, !.found = {}] \in Rebuild
        /\ [r EXCEPT !.wait = r.wait \ {a}, !.found = found] \in Rebuild
    BY <1>0, <2>3, RebuildUpdate DEF RebuildStatus
  <2>5. rebuilds' \in SUBSET Rebuild
    BY <2>1, <2>4, BecomeType DEF found
  <2> QED BY <1>4, <2>5 DEF AnyPieces
<1>5. ASSUME NEW r \in rebuilds, NoReply(n, r) \/ AskLost(n, r) PROVE TypeOK'
  <2>1. PICK a \in r.wait : Become(r, [r EXCEPT !.wait = @ \ {a}])
    BY <1>5 DEF NoReply, AskLost
  <2>2. [r EXCEPT !.wait = @ \ {a}] \in Rebuild
    <3>1. r.wait \ {a} \in SUBSET Ask
      BY <1>0
    <3>2. r \in Rebuild /\ r.st \in RebuildStatus /\ r.found \in SUBSET Index
      BY <1>0 DEF Rebuild
    <3> QED BY <3>1, <3>2, RebuildUpdate
  <2>3. rebuilds' \in SUBSET Rebuild
    BY <2>1, <2>2, BecomeType
  <2>4. budget' \in [FaultKind -> Nat]
    BY <1>5, SpendType DEF NoReply, AskLost, FaultKind
  <2> QED BY <1>5, <2>3, <2>4 DEF NoReply, AskLost
<1>6. ASSUME NEW r \in rebuilds, Broadcast(n, r) PROVE TypeOK'
  <2>1. [r EXCEPT !.st = "bcast", !.found = {},
                  !.wait = {0} \X Map(r.version).members] \in Rebuild
    BY <1>0, RebuildUpdate, ScanAsksType DEF RebuildStatus
  <2>2. rebuilds' \in SUBSET Rebuild
    BY <1>6, <2>1, BecomeType DEF Broadcast
  <2> QED BY <1>6, <2>2 DEF Broadcast
<1>7. ASSUME NEW r \in rebuilds, RebuildFails(n, r) PROVE TypeOK'
  <2>1. rflush' \in [Node -> FlushState(Loc)]
    BY <1>0, <1>7, RebuildFailed DEF RebuildFails
  <2> QED BY <1>7, <2>1, GoneType DEF RebuildFails
<1>8. ASSUME NEW r \in rebuilds, StoreRebuilt(n, r) PROVE TypeOK'
  <2>1. [r EXCEPT !.st = "queue"] \in Rebuild
    BY <1>0, RebuildUpdate DEF RebuildStatus
  <2>2. rebuilds' \in SUBSET Rebuild
    BY <1>8, <2>1, BecomeType DEF StoreRebuilt
  <2>3. calls' \in SUBSET Call
    BY <1>8, MarkReputType DEF StoreRebuilt
  <2> QED BY <1>0, <1>8, <2>2, <2>3 DEF StoreRebuilt
<1>9. ASSUME NEW r \in rebuilds, RebuildIoFails(n, r) PROVE TypeOK'
  <2>1. rflush' \in [Node -> FlushState(Loc)]
    BY <1>0, <1>9, RebuildFailed DEF RebuildIoFails
  <2>2. budget' \in [FaultKind -> Nat]
    BY <1>9, SpendType DEF RebuildIoFails, FaultKind
  <2> QED BY <1>9, <2>1, <2>2, GoneType DEF RebuildIoFails
<1>10. ASSUME NEW r \in rebuilds, QueueRebuilt(n, r) PROVE TypeOK'
  BY <1>0, <1>10, GoneType DEF QueueRebuilt
<1>11. ASSUME RebuildFlushEnds(n) PROVE TypeOK'
  <2>1. rflush[n].failed \in SUBSET Loc
    BY DEF FlushState
  <2> QED BY <1>11, <2>1, IdleFlushType DEF RebuildFlushEnds
<1> QED
  BY <1>1, <1>2, <1>3, <1>4, <1>5, <1>6, <1>7, <1>8, <1>9, <1>10, <1>11
  DEF RebuildQueueNext, RebuildQueueFault

LEMMA CrashType ==
    ASSUME TypeOK, NEW n \in Node, Crash(n)
    PROVE  TypeOK'
<1> USE DEF TypeOK
<1>1. budget' \in [FaultKind -> Nat]
  BY SpendType DEF Crash, FaultKind
<1>2. calls' \in SUBSET Call
  <2>1. {c \in calls : c.from = n} \in SUBSET calls
    OBVIOUS
  <2> QED BY <2>1, AbandonType DEF Crash
<1>3. install' \in [Node -> InstallState]
  <2>1. "idle" \in InstallPc /\ {} \in SUBSET Key
    BY DEF InstallPc
  <2> QED BY <2>1, InstallUpdate DEF Crash
<1>4. flush' \in [Node -> [Flusher -> FlushState(Key)]]
  <2>1. [f \in Flusher |-> IdleFlush] \in [Flusher -> FlushState(Key)]
    BY IdleFlushType
  <2> QED BY <2>1 DEF Crash
<1>5. rflush' \in [Node -> FlushState(Loc)]
  BY IdleFlushType DEF Crash
<1>6. create' \in [Key -> CreateState]
  <2>1. \A y \in CreateState : [y EXCEPT !.pc = "failed"] \in CreateState
    BY DEF CreateState
  <2> QED BY <2>1 DEF Crash
<1>7. store' \in [Node -> SUBSET Loc] /\ exposed' \in SUBSET Loc
  BY DEF Crash
<1>8. stabQ' \in [Node -> SUBSET Key] /\ rebuildQ' \in [Node -> SUBSET Loc]
  BY DEF Crash
<1>9. rebuilds' \in SUBSET Rebuild /\ alive' \in SUBSET Node
  BY DEF Crash
<1> QED
  BY <1>1, <1>2, <1>3, <1>4, <1>5, <1>6, <1>7, <1>8, <1>9 DEF Crash

LEMMA ShutdownType ==
    ASSUME TypeOK, NEW n \in Node, Shutdown(n)
    PROVE  TypeOK'
<1> USE DEF TypeOK
<1>0. 0 \in Version
  BY VersionAssumption DEF Version
<1>1. budget' \in [FaultKind -> Nat]
  BY SpendType DEF Shutdown, FaultKind
<1>2. calls' \in SUBSET Call
  <2>1. {c \in calls : c.from = n} \in SUBSET calls
    OBVIOUS
  <2> QED BY <2>1, AbandonType DEF Shutdown
<1>3. install' \in [Node -> InstallState]
  <2>1. [pc |-> "stopped", version |-> 0, keys |-> {}] \in InstallState
    BY <1>0 DEF InstallState, InstallPc
  <2> QED BY <2>1 DEF Shutdown
<1>4. flush' \in [Node -> [Flusher -> FlushState(Key)]]
  <2>1. [f \in Flusher |-> IdleFlush] \in [Flusher -> FlushState(Key)]
    BY IdleFlushType
  <2> QED BY <2>1 DEF Shutdown
<1>5. rflush' \in [Node -> FlushState(Loc)]
  BY IdleFlushType DEF Shutdown
<1>6. view' \in [Node -> [ViewName -> Version]]
  BY <1>0 DEF Shutdown
<1>7. stabQ' \in [Node -> SUBSET Key] /\ rebuildQ' \in [Node -> SUBSET Loc]
  BY DEF Shutdown
<1>8. rebuilds' \in SUBSET Rebuild /\ alive' \in SUBSET Node
  BY DEF Shutdown
<1> QED
  BY <1>1, <1>2, <1>3, <1>4, <1>5, <1>6, <1>7, <1>8 DEF Shutdown, aux

LEMMA BootType ==
    ASSUME TypeOK, NEW n \in Node, Boot(n)
    PROVE  TypeOK'
<1>1. install' \in [Node -> InstallState]
  <2>1. "idle" \in InstallPc
    BY DEF InstallPc
  <2> QED BY <2>1, InstallUpdate DEF Boot, TypeOK
<1>2. calls' \in SUBSET Call /\ alive' \in SUBSET Node
  BY DEF Boot, TypeOK
<1> QED BY <1>1, <1>2 DEF Boot, TypeOK, stabVars, rebuildVars, aux

LEMMA InitType == Init => TypeOK
<1> SUFFICES ASSUME Init PROVE TypeOK
  OBVIOUS
<1>0. history \in Histories /\ Start \in Version /\ 0 \in Version
  BY VersionAssumption DEF Init, Version
<1> DEFINE v(n) == IF n \in Map(Start).members \ Late THEN Start ELSE 0
<1>1. \A n \in Node : v(n) \in Version
  BY <1>0
<1>2. alive \in SUBSET Node
  BY DEF Init
<1>3. budget \in [FaultKind -> Nat]
  BY BudgetAssumption DEF Init
<1>4. view \in [Node -> [ViewName -> Version]]
  BY <1>1 DEF Init
<1>5. install \in [Node -> InstallState]
  <2> HIDE DEF v
  <2>1. \A n \in Node :
          [pc |-> "idle", version |-> v(n), keys |-> {}] \in InstallState
    BY <1>1 DEF InstallState, InstallPc
  <2>2. install = [n \in Node |->
                     [pc |-> "idle", version |-> v(n), keys |-> {}]]
    BY DEF Init, v
  <2> QED BY <2>1, <2>2
<1>6. flush \in [Node -> [Flusher -> FlushState(Key)]]
  BY IdleFlushType DEF Init
<1>7. rflush \in [Node -> FlushState(Loc)]
  BY IdleFlushType DEF Init
<1>8. create \in [Key -> CreateState]
  <2>1. \A pc \in {"acked", "idle"} :
          [pc |-> pc, node |-> NoNode, hv |-> 0, ok |-> 0] \in CreateState
    BY <1>0 DEF CreateState
  <2> QED BY <2>1 DEF Init
<1>9. /\ store \in [Node -> SUBSET Loc] /\ stabQ \in [Node -> SUBSET Key]
      /\ calls \in SUBSET Call /\ rebuildQ \in [Node -> SUBSET Loc]
      /\ rebuilds \in SUBSET Rebuild
      /\ written \in SUBSET Loc /\ exposed \in SUBSET Loc
  BY DEF Init
<1> QED
  BY <1>0, <1>2, <1>3, <1>4, <1>5, <1>6, <1>7, <1>8, <1>9 DEF TypeOK

\* Every step keeps the types.
LEMMA NextType == TypeOK /\ [Next]_vars => TypeOK'
<1> SUFFICES ASSUME TypeOK, [Next]_vars PROVE TypeOK'
  OBVIOUS
<1>1. ASSUME NEW n \in Node, NodeNext(n) PROVE TypeOK'
  BY <1>1, ClusterInType, PeerInType, StabilizerType, RebuildQueueType,
     IOFrontType DEF NodeNext
<1>2. ASSUME NEW n \in Node, FaultNext(n) PROVE TypeOK'
  BY <1>2, ClusterInType, PeerInType, StabilizerType, RebuildQueueType,
     IOFrontType, CrashType, ShutdownType, BootType DEF FaultNext
<1>3. ASSUME NEW c \in calls, LoseAbandoned(c) PROVE TypeOK'
  BY <1>3 DEF LoseAbandoned, TypeOK, world, maps, stabVars, rebuildVars, aux
<1>4. CASE UNCHANGED vars
  BY <1>4 DEF vars, TypeOK, world, maps, stabVars, rebuildVars, aux
<1> QED BY <1>1, <1>2, <1>3, <1>4 DEF Next

\* The variables of every reachable state have the types TypeOK gives them,
\* whatever the cluster, the histories of its map and the faults.
THEOREM TypeCorrect == Spec => []TypeOK
<1> QED BY InitType, NextType, PTL DEF Spec


------------------------------------------------------------------------------
(* -- The version gate -- *)

\* Inside a node no service runs ahead of the map being installed, and the
\* stabilizer never runs ahead of peer_in, which is told before it.  A node
\* that is shut down starts again with no map.
FanOutOrdered(n) ==
    /\ view[n].stab <= view[n].peer
    /\ view[n].peer <= install[n].version
    /\ install[n].pc \in {"rebuild", "stab"} =>
          view[n].peer = install[n].version
    /\ install[n].pc = "stopped" => view[n].peer = 0

GateInv ==
    /\ TypeOK
    /\ \A n \in Node : FanOutOrdered(n)
    /\ GateBeforeSend
    /\ GateHeldWhileSaving

\* The calls of a flush keep their sender and version, whatever becomes of
\* them, until they are dropped.
LEMMA AdvanceKeeps ==
    ASSUME calls \in SUBSET Call, NEW c \in calls, NEW st \in SendStatus,
           NEW d \in Advance(c, st)
    PROVE  \/ d \in calls
           \/ /\ d.from = c.from /\ d.to = c.to /\ d.by = c.by
              /\ d.loc = c.loc /\ d.version = c.version /\ d.data = c.data
              /\ d.reput = c.reput /\ d.st = st
BY DEF Advance, Call

LEMMA AbandonKeeps ==
    ASSUME calls \in SUBSET Call, NEW S \in SUBSET calls, NEW d \in Abandon(S)
    PROVE  \/ d \in calls
           \/ /\ d.by = "gone"
              /\ \E c \in calls : /\ d.to = c.to /\ d.version = c.version
                                  /\ d.st = c.st
BY DEF Abandon, Call

LEMMA MarkReputKeeps ==
    ASSUME NEW cs \in SUBSET Call, NEW n, NEW l, NEW d \in MarkReput(cs, n, l)
    PROVE  \E c \in cs :
              /\ d.from = c.from /\ d.to = c.to /\ d.by = c.by
              /\ d.loc = c.loc /\ d.version = c.version /\ d.data = c.data
              /\ d.st = c.st
              /\ ~d.reput => d = c /\ ~(/\ c.from = n /\ c.loc = l /\ c.data
                                        /\ c.by \in Flusher
                                        /\ c.st \in {"sent", "put", "ok"})
BY DEF MarkReput, Call

\* A call of the next state is new but harmless, or goes back to a call of
\* this state with the same sender, receiver and version.
Follows(d, c) ==
    /\ d.to = c.to /\ d.version = c.version
    /\ d.st = "put" => c.st = "put" \/ Accepts(c)
    /\ d.by \in Flusher => d.from = c.from /\ c.by = d.by

CallsFollow ==
    \A d \in calls' :
       \/ \E c \in calls : Follows(d, c)
       \/ /\ d.st # "put"
          /\ d.by \in Flusher => d.version = view[d.from].stab

\* Steps that leave the maps alone preserve the gate.
LEMMA GateKept ==
    ASSUME GateInv, TypeOK', UNCHANGED view, CallsFollow,
           alive' \in SUBSET alive,
           \A n \in Node : \/ UNCHANGED install[n]
                           \/ /\ install'[n].version >= install[n].version
                              /\ install'[n].pc \notin {"rebuild", "stab", "stopped"}
    PROVE  GateInv'
<1>1. \A n \in Node : FanOutOrdered(n)'
  <2> TAKE n \in Node
  <2>1. /\ view[n].peer \in Int /\ install[n].version \in Int
        /\ install'[n].version \in Int
    BY VersionAssumption DEF GateInv, TypeOK, InstallState, ViewName, Version
  <2>2. FanOutOrdered(n)
    BY DEF GateInv
  <2> QED BY <2>1, <2>2 DEF FanOutOrdered
<1>2. GateBeforeSend'
  <2> SUFFICES ASSUME NEW d \in calls', d.by \in Flusher
               PROVE  d.version <= view[d.from].peer
    BY DEF GateBeforeSend
  <2>1. CASE \E c \in calls : Follows(d, c)
    BY <2>1 DEF GateInv, GateBeforeSend, Follows
  <2>2. CASE d.version = view[d.from].stab
    <3>1. d.from \in Node
      BY DEF TypeOK, Call
    <3> QED BY <2>2, <3>1 DEF GateInv, FanOutOrdered
  <2> QED BY <2>1, <2>2 DEF CallsFollow
<1>3. GateHeldWhileSaving'
  <2> SUFFICES ASSUME NEW d \in calls', d.st = "put", d.to \in alive
               PROVE  d.version >= view[d.to].peer
    BY DEF GateHeldWhileSaving
  <2>1. PICK c \in calls : Follows(d, c)
    BY DEF CallsFollow
  <2> QED BY <2>1 DEF Follows, GateInv, GateHeldWhileSaving, Accepts
<1> QED BY <1>1, <1>2, <1>3 DEF GateInv

LEMMA SubsetFollows == ASSUME calls' \in SUBSET calls PROVE CallsFollow
BY DEF CallsFollow, Follows

LEMMA AdvanceFollows ==
    ASSUME TypeOK, NEW c \in calls, NEW st \in SendStatus \ {"put"},
           calls' = Advance(c, st)
    PROVE  CallsFollow
<1>1. \A d \in calls' : d \in calls \/ Follows(d, c)
  BY AdvanceKeeps DEF TypeOK, Follows
<1>2. \A d \in calls : Follows(d, d)
  BY DEF Follows
<1> QED BY <1>1, <1>2 DEF CallsFollow

LEMMA AbandonFollows ==
    ASSUME TypeOK, NEW S \in SUBSET calls, calls' = Abandon(S)
    PROVE  CallsFollow
<1>1. \A d \in calls' : d \in calls \/ \E c \in calls : Follows(d, c)
  BY AbandonKeeps DEF TypeOK, Follows, Flusher
<1>2. \A d \in calls : Follows(d, d)
  BY DEF Follows
<1> QED BY <1>1, <1>2 DEF CallsFollow

LEMMA MarkFollows ==
    ASSUME TypeOK, NEW n, NEW l, calls' = MarkReput(calls, n, l)
    PROVE  CallsFollow
<1>1. \A d \in calls' : \E c \in calls : Follows(d, c)
  BY MarkReputKeeps DEF TypeOK, Follows
<1> QED BY <1>1 DEF CallsFollow

LEMMA PutFollows ==
    ASSUME TypeOK, NEW n \in Node, NEW c \in calls, PutPiece(n, c)
    PROVE  CallsFollow
<1>1. Advance(c, "put") \in SUBSET Call
  BY AdvanceType DEF TypeOK, SendStatus
<1>2. \A e \in Advance(c, "put") : \E b \in calls : Follows(e, b)
  <2> TAKE e \in Advance(c, "put")
  <2>1. CASE e \in calls
    BY <2>1 DEF Follows
  <2>2. CASE e \notin calls
    <3>1. e.to = c.to /\ e.version = c.version /\ e.from = c.from /\ e.by = c.by
      BY <2>2, AdvanceKeeps DEF TypeOK, SendStatus
    <3> QED BY <3>1 DEF Follows, PutPiece
  <2> QED BY <2>1, <2>2
<1>3. ASSUME NEW d \in calls' PROVE \E b \in calls : Follows(d, b)
  <2>1. PICK e \in Advance(c, "put") :
           /\ d.from = e.from /\ d.to = e.to /\ d.by = e.by
           /\ d.version = e.version /\ d.st = e.st
    BY <1>1, MarkReputKeeps DEF PutPiece
  <2>2. PICK b \in calls : Follows(e, b)
    BY <1>2
  <2>3. Follows(d, b)
    BY <2>1, <2>2 DEF Follows
  <2> QED BY <2>3
<1> QED BY <1>3 DEF CallsFollow

LEMMA ReadClusterFollows ==
    ASSUME TypeOK, NEW n \in Node, NEW f \in Flusher, ReadCluster(n, f)
    PROVE  CallsFollow
<1>1. \A d \in Tasks(n, f, view[n].stab, flush[n][f].todo) :
          d.st = "get" /\ d.from = n /\ d.version = view[n].stab
  BY DEF Tasks
<1>2. \A d \in calls : Follows(d, d)
  BY DEF Follows
<1> QED BY <1>1, <1>2 DEF ReadCluster, CallsFollow

\* No step but SetNewCluster disturbs the gate, and it keeps it: it waits
\* for the pieces being saved, and reaches the stabilizer after peer_in.
LEMMA GateSetNewCluster ==
    ASSUME GateInv, TypeOK', NEW n \in Node, NEW i \in 1..Len(FanOut),
           SetNewCluster(n, i)
    PROVE  GateInv'
<1> USE DEF GateInv
<1>1. /\ \A m \in Node : /\ install[m].version \in Int
                         /\ view[m].peer \in Int /\ view[m].stab \in Int
      /\ \A d \in calls : d.from \in Node /\ d.to \in Node /\ d.version \in Int
  <2>1. Version \subseteq Int
    BY VersionAssumption DEF Version
  <2>2. \A m \in Node : install[m].version \in Version
    BY DEF TypeOK, InstallState
  <2>3. \A m \in Node : view[m].peer \in Version /\ view[m].stab \in Version
    BY DEF TypeOK, ViewName
  <2>4. \A d \in calls : d.from \in Node /\ d.to \in Node
                          /\ d.version \in Version
    BY DEF TypeOK, Call
  <2> QED BY <2>1, <2>2, <2>3, <2>4
<1>2. /\ FanOut = <<"io", "peer", "rebuild", "stab">>
      /\ i \in {1, 2, 3, 4} /\ Len(FanOut) = 4
  BY FanOutType DEF FanOut
<1>3. /\ install'[n].version = install[n].version
      /\ install'[n].pc = IF i < 4 THEN FanOut[i + 1] ELSE "keys"
      /\ \A m \in Node \ {n} : install'[m] = install[m] /\ view'[m] = view[m]
  BY <1>2 DEF SetNewCluster, TypeOK, InstallState
<1>4. /\ view'[n].peer = IF i = 2 THEN install[n].version ELSE view[n].peer
      /\ view'[n].stab = IF i = 4 THEN install[n].version ELSE view[n].stab
  BY <1>2 DEF SetNewCluster, TypeOK, ViewName
<1>5. FanOutOrdered(n) /\ install[n].pc = FanOut[i]
  BY DEF SetNewCluster
<1>6. FanOutOrdered(n)'
  BY <1>1, <1>2, <1>3, <1>4, <1>5 DEF FanOutOrdered
<1>7. \A m \in Node : FanOutOrdered(m)'
  BY <1>3, <1>6 DEF FanOutOrdered
<1>8. view'[n].peer >= view[n].peer
  BY <1>1, <1>4, <1>5 DEF FanOutOrdered
<1>9. calls' = calls /\ alive' = alive
  BY DEF SetNewCluster, world
<1>10. GateBeforeSend'
  <2> SUFFICES ASSUME NEW d \in calls, d.by \in Flusher
               PROVE  d.version <= view'[d.from].peer
    BY <1>9 DEF GateBeforeSend
  <2>1. d.version <= view[d.from].peer
    BY DEF GateBeforeSend
  <2>2. d.version \in Int /\ d.from \in Node
    BY <1>1
  <2>3. CASE d.from = n
    <3>1. view'[n].peer \in Int /\ view[n].peer \in Int
      BY <1>1, <1>4
    <3> QED BY <1>8, <2>1, <2>2, <2>3, <3>1
  <2>4. CASE d.from # n
    BY <1>3, <2>1, <2>2, <2>4
  <2> QED BY <2>3, <2>4
<1>11. GateHeldWhileSaving'
  <2> SUFFICES ASSUME NEW d \in calls, d.st = "put", d.to \in alive
               PROVE  d.version >= view'[d.to].peer
    BY <1>9 DEF GateHeldWhileSaving
  <2>1. CASE d.to # n \/ i # 2
    BY <1>1, <1>3, <1>4, <2>1 DEF GateHeldWhileSaving
  <2>2. CASE d.to = n /\ i = 2
    BY <1>2, <2>2 DEF SetNewCluster, LockFree
  <2> QED BY <2>1, <2>2
<1> QED BY <1>7, <1>10, <1>11

\* Progress of set_new_cluster outside the fan-out.
InstallMoves ==
    \A m \in Node : \/ UNCHANGED install[m]
                    \/ /\ install'[m].version >= install[m].version
                       /\ install'[m].pc \notin {"rebuild", "stab", "stopped"}

\* Setting the pc of a node keeps its version, setting a newer version too.
LEMMA InstallMovesTo ==
    ASSUME TypeOK, NEW n \in Node,
           install'[n].version = install[n].version,
           install'[n].pc \notin {"rebuild", "stab", "stopped"},
           \A m \in Node \ {n} : UNCHANGED install[m]
    PROVE  InstallMoves
<1>1. install[n].version \in Int
  BY VersionAssumption DEF TypeOK, InstallState, Version
<1> QED BY <1>1 DEF InstallMoves

LEMMA ReturnsMoves ==
    ASSUME TypeOK, NEW n \in Node, NEW f, Returns(n, f)
    PROVE  InstallMoves
BY InstallMovesTo DEF Returns, InstallMoves, TypeOK, InstallState

\* The gate, service by service.
LEMMA GateClusterIn ==
    ASSUME GateInv, TypeOK', NEW n \in Node,
           ClusterInNext(n) \/ ClusterInFault(n)
    PROVE  GateInv'
<1> USE DEF world, maps, stabVars, rebuildVars, aux
<1>1. FanOut[1] = "io"
  BY DEF FanOut
<1>2. TypeOK
  BY DEF GateInv
<1>3. ASSUME UNCHANGED <<view, calls, alive>>, InstallMoves PROVE GateInv'
  BY <1>3, SubsetFollows, GateKept DEF InstallMoves
<1>4. ASSUME NEW v \in Version, BeginInstall(n, v) PROVE GateInv'
  <2>1. install[n].version \in Int /\ v \in Int
    BY <1>2, VersionAssumption DEF TypeOK, InstallState, Version
  <2>2. InstallMoves
    BY <1>1, <1>2, <1>4, <2>1 DEF BeginInstall, InstallMoves, TypeOK
  <2> QED BY <1>3, <1>4, <2>2 DEF BeginInstall
<1>5. ASSUME Reapply(n) PROVE GateInv'
  <2>1. InstallMoves
    BY <1>1, <1>2, <1>5, InstallMovesTo DEF Reapply, TypeOK, InstallState
  <2> QED BY <1>3, <1>5, <2>1 DEF Reapply
<1>6. ASSUME KeysFails(n) PROVE GateInv'
  <2>1. InstallMoves
    BY <1>1, <1>2, <1>6, InstallMovesTo DEF KeysFails, TypeOK, InstallState
  <2> QED BY <1>3, <1>6, <2>1 DEF KeysFails
<1>7. ASSUME ReadKeys(n) PROVE GateInv'
  <2>1. InstallMoves
    BY <1>2, <1>7, InstallMovesTo DEF ReadKeys, TypeOK, InstallState
  <2> QED BY <1>3, <1>7, <2>1 DEF ReadKeys
<1>8. ASSUME ResetQueue(n) PROVE GateInv'
  <2>1. InstallMoves
    BY <1>2, <1>8, InstallMovesTo DEF ResetQueue, TypeOK, InstallState
  <2> QED BY <1>3, <1>8, <2>1 DEF ResetQueue
<1> QED
  BY <1>4, <1>5, <1>6, <1>7, <1>8, GateSetNewCluster
  DEF ClusterInNext, ClusterInFault

LEMMA GateStabilizer ==
    ASSUME GateInv, TypeOK', NEW n \in Node,
           StabilizerNext(n) \/ StabilizerFault(n)
    PROVE  GateInv'
<1> USE DEF world, maps, stabVars, rebuildVars, aux
<1>1. TypeOK
  BY DEF GateInv
<1>2. ASSUME UNCHANGED <<view, alive>>, InstallMoves, CallsFollow PROVE GateInv'
  BY <1>2, GateKept DEF InstallMoves
<1>3. UNCHANGED install => InstallMoves
  BY DEF InstallMoves
<1>4. ASSUME NEW f \in Flusher, Drain(n, f) PROVE GateInv'
  <2>1. InstallMoves
    <3>1. CASE install' = [install EXCEPT ![n].pc = "wait"]
      BY <1>1, <3>1, InstallMovesTo DEF TypeOK, InstallState
    <3>2. CASE UNCHANGED install
      BY <1>3, <3>2
    <3> QED BY <1>4, <3>1, <3>2 DEF Drain
  <2> QED BY <1>2, <1>4, <2>1, SubsetFollows DEF Drain
<1>5. ASSUME NEW f \in Flusher, ReadCluster(n, f) PROVE GateInv'
  BY <1>1, <1>2, <1>3, <1>5, ReadClusterFollows DEF ReadCluster
<1>6. ASSUME NEW c \in calls, GetPiece(n, c) PROVE GateInv'
  <2> DEFINE x == [c EXCEPT !.st = "sent", !.data = (c.loc \in store[n])]
  <2>1. c \in Call
    BY <1>1 DEF TypeOK
  <2>2. Follows(x, c)
    BY <2>1 DEF Call, Follows
  <2>3. \A d \in calls : Follows(d, d)
    BY DEF Follows
  <2>4. calls' = (calls \ {c}) \cup {x}
    BY <1>6 DEF GetPiece
  <2> HIDE DEF x
  <2>5. CallsFollow
    BY <2>2, <2>3, <2>4 DEF CallsFollow
  <2> QED BY <1>2, <1>3, <1>6, <2>5 DEF GetPiece
<1>7. ASSUME NEW c \in calls, DeletePiece(n, c) \/ DeleteFails(n, c)
      PROVE  GateInv'
  <2>1. calls' \in SUBSET calls
    BY <1>7 DEF DeletePiece, DeleteFails
  <2> QED BY <1>2, <1>3, <1>7, <2>1, SubsetFollows DEF DeletePiece, DeleteFails
<1>8. ASSUME NEW c \in calls, FailKey(n, c) PROVE GateInv'
  <2>1. {d \in CallsOf(n, c.by) : d.loc.key = c.loc.key} \in SUBSET calls
    BY DEF CallsOf
  <2>2. CallsFollow
    BY <1>1, <1>8, <2>1, AbandonFollows DEF FailKey
  <2> QED BY <1>2, <1>3, <1>8, <2>2 DEF FailKey
<1>9. ASSUME NEW c \in calls, SendRejected(n, c) PROVE GateInv'
  <2>1. CallsOf(n, c.by) \in SUBSET calls
    BY DEF CallsOf
  <2>2. CallsFollow
    BY <1>1, <1>9, <2>1, AbandonFollows DEF SendRejected
  <2>3. InstallMoves
    BY <1>1, <1>9, ReturnsMoves DEF SendRejected
  <2> QED BY <1>2, <1>9, <2>2, <2>3 DEF SendRejected
<1>10. ASSUME NEW f \in Flusher, FlushEnds(n, f) PROVE GateInv'
  <2>1. InstallMoves
    BY <1>1, <1>10, ReturnsMoves DEF FlushEnds
  <2> QED BY <1>2, <1>10, <2>1, SubsetFollows DEF FlushEnds
<1> QED
  BY <1>4, <1>5, <1>6, <1>7, <1>8, <1>9, <1>10
  DEF StabilizerNext, FlushNext, CallsOf, StabilizerFault, GetFails,
      SendFailed, SendLost

LEMMA GatePeerIn ==
    ASSUME GateInv, TypeOK', NEW n \in Node, PeerInNext(n) \/ PeerInFault(n)
    PROVE  GateInv'
<1> USE DEF world, maps, stabVars, rebuildVars, aux
<1>1. TypeOK
  BY DEF GateInv
<1>2. ASSUME UNCHANGED <<view, alive, install>>, CallsFollow PROVE GateInv'
  BY <1>2, GateKept
<1>3. ASSUME NEW c \in calls, NEW st \in {"rejected", "failed", "ok"},
             UNCHANGED <<view, alive, install>>, calls' = Advance(c, st)
      PROVE  GateInv'
  BY <1>1, <1>2, <1>3, AdvanceFollows DEF SendStatus
<1>4. ASSUME NEW c \in calls, RejectPiece(n, c) PROVE GateInv'
  BY <1>3, <1>4 DEF RejectPiece
<1>5. ASSUME NEW c \in calls, PutPiece(n, c) PROVE GateInv'
  BY <1>1, <1>2, <1>5, PutFollows DEF PutPiece
<1>6. ASSUME NEW c \in calls, PutFails(n, c) PROVE GateInv'
  BY <1>3, <1>6 DEF PutFails
<1>7. ASSUME NEW c \in calls, QueueTask(n, c) PROVE GateInv'
  BY <1>3, <1>7 DEF QueueTask
<1>8. ASSUME NEW c \in calls, QueueRebuild(n, c) PROVE GateInv'
  BY <1>3, <1>8 DEF QueueRebuild
<1> QED
  BY <1>4, <1>5, <1>6, <1>7, <1>8 DEF PeerInNext, PeerInFault

LEMMA GateIOFront ==
    ASSUME GateInv, TypeOK', NEW n \in Node, IOFrontNext(n) \/ IOFrontFault(n)
    PROVE  GateInv'
<1> USE DEF world, maps, stabVars, rebuildVars, aux
<1>1. TypeOK
  BY DEF GateInv
<1>2. ASSUME UNCHANGED <<view, alive, install>>, CallsFollow PROVE GateInv'
  BY <1>2, GateKept
<1>3. ASSUME NEW k \in Key, CreateBegins(n, k) \/ CreateReturns(n, k)
      PROVE  GateInv'
  BY <1>2, <1>3, SubsetFollows DEF CreateBegins, CreateReturns
<1>4. ASSUME NEW k \in Key, SendPieces(n, k) PROVE GateInv'
  <2>1. \A d \in calls' : d \in calls \/ (d.by = "create" /\ d.st = "sent")
    BY <1>4 DEF SendPieces
  <2>2. \A d \in calls : Follows(d, d)
    BY DEF Follows
  <2>3. CallsFollow
    BY <2>1, <2>2 DEF CallsFollow, Flusher
  <2> QED BY <1>2, <1>4, <2>3 DEF SendPieces
<1>5. ASSUME NEW c \in calls, CountOk(n, c) PROVE GateInv'
  <2>1. calls' \in SUBSET calls
    BY <1>5 DEF CountOk
  <2> QED BY <1>2, <1>5, <2>1, SubsetFollows DEF CountOk
<1>6. ASSUME NEW c \in calls, CountNotOk(n, c) \/ CreateLost(n, c)
      PROVE  GateInv'
  <2>1. calls' = Abandon({c})
    BY <1>6 DEF CountNotOk, CreateLost
  <2>2. CallsFollow
    BY <1>1, <2>1, AbandonFollows
  <2> QED BY <1>2, <1>6, <2>2 DEF CountNotOk, CreateLost
<1> QED
  BY <1>3, <1>4, <1>5, <1>6 DEF IOFrontNext, IOFrontFault

LEMMA GateRebuildQueue ==
    ASSUME GateInv, TypeOK', NEW n \in Node,
           RebuildQueueNext(n) \/ RebuildQueueFault(n)
    PROVE  GateInv'
<1> USE DEF world, maps, stabVars, rebuildVars, aux
<1>1. TypeOK
  BY DEF GateInv
<1>2. ASSUME NEW r \in rebuilds, StoreRebuilt(n, r) PROVE GateInv'
  <2>1. CallsFollow
    BY <1>1, <1>2, MarkFollows DEF StoreRebuilt
  <2> QED BY <1>2, <2>1, GateKept DEF StoreRebuilt
<1>3. ASSUME UNCHANGED <<view, alive, install, calls>> PROVE GateInv'
  BY <1>3, SubsetFollows, GateKept
<1>4. \/ \E r \in rebuilds : StoreRebuilt(n, r)
      \/ UNCHANGED <<view, alive, install, calls>>
  BY DEF RebuildQueueNext, RebuildQueueFault, DrainRebuilds,
         ReadRebuildCluster, PieceExists, AnyPieces, NoReply, Broadcast,
         RebuildFails, QueueRebuilt, RebuildFlushEnds, AskLost, RebuildIoFails
<1> QED BY <1>2, <1>3, <1>4

LEMMA GateCrash ==
    ASSUME GateInv, TypeOK', NEW n \in Node, Crash(n)
    PROVE  GateInv'
<1>1. TypeOK
  BY DEF GateInv
<1>2. {c \in calls : c.from = n} \in SUBSET calls
  OBVIOUS
<1>3. CallsFollow
  BY <1>1, <1>2, AbandonFollows DEF Crash
<1>4. InstallMoves
  <2>1. /\ install'[n].version = install[n].version
        /\ install'[n].pc = "idle"
        /\ \A m \in Node \ {n} : install'[m] = install[m]
    BY <1>1 DEF Crash, TypeOK, InstallState
  <2> QED BY <1>1, <2>1, InstallMovesTo
<1>5. UNCHANGED view /\ alive' \in SUBSET alive
  BY DEF Crash
<1> QED BY <1>3, <1>4, <1>5, GateKept DEF InstallMoves

LEMMA GateShutdown ==
    ASSUME GateInv, TypeOK', NEW n \in Node, Shutdown(n)
    PROVE  GateInv'
<1>1. TypeOK
  BY DEF GateInv
<1>2. /\ view'[n].peer = 0 /\ view'[n].stab = 0
      /\ install'[n].version = 0 /\ install'[n].pc = "stopped"
      /\ \A m \in Node \ {n} : view'[m] = view[m] /\ install'[m] = install[m]
  BY <1>1 DEF Shutdown, TypeOK, ViewName
<1>3. \A m \in Node : FanOutOrdered(m)'
  <2>1. FanOutOrdered(n)'
    BY <1>2 DEF FanOutOrdered
  <2>2. ASSUME NEW m \in Node \ {n} PROVE FanOutOrdered(m)'
    BY <1>2 DEF GateInv, FanOutOrdered
  <2> QED BY <2>1, <2>2
<1>4. \A d \in calls' : d.from \in Node /\ d.to \in Node
  BY DEF TypeOK, Call
<1>5. GateBeforeSend'
  <2> SUFFICES ASSUME NEW d \in calls', d.by \in Flusher
               PROVE  d.version <= view'[d.from].peer
    BY DEF GateBeforeSend
  <2>1. d \in calls /\ d.from # n
    BY <1>1 DEF Shutdown, Abandon, Flusher, TypeOK, Call
  <2> QED BY <1>2, <1>4, <2>1 DEF GateInv, GateBeforeSend
<1>6. GateHeldWhileSaving'
  <2> SUFFICES ASSUME NEW d \in calls', d.st = "put", d.to \in alive'
               PROVE  d.version >= view'[d.to].peer
    BY DEF GateHeldWhileSaving
  <2>1. d.to \in alive /\ d.to # n
    BY DEF Shutdown
  <2>2. {c \in calls : c.from = n} \in SUBSET calls
    OBVIOUS
  <2>3. d \in calls \/ \E c \in calls : /\ d.to = c.to /\ d.st = c.st
                                        /\ d.version = c.version
    <3>1. calls \in SUBSET Call
      BY <1>1 DEF TypeOK
    <3>2. d \in Abandon({c \in calls : c.from = n})
      BY DEF Shutdown
    <3> QED BY <2>2, <3>1, <3>2, AbandonKeeps
  <2>4. d.version >= view[d.to].peer
    BY <2>1, <2>3 DEF GateInv, GateHeldWhileSaving
  <2> QED BY <1>2, <1>4, <2>1, <2>4
<1> QED BY <1>3, <1>5, <1>6 DEF GateInv

LEMMA GateBoot ==
    ASSUME GateInv, TypeOK', NEW n \in Node, Boot(n)
    PROVE  GateInv'
<1>1. TypeOK
  BY DEF GateInv
<1>2. /\ install'[n].version = install[n].version /\ install'[n].pc = "idle"
      /\ \A m \in Node \ {n} : install'[m] = install[m]
  BY <1>1 DEF Boot, TypeOK, InstallState
<1>3. \A m \in Node : FanOutOrdered(m)'
  BY <1>2 DEF GateInv, FanOutOrdered, Boot
<1>4. GateBeforeSend'
  BY DEF GateInv, GateBeforeSend, Boot
<1>5. GateHeldWhileSaving'
  <2> SUFFICES ASSUME NEW d \in calls', d.st = "put", d.to \in alive'
               PROVE  d.version >= view[d.to].peer
    BY DEF GateHeldWhileSaving, Boot
  <2>1. CASE d.to # n
    BY <2>1 DEF GateInv, GateHeldWhileSaving, Boot
  <2>2. CASE d.to = n
    <3>1. view[n].peer = 0
      BY DEF GateInv, FanOutOrdered, Boot
    <3>2. d.version \in Nat
      BY VersionAssumption DEF TypeOK, Call, Version
    <3> QED BY <2>2, <3>1, <3>2
  <2> QED BY <2>1, <2>2
<1> QED BY <1>3, <1>4, <1>5 DEF GateInv

LEMMA GateStep == GateInv /\ [Next]_vars => GateInv'
<1> SUFFICES ASSUME GateInv, [Next]_vars PROVE GateInv'
  OBVIOUS
<1> USE DEF world, maps, stabVars, rebuildVars, aux
<1>0. TypeOK /\ TypeOK'
  BY NextType DEF GateInv
<1>1. ASSUME NEW n \in Node, NodeNext(n) \/ FaultNext(n) PROVE GateInv'
  BY <1>0, <1>1, GateClusterIn, GatePeerIn, GateStabilizer, GateRebuildQueue,
     GateIOFront, GateCrash, GateShutdown, GateBoot DEF NodeNext, FaultNext
<1>2. ASSUME UNCHANGED <<view, alive, install>>, calls' \in SUBSET calls
      PROVE  GateInv'
  BY <1>0, <1>2, SubsetFollows, GateKept
<1>3. ASSUME NEW c \in calls, LoseAbandoned(c) PROVE GateInv'
  <2>1. calls' \in SUBSET calls
    BY <1>3 DEF LoseAbandoned
  <2> QED BY <1>2, <1>3, <2>1 DEF LoseAbandoned
<1>4. CASE UNCHANGED vars
  BY <1>2, <1>4 DEF vars
<1> QED BY <1>1, <1>3, <1>4 DEF Next

LEMMA GateInit == Init => GateInv
<1> SUFFICES ASSUME Init PROVE GateInv
  OBVIOUS
<1>1. \A n \in Node : FanOutOrdered(n)
  <2> TAKE n \in Node
  <2> DEFINE v == IF n \in Map(Start).members \ Late THEN Start ELSE 0
  <2>1. /\ view[n].stab = v /\ view[n].peer = v /\ install[n].version = v
        /\ install[n].pc = "idle"
    BY DEF Init, ViewName
  <2>2. v \in Int
    BY VersionAssumption DEF Version
  <2> HIDE DEF v
  <2> QED BY <2>1, <2>2 DEF FanOutOrdered
<1>2. calls = {}
  BY DEF Init
<1> QED BY <1>1, <1>2, InitType DEF GateInv, GateBeforeSend, GateHeldWhileSaving

\* A node sends pieces under a map only after its own receiver refuses those
\* sent under older maps: set_new_cluster tells peer_in first (cluster_in.rs).
THEOREM GateBeforeSendHolds == Spec => []GateBeforeSend
<1>1. GateInv => GateBeforeSend
  BY DEF GateInv
<1> QED BY <1>1, GateInit, GateStep, PTL DEF Spec

\* While a piece is being saved the receiver's map does not overtake the one
\* it was sent under: save_piece holds its read guard to the end (peer_in.rs).
THEOREM GateHeldHolds == Spec => []GateHeldWhileSaving
<1>1. GateInv => GateHeldWhileSaving
  BY DEF GateInv
<1> QED BY <1>1, GateInit, GateStep, PTL DEF Spec

------------------------------------------------------------------------------
(* -- The loss of a piece -- *)

\* Call c, when its sender learns that it succeeded, deletes the copy of l at
\* n, and the model does not put that down to a copy stored again.
Dooms(c, n, l) ==
    /\ c.from = n /\ c.loc = l /\ c.by \in Flusher /\ c.data
    /\ c.st \in {"put", "ok"} /\ ~c.reput

\* A copy of l that no move under way is going to delete.
SafeCopy(n, l) == l \in store[n] /\ \A c \in calls : ~Dooms(c, n, l)

\* NoUnexplainedLoss, made inductive: every piece has a safe copy.
LossInv ==
    /\ TypeOK
    /\ \A l \in written \ exposed : \E n \in Node : SafeCopy(n, l)

\* No step of this kind endangers a copy: each call that dooms a copy after
\* it did so before.
NoNewDoom ==
    \A d \in calls', n \in Node, l \in Loc :
        Dooms(d, n, l) => \E c \in calls : Dooms(c, n, l)

LEMMA LossKept ==
    ASSUME LossInv, TypeOK', NoNewDoom, UNCHANGED <<store, written>>,
           exposed \subseteq exposed'
    PROVE  LossInv'
<1> SUFFICES ASSUME NEW l \in written \ exposed'
             PROVE  \E n \in Node : SafeCopy(n, l)'
  BY DEF LossInv
<1>1. PICK n \in Node : SafeCopy(n, l)
  BY DEF LossInv
<1>2. l \in Loc
  BY DEF LossInv, TypeOK
<1>3. \A d \in calls' : ~Dooms(d, n, l)
  BY <1>1, <1>2 DEF NoNewDoom, SafeCopy
<1>4. SafeCopy(n, l)'
  BY <1>1, <1>3 DEF SafeCopy, Dooms
<1> QED BY <1>4

LEMMA SubsetNoDoom == ASSUME calls' \in SUBSET calls PROVE NoNewDoom
BY DEF NoNewDoom

\* A reply dooms a copy only if it acknowledges a piece already put.
LEMMA AdvanceNoDoom ==
    ASSUME TypeOK, NEW c \in calls, NEW st \in SendStatus,
           calls' = Advance(c, st),
           st \in {"put", "ok"} => c.st = "put" \/ ~c.data
    PROVE  NoNewDoom
<1> SUFFICES ASSUME NEW d \in calls', NEW n \in Node, NEW l \in Loc,
                    Dooms(d, n, l), d \notin calls
             PROVE  Dooms(c, n, l)
  BY DEF NoNewDoom
<1>1. /\ d.from = c.from /\ d.by = c.by /\ d.loc = c.loc
      /\ d.data = c.data /\ d.reput = c.reput /\ d.st = st
  BY AdvanceKeeps DEF TypeOK
<1> QED BY <1>1 DEF Dooms

LEMMA AbandonNoDoom ==
    ASSUME TypeOK, NEW S \in SUBSET calls, calls' = Abandon(S)
    PROVE  NoNewDoom
BY AbandonKeeps DEF TypeOK, NoNewDoom, Dooms, Flusher

\* Storing a piece at n makes it safe there, as the moves under way from n
\* are marked, and leaves the other pieces alone.
LEMMA LossPut ==
    ASSUME LossInv, TypeOK', NEW n \in Node, NEW l \in Loc,
           NEW cs \in SUBSET Call,
           \A d \in cs, m \in Node, x \in Loc :
               Dooms(d, m, x) => x = l \/ \E c \in calls : Dooms(c, m, x),
           calls' = MarkReput(cs, n, l),
           store' = [store EXCEPT ![n] = @ \cup {l}],
           written' = written \cup {l}, UNCHANGED exposed
    PROVE  LossInv'
<1> SUFFICES ASSUME NEW x \in written' \ exposed
             PROVE  \E m \in Node : SafeCopy(m, x)'
  BY DEF LossInv
<1>1. \A m \in Node : store[m] \subseteq store'[m]
  BY DEF LossInv, TypeOK
<1>2. ASSUME NEW d \in calls', NEW m \in Node, NEW y \in Loc, Dooms(d, m, y)
      PROVE  d \in cs /\ ~(m = n /\ y = l)
  BY <1>2, MarkReputKeeps DEF Dooms
<1>3. CASE x = l
  <2>1. l \in store'[n]
    BY DEF LossInv, TypeOK
  <2>2. SafeCopy(n, l)'
    BY <1>2, <2>1 DEF SafeCopy, Dooms
  <2> QED BY <1>3, <2>2
<1>4. CASE x # l
  <2>1. x \in written \ exposed /\ x \in Loc
    BY <1>4 DEF LossInv, TypeOK
  <2>2. PICK m \in Node : SafeCopy(m, x)
    BY <2>1 DEF LossInv
  <2>3. \A d \in calls' : ~Dooms(d, m, x)
    BY <1>2, <1>4, <2>1, <2>2 DEF SafeCopy
  <2>4. SafeCopy(m, x)'
    BY <1>1, <2>2, <2>3 DEF SafeCopy, Dooms
  <2> QED BY <2>4
<1> QED BY <1>3, <1>4

LEMMA LossPeerIn ==
    ASSUME LossInv, TypeOK', NEW n \in Node, PeerInNext(n) \/ PeerInFault(n)
    PROVE  LossInv'
<1> USE DEF world, maps, stabVars, rebuildVars, aux
<1>1. TypeOK
  BY DEF LossInv
<1>2. ASSUME UNCHANGED <<store, written, exposed>>, NoNewDoom PROVE LossInv'
  BY <1>1, <1>2, LossKept
<1>3. ASSUME NEW c \in calls, RejectPiece(n, c) PROVE LossInv'
  BY <1>1, <1>2, <1>3, AdvanceNoDoom DEF RejectPiece, SendStatus
<1>4. ASSUME NEW c \in calls, PutFails(n, c) PROVE LossInv'
  BY <1>1, <1>2, <1>4, AdvanceNoDoom DEF PutFails, SendStatus
<1>5. ASSUME NEW c \in calls, QueueTask(n, c) PROVE LossInv'
  BY <1>1, <1>2, <1>5, AdvanceNoDoom DEF QueueTask, SendStatus
<1>6. ASSUME NEW c \in calls, QueueRebuild(n, c) PROVE LossInv'
  BY <1>1, <1>2, <1>6, AdvanceNoDoom DEF QueueRebuild, SendStatus
<1>7. ASSUME NEW c \in calls, PutPiece(n, c) PROVE LossInv'
  <2>1. c.loc \in Loc
    BY <1>1 DEF TypeOK, Call
  <2>2. Advance(c, "put") \in SUBSET Call
    BY <1>1, AdvanceType DEF TypeOK, SendStatus
  <2>3. ASSUME NEW d \in Advance(c, "put"), NEW m \in Node, NEW x \in Loc,
               Dooms(d, m, x), x # c.loc
        PROVE  d \in calls
    BY <1>1, <2>3, AdvanceKeeps DEF Dooms, TypeOK, SendStatus
  <2> QED BY <1>7, <2>1, <2>2, <2>3, LossPut DEF PutPiece
<1> QED
  BY <1>3, <1>4, <1>5, <1>6, <1>7 DEF PeerInNext, PeerInFault

\* The delete of a move: it doomed the copy it deletes, so the safe copy of
\* the piece is another one, unless the model has marked the piece.
LEMMA LossDelete ==
    ASSUME LossInv, TypeOK', NEW n \in Node, NEW c \in calls,
           DeletePiece(n, c)
    PROVE  LossInv'
<1> USE DEF world, maps, stabVars, rebuildVars, aux
<1>1. TypeOK
  BY DEF LossInv
<1>2. CASE ~c.data
  <2>1. NoNewDoom
    BY SubsetNoDoom DEF DeletePiece
  <2> QED BY <1>2, <2>1, LossKept DEF DeletePiece
<1>3. CASE c.data
  <2> SUFFICES ASSUME NEW l \in written' \ exposed'
               PROVE  \E m \in Node : SafeCopy(m, l)'
    BY DEF LossInv
  <2>1. l \in written \ exposed /\ (l = c.loc => ~c.reput)
    BY <1>3 DEF DeletePiece
  <2>2. PICK m \in Node : SafeCopy(m, l)
    BY <2>1 DEF LossInv
  <2>3. m = n => l # c.loc
    BY <1>3, <2>1, <2>2 DEF SafeCopy, Dooms, DeletePiece, Mine
  <2>4. l \in store'[m]
    BY <1>1, <1>3, <2>2, <2>3 DEF DeletePiece, SafeCopy, TypeOK
  <2>5. SafeCopy(m, l)'
    BY <2>2, <2>4 DEF DeletePiece, SafeCopy, Dooms
  <2> QED BY <2>5
<1> QED BY <1>2, <1>3

LEMMA LossStabilizer ==
    ASSUME LossInv, TypeOK', NEW n \in Node,
           StabilizerNext(n) \/ StabilizerFault(n)
    PROVE  LossInv'
<1> USE DEF world, maps, stabVars, rebuildVars, aux
<1>1. TypeOK
  BY DEF LossInv
<1>2. ASSUME UNCHANGED <<store, written, exposed>>, NoNewDoom PROVE LossInv'
  BY <1>1, <1>2, LossKept
<1>3. ASSUME NEW f \in Flusher, Drain(n, f) PROVE LossInv'
  BY <1>2, <1>3, SubsetNoDoom DEF Drain
<1>4. ASSUME NEW f \in Flusher, ReadCluster(n, f) PROVE LossInv'
  <2>1. \A d \in Tasks(n, f, view[n].stab, flush[n][f].todo) : d.st = "get"
    BY DEF Tasks
  <2>2. NoNewDoom
    BY <1>4, <2>1 DEF ReadCluster, NoNewDoom, Dooms
  <2> QED BY <1>2, <1>4, <2>2 DEF ReadCluster
<1>5. ASSUME NEW c \in calls, GetPiece(n, c) PROVE LossInv'
  <2> DEFINE x == [c EXCEPT !.st = "sent", !.data = (c.loc \in store[n])]
  <2>1. x.st = "sent"
    BY <1>1 DEF TypeOK, Call
  <2>2. calls' = (calls \ {c}) \cup {x}
    BY <1>5 DEF GetPiece
  <2> HIDE DEF x
  <2>3. NoNewDoom
    BY <2>1, <2>2 DEF NoNewDoom, Dooms
  <2> QED BY <1>2, <1>5, <2>3 DEF GetPiece
<1>6. ASSUME NEW c \in calls, DeleteFails(n, c) PROVE LossInv'
  BY <1>2, <1>6, SubsetNoDoom DEF DeleteFails
<1>7. ASSUME NEW c \in calls, FailKey(n, c) PROVE LossInv'
  <2>1. {d \in CallsOf(n, c.by) : d.loc.key = c.loc.key} \in SUBSET calls
    BY DEF CallsOf
  <2>2. NoNewDoom
    BY <1>1, <1>7, <2>1, AbandonNoDoom DEF FailKey
  <2> QED BY <1>2, <1>7, <2>2 DEF FailKey
<1>8. ASSUME NEW c \in calls, SendRejected(n, c) PROVE LossInv'
  <2>1. CallsOf(n, c.by) \in SUBSET calls
    BY DEF CallsOf
  <2>2. NoNewDoom
    BY <1>1, <1>8, <2>1, AbandonNoDoom DEF SendRejected
  <2> QED BY <1>2, <1>8, <2>2 DEF SendRejected
<1>9. ASSUME NEW f \in Flusher, FlushEnds(n, f) PROVE LossInv'
  BY <1>2, <1>9, SubsetNoDoom DEF FlushEnds
<1> QED
  BY <1>3, <1>4, <1>5, <1>6, <1>7, <1>8, <1>9, LossDelete
  DEF StabilizerNext, FlushNext, CallsOf, StabilizerFault, GetFails,
      SendFailed, SendLost

LEMMA LossIOFront ==
    ASSUME LossInv, TypeOK', NEW n \in Node, IOFrontNext(n) \/ IOFrontFault(n)
    PROVE  LossInv'
<1> USE DEF world, maps, stabVars, rebuildVars, aux
<1>1. TypeOK
  BY DEF LossInv
<1>2. ASSUME UNCHANGED <<store, written, exposed>>, NoNewDoom PROVE LossInv'
  BY <1>1, <1>2, LossKept
<1>3. ASSUME NEW k \in Key, CreateBegins(n, k) \/ CreateReturns(n, k)
      PROVE  LossInv'
  BY <1>2, <1>3, SubsetNoDoom DEF CreateBegins, CreateReturns
<1>4. ASSUME NEW k \in Key, SendPieces(n, k) PROVE LossInv'
  <2> DEFINE piece(l) == [from |-> n, by |-> "create",
                          to |-> HolderAt(create[k].hv, l), loc |-> l,
                          version |-> view[n].io, data |-> TRUE,
                          st |-> "sent", reput |-> FALSE]
  <2>1. \A l : piece(l).st = "sent"
    OBVIOUS
  <2>2. \A d \in calls' : d \in calls \/ \E l : d = piece(l)
    BY <1>4 DEF SendPieces
  <2> HIDE DEF piece
  <2>3. NoNewDoom
    BY <2>1, <2>2 DEF NoNewDoom, Dooms
  <2> QED BY <1>2, <1>4, <2>3 DEF SendPieces
<1>5. ASSUME NEW c \in calls, CountOk(n, c) PROVE LossInv'
  BY <1>2, <1>5, SubsetNoDoom DEF CountOk
<1>6. ASSUME NEW c \in calls, CountNotOk(n, c) \/ CreateLost(n, c)
      PROVE  LossInv'
  <2>1. calls' = Abandon({c})
    BY <1>6 DEF CountNotOk, CreateLost
  <2>2. NoNewDoom
    BY <1>1, <2>1, AbandonNoDoom
  <2> QED BY <1>2, <1>6, <2>2 DEF CountNotOk, CreateLost
<1> QED
  BY <1>3, <1>4, <1>5, <1>6 DEF IOFrontNext, IOFrontFault

LEMMA LossRebuildQueue ==
    ASSUME LossInv, TypeOK', NEW n \in Node,
           RebuildQueueNext(n) \/ RebuildQueueFault(n)
    PROVE  LossInv'
<1> USE DEF world, maps, stabVars, rebuildVars, aux
<1>1. ASSUME NEW r \in rebuilds, StoreRebuilt(n, r) PROVE LossInv'
  <2>1. r.loc \in Loc /\ calls \in SUBSET Call
    BY DEF LossInv, TypeOK, Rebuild
  <2> QED BY <1>1, <2>1, LossPut DEF StoreRebuilt
<1>2. ASSUME UNCHANGED <<store, written, exposed, calls>> PROVE LossInv'
  BY <1>2, SubsetNoDoom, LossKept
<1>3. \/ \E r \in rebuilds : StoreRebuilt(n, r)
      \/ UNCHANGED <<store, written, exposed, calls>>
  BY DEF RebuildQueueNext, RebuildQueueFault, DrainRebuilds,
         ReadRebuildCluster, PieceExists, AnyPieces, NoReply, Broadcast,
         RebuildFails, QueueRebuilt, RebuildFlushEnds, AskLost, RebuildIoFails
<1> QED BY <1>1, <1>2, <1>3

LEMMA LossCrash ==
    ASSUME LossInv, TypeOK', NEW n \in Node, Crash(n)
    PROVE  LossInv'
<1> SUFFICES ASSUME NEW l \in written' \ exposed'
             PROVE  \E m \in Node : SafeCopy(m, l)'
  BY DEF LossInv
<1>1. TypeOK
  BY DEF LossInv
<1>2. l \in written \ exposed /\ l \notin store[n]
  BY DEF Crash
<1>3. PICK m \in Node : SafeCopy(m, l)
  BY <1>2 DEF LossInv
<1>4. m # n /\ l \in store'[m]
  BY <1>1, <1>2, <1>3 DEF SafeCopy, Crash, TypeOK
<1>5. {c \in calls : c.from = n} \in SUBSET calls
  OBVIOUS
<1>6. NoNewDoom
  BY <1>1, <1>5, AbandonNoDoom DEF Crash
<1>7. l \in Loc
  BY <1>1, <1>2 DEF TypeOK
<1>8. SafeCopy(m, l)'
  BY <1>3, <1>4, <1>6, <1>7 DEF SafeCopy, NoNewDoom, Dooms
<1> QED BY <1>8

LEMMA LossStep == LossInv /\ [Next]_vars => LossInv'
<1> SUFFICES ASSUME LossInv, [Next]_vars PROVE LossInv'
  OBVIOUS
<1> USE DEF world, maps, stabVars, rebuildVars, aux
<1>0. TypeOK /\ TypeOK'
  BY NextType DEF LossInv
<1>1. ASSUME UNCHANGED <<store, written, exposed>>, calls' \in SUBSET calls
      PROVE  LossInv'
  BY <1>0, <1>1, SubsetNoDoom, LossKept
<1>2. ASSUME NEW n \in Node, ClusterInNext(n) \/ ClusterInFault(n)
      PROVE  LossInv'
  <2>1. UNCHANGED <<store, written, exposed, calls>>
    BY <1>2 DEF ClusterInNext, ClusterInFault, BeginInstall, Reapply,
                SetNewCluster, ReadKeys, KeysFails, ResetQueue
  <2> QED BY <1>1, <2>1
<1>3. ASSUME NEW n \in Node, Shutdown(n) PROVE LossInv'
  <2>1. {c \in calls : c.from = n} \in SUBSET calls
    OBVIOUS
  <2>2. NoNewDoom
    BY <1>0, <1>3, <2>1, AbandonNoDoom DEF Shutdown
  <2> QED BY <1>0, <1>3, <2>2, LossKept DEF Shutdown
<1>4. ASSUME NEW n \in Node, Boot(n) PROVE LossInv'
  <2>1. calls' \in SUBSET calls
    BY <1>4 DEF Boot
  <2> QED BY <1>1, <1>4, <2>1 DEF Boot
<1>5. ASSUME NEW n \in Node, NodeNext(n) \/ FaultNext(n) PROVE LossInv'
  BY <1>0, <1>2, <1>3, <1>4, <1>5, LossPeerIn, LossStabilizer, LossRebuildQueue,
     LossIOFront, LossCrash DEF NodeNext, FaultNext
<1>6. ASSUME NEW c \in calls, LoseAbandoned(c) PROVE LossInv'
  <2>1. calls' \in SUBSET calls
    BY <1>6 DEF LoseAbandoned
  <2> QED BY <1>1, <1>6, <2>1 DEF LoseAbandoned
<1>7. CASE UNCHANGED vars
  BY <1>1, <1>7 DEF vars
<1> QED BY <1>5, <1>6, <1>7 DEF Next

\* The pieces of the settled keys start at their holders; those of the nodes
\* that are down are explained.
LEMMA LossInit == Init => LossInv
<1> SUFFICES ASSUME Init PROVE LossInv
  OBVIOUS
<1>1. SUFFICES ASSUME NEW l \in written \ exposed
               PROVE  \E n \in Node : SafeCopy(n, l)
  BY InitType DEF LossInv
<1>2. /\ l \in Loc /\ l.key \in Settled /\ HolderAt(Start, l) # NoNode
      /\ HolderAt(Start, l) \notin Down
  BY DEF Init
<1>3. HolderAt(Start, l) \in Node
  BY <1>2, HolderAtType, VersionAssumption DEF Init
<1>4. l \in store[HolderAt(Start, l)] /\ calls = {}
  BY <1>2, <1>3 DEF Init
<1> QED BY <1>3, <1>4 DEF SafeCopy

\* A piece leaves the cluster only with a node that stops, or when a move
\* deletes a copy stored again since it was read (stabilizer.rs exec): no
\* other interleaving of moves, rebuilds, creates and failures loses one.
THEOREM NoUnexplainedLossHolds == Spec => []NoUnexplainedLoss
<1>1. LossInv => NoUnexplainedLoss
  BY DEF LossInv, NoUnexplainedLoss, SafeCopy, Held
<1> QED BY <1>1, LossInit, LossStep, PTL DEF Spec

------------------------------------------------------------------------------
(* -- What becomes of the calls, for the proofs that extend this module -- *)

\* Call d of the next state is what has become of call c.
Continues(d, c) ==
    /\ d.to = c.to /\ d.loc = c.loc /\ d.version = c.version
    /\ d.by \in Flusher => d.by = c.by /\ d.from = c.from
    /\ d.st = "rejected" => c.st = "rejected" \/ ~Accepts(c)

CallsContinue == \A d \in calls' : \E c \in calls : Continues(d, c)

LEMMA SubsetContinues == ASSUME calls' \in SUBSET calls PROVE CallsContinue
BY DEF CallsContinue, Continues

LEMMA AdvanceContinues ==
    ASSUME TypeOK, NEW c \in calls, NEW st \in SendStatus,
           st = "rejected" => ~Accepts(c)
    PROVE  \A d \in Advance(c, st) : \E b \in calls : Continues(d, b)
<1> TAKE d \in Advance(c, st)
<1>1. CASE d \in calls
  BY <1>1 DEF Continues
<1>2. CASE d \notin calls
  <2>1. Continues(d, c)
    BY <1>2, AdvanceKeeps DEF TypeOK, Continues
  <2> QED BY <2>1
<1> QED BY <1>1, <1>2

LEMMA AbandonContinues ==
    ASSUME TypeOK, NEW S \in SUBSET calls, calls' = Abandon(S)
    PROVE  CallsContinue
<1> SUFFICES ASSUME NEW d \in calls', d \notin calls
             PROVE  \E c \in calls : Continues(d, c)
  BY DEF CallsContinue, Continues
<1>1. PICK c \in S : d = [c EXCEPT !.by = "gone"]
  BY DEF Abandon
<1>2. c \in Call
  BY DEF TypeOK
<1>3. Continues(d, c)
  BY <1>1, <1>2 DEF Continues, Call, Flusher
<1> QED BY <1>3

LEMMA MarkContinues ==
    ASSUME NEW cs \in SUBSET Call, NEW n, NEW l, calls' = MarkReput(cs, n, l),
           \A d \in cs : \E c \in calls : Continues(d, c)
    PROVE  CallsContinue
<1> SUFFICES ASSUME NEW d \in calls' PROVE \E c \in calls : Continues(d, c)
  BY DEF CallsContinue
<1>1. PICK e \in cs : /\ d.from = e.from /\ d.to = e.to /\ d.by = e.by
                      /\ d.loc = e.loc /\ d.version = e.version /\ d.st = e.st
  BY MarkReputKeeps
<1>2. PICK c \in calls : Continues(e, c)
  OBVIOUS
<1>3. Continues(d, c)
  BY <1>1, <1>2 DEF Continues
<1> QED BY <1>3

==============================================================================
