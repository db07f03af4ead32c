------------------------ MODULE StorageDurabilityProofs ------------------------
(***************************************************************************)
(* What a client of Storage can rely on, for every set of nodes and keys,  *)
(* every history of cluster maps and every number of faults: a piece whose *)
(* holder never changes stays where it is until that node dies, one that   *)
(* moves once stays at one of its two nodes, and a key acknowledged by     *)
(* create has K pieces that are in stores or whose loss is explained.      *)
(***************************************************************************)
EXTENDS StorageProofs

------------------------------------------------------------------------------
(* -- A piece whose holder never changes -- *)

\* Every map that gives l a holder gives it to h.
HomeOnly(l, h) == \A v \in Version : HolderAt(v, l) \in {NoNode, h}

\* The process of h has died: its volume is not used again.
Crashed(h) == h \notin alive /\ install[h].pc # "stopped"

\* A piece that only h may hold is nowhere else, and once stored it stays at
\* h as long as h does not die, whatever else moves, fails or restarts.
UnmovedPieceStays ==
    \A l \in Loc, h \in Node : HomeOnly(l, h) =>
        /\ \A n \in Node \ {h} : l \notin store[n]
        /\ l \in written => l \in store[h] \/ Crashed(h)

\* Made inductive: every call about l goes to h, the flushes of h leave l
\* alone, and only h rebuilds it.
HomeCall(c, h) == c.to = h /\ (c.by \in Flusher => c.from # h)

HomeTasks(l, n) ==
    /\ l \notin rebuildQ[n] /\ l \notin rflush[n].todo
    /\ l \notin rflush[n].failed
    /\ \A r \in rebuilds : r.node = n => r.loc # l

AtHome(l, h) ==
    /\ \A c \in calls : c.loc = l => HomeCall(c, h)
    /\ \A n \in Node \ {h} : HomeTasks(l, n) /\ l \notin store[n]
    /\ l \in written => l \in store[h] \/ Crashed(h)

HomeInv ==
    /\ TypeOK
    /\ \A l \in Loc, h \in Node : HomeOnly(l, h) => AtHome(l, h)

\* The calls of a step that are about l.
HomeCalls(l, h) == \A d \in calls' : d.loc = l => HomeCall(d, h)

LEMMA HomeCallsKept ==
    ASSUME NEW l \in Loc, NEW h \in Node, AtHome(l, h), CallsContinue
    PROVE  HomeCalls(l, h)
BY DEF AtHome, CallsContinue, Continues, HomeCalls, HomeCall

\* A step that stores nothing, deletes nothing and stops no node.
LEMMA HomeKept ==
    ASSUME NEW l \in Loc, NEW h \in Node, AtHome(l, h), HomeCalls(l, h),
           UNCHANGED <<store, written>>,
           \A n \in Node \ {h} : HomeTasks(l, n)',
           Crashed(h) => Crashed(h)'
    PROVE  AtHome(l, h)'
BY DEF AtHome, HomeCalls, HomeCall

LEMMA HomePeerIn ==
    ASSUME TypeOK, NEW l \in Loc, NEW h \in Node, AtHome(l, h),
           NEW n \in Node, PeerInNext(n) \/ PeerInFault(n)
    PROVE  AtHome(l, h)'
<1> USE DEF world, maps, stabVars, rebuildVars, aux
<1>1. UNCHANGED <<alive, install>>
  BY DEF PeerInNext, PeerInFault, RejectPiece, PutPiece, QueueTask,
         QueueRebuild, PutFails
<1>2. ASSUME UNCHANGED <<store, written, rebuildVars>>, CallsContinue
      PROVE  AtHome(l, h)'
  BY <1>1, <1>2, HomeCallsKept, HomeKept DEF AtHome, HomeTasks, Crashed
<1>3. ASSUME NEW c \in calls, RejectPiece(n, c) PROVE AtHome(l, h)'
  <2>1. CallsContinue
    BY <1>3, AdvanceContinues DEF RejectPiece, Arrived, SendStatus, CallsContinue
  <2> QED BY <1>2, <1>3, <2>1 DEF RejectPiece
<1>4. ASSUME NEW c \in calls, QueueTask(n, c) PROVE AtHome(l, h)'
  <2>1. CallsContinue
    BY <1>4, AdvanceContinues DEF QueueTask, SendStatus, CallsContinue
  <2> QED BY <1>2, <1>4, <2>1 DEF QueueTask
<1>5. ASSUME NEW c \in calls, PutFails(n, c) PROVE AtHome(l, h)'
  <2>1. CallsContinue
    BY <1>5, AdvanceContinues DEF PutFails, SendStatus, CallsContinue
  <2> QED BY <1>2, <1>5, <2>1 DEF PutFails
<1>6. ASSUME NEW c \in calls, QueueRebuild(n, c) PROVE AtHome(l, h)'
  <2>1. CallsContinue
    BY <1>6, AdvanceContinues DEF QueueRebuild, SendStatus, CallsContinue
  <2>2. c.loc = l => n = h
    BY <1>6 DEF QueueRebuild, Arrived, AtHome, HomeCall
  <2>3. \A m \in Node \ {h} : HomeTasks(l, m)'
    BY <1>6, <2>2 DEF QueueRebuild, AtHome, HomeTasks, TypeOK
  <2> QED
    BY <1>1, <1>6, <2>1, <2>3, HomeCallsKept, HomeKept DEF QueueRebuild, Crashed
<1>7. ASSUME NEW c \in calls, PutPiece(n, c) PROVE AtHome(l, h)'
  <2>1. CallsContinue
    <3>1. Advance(c, "put") \in SUBSET Call
      BY AdvanceType DEF TypeOK, SendStatus
    <3>2. \A d \in Advance(c, "put") : \E b \in calls : Continues(d, b)
      BY AdvanceContinues DEF SendStatus
    <3> QED BY <1>7, <3>1, <3>2, MarkContinues DEF PutPiece
  <2>2. HomeCalls(l, h)
    BY <2>1, HomeCallsKept
  <2>3. c.loc = l => n = h
    BY <1>7 DEF PutPiece, Arrived, AtHome, HomeCall
  <2>4. \A m \in Node : store'[m] = IF m = n THEN store[m] \cup {c.loc}
                                             ELSE store[m]
    BY <1>7 DEF PutPiece, TypeOK
  <2>5. \A m \in Node \ {h} : HomeTasks(l, m)' /\ l \notin store'[m]
    BY <1>7, <2>3, <2>4 DEF PutPiece, AtHome, HomeTasks
  <2>6. l \in written' => l \in store'[h] \/ Crashed(h)'
    BY <1>1, <1>7, <2>3, <2>4 DEF PutPiece, AtHome, Crashed
  <2> QED BY <2>2, <2>5, <2>6 DEF AtHome, HomeCalls, HomeCall
<1> QED
  BY <1>3, <1>4, <1>5, <1>6, <1>7 DEF PeerInNext, PeerInFault

\* The stabilizer works at a live node and may end the install there.
LEMMA StabilizerFrame ==
    ASSUME TypeOK, NEW n \in Node, StabilizerNext(n) \/ StabilizerFault(n)
    PROVE  /\ n \in alive /\ UNCHANGED <<alive, rebuildVars, written>>
           /\ \A m \in Node \ {n} : install'[m] = install[m]
<1> USE DEF world, maps, stabVars, rebuildVars, aux
<1>1. ASSUME NEW f \in Flusher,
             Drain(n, f) \/ ReadCluster(n, f) \/ FlushEnds(n, f)
      PROVE  /\ n \in alive /\ UNCHANGED <<alive, rebuildVars, written>>
             /\ install' = install \/ \E pc : install' = [install EXCEPT ![n].pc = pc]
  BY <1>1 DEF Drain, ReadCluster, FlushEnds, Returns
<1>2. ASSUME NEW c \in calls, \/ GetPiece(n, c) \/ DeletePiece(n, c)
                              \/ DeleteFails(n, c) \/ SendRejected(n, c)
      PROVE  /\ n \in alive /\ UNCHANGED <<alive, rebuildVars, written>>
             /\ install' = install \/ \E pc : install' = [install EXCEPT ![n].pc = pc]
  BY <1>2 DEF GetPiece, DeletePiece, DeleteFails, SendRejected, Returns, Mine
<1>3. ASSUME NEW c \in calls, GetFails(n, c) \/ SendFailed(n, c) \/ SendLost(n, c)
      PROVE  n \in alive /\ UNCHANGED <<alive, rebuildVars, written, install>>
  BY <1>3 DEF GetFails, SendFailed, SendLost, FailKey, Mine
<1>4. /\ n \in alive /\ UNCHANGED <<alive, rebuildVars, written>>
      /\ install' = install \/ \E pc : install' = [install EXCEPT ![n].pc = pc]
  BY <1>1, <1>2, <1>3
  DEF StabilizerNext, StabilizerFault, FlushNext, CallsOf
<1>5. \A m \in Node \ {n} : install'[m] = install[m]
  BY <1>4 DEF TypeOK
<1> QED BY <1>4, <1>5

\* A move of l starts elsewhere, so what it deletes is not the copy at h.
LEMMA HomeStabilizer ==
    ASSUME TypeOK, NEW l \in Loc, NEW h \in Node, AtHome(l, h), HomeOnly(l, h),
           NEW n \in Node, StabilizerNext(n) \/ StabilizerFault(n)
    PROVE  AtHome(l, h)'
<1> USE DEF world, maps, stabVars, rebuildVars, aux
<1>1. UNCHANGED <<alive, rebuildVars, written>> /\ n \in alive
  BY StabilizerFrame
<1>2. Crashed(h) => Crashed(h)'
  BY <1>1, StabilizerFrame DEF Crashed
<1>3. ASSUME HomeCalls(l, h), UNCHANGED store PROVE AtHome(l, h)'
  <2>1. \A m \in Node \ {h} : HomeTasks(l, m)'
    BY <1>1 DEF AtHome, HomeTasks
  <2> QED BY <1>1, <1>2, <1>3, <2>1, HomeKept
<1>4. ASSUME CallsContinue, UNCHANGED store PROVE AtHome(l, h)'
  BY <1>3, <1>4, HomeCallsKept
<1>5. ASSUME NEW f \in Flusher, Drain(n, f) \/ FlushEnds(n, f)
      PROVE  AtHome(l, h)'
  BY <1>4, <1>5, SubsetContinues DEF Drain, FlushEnds
<1>6. ASSUME NEW f \in Flusher, ReadCluster(n, f) PROVE AtHome(l, h)'
  <2>1. view[n].stab \in Version
    BY DEF TypeOK, ViewName
  <2>2. \A d \in Tasks(n, f, view[n].stab, flush[n][f].todo) :
           d.loc = l => HomeCall(d, h)
    BY <2>1 DEF Tasks, HomeOnly, HomeCall
  <2>3. HomeCalls(l, h)
    BY <1>6, <2>2 DEF ReadCluster, HomeCalls, AtHome
  <2> QED BY <1>3, <1>6, <2>3 DEF ReadCluster
<1>7. ASSUME NEW c \in calls, GetPiece(n, c) PROVE AtHome(l, h)'
  <2> DEFINE x == [c EXCEPT !.st = "sent", !.data = (c.loc \in store[n])]
  <2>1. x.loc = c.loc /\ x.to = c.to /\ x.by = c.by /\ x.from = c.from
    BY DEF TypeOK, Call
  <2>2. calls' = (calls \ {c}) \cup {x}
    BY <1>7 DEF GetPiece
  <2> HIDE DEF x
  <2>3. HomeCalls(l, h)
    BY <2>1, <2>2 DEF HomeCalls, AtHome, HomeCall
  <2> QED BY <1>3, <1>7, <2>3 DEF GetPiece
<1>8. ASSUME NEW c \in calls, DeletePiece(n, c) PROVE AtHome(l, h)'
  <2>1. HomeCalls(l, h)
    BY <1>8, SubsetContinues, HomeCallsKept DEF DeletePiece
  <2>2. c.loc = l => n # h
    BY <1>8 DEF DeletePiece, Mine, AtHome, HomeCall
  <2>3. \A m \in Node : /\ store'[m] \subseteq store[m]
                        /\ l \in store[m] /\ m = h => l \in store'[m]
    BY <1>8, <2>2 DEF DeletePiece, TypeOK
  <2>4. \A m \in Node \ {h} : HomeTasks(l, m)' /\ l \notin store'[m]
    BY <1>1, <2>3 DEF AtHome, HomeTasks
  <2>5. l \in written' => l \in store'[h] \/ Crashed(h)'
    BY <1>1, <1>2, <2>3 DEF AtHome
  <2> QED BY <2>1, <2>4, <2>5 DEF AtHome, HomeCalls, HomeCall
<1>9. ASSUME NEW c \in calls, DeleteFails(n, c) PROVE AtHome(l, h)'
  BY <1>4, <1>9, SubsetContinues DEF DeleteFails
<1>10. ASSUME NEW c \in calls, FailKey(n, c) PROVE AtHome(l, h)'
  <2>1. {d \in CallsOf(n, c.by) : d.loc.key = c.loc.key} \in SUBSET calls
    BY DEF CallsOf
  <2>2. CallsContinue
    BY <1>10, <2>1, AbandonContinues DEF FailKey
  <2> QED BY <1>4, <1>10, <2>2 DEF FailKey
<1>11. ASSUME NEW c \in calls, SendRejected(n, c) PROVE AtHome(l, h)'
  <2>1. CallsOf(n, c.by) \in SUBSET calls
    BY DEF CallsOf
  <2>2. CallsContinue
    BY <1>11, <2>1, AbandonContinues DEF SendRejected
  <2> QED BY <1>4, <1>11, <2>2 DEF SendRejected
<1> QED
  BY <1>5, <1>6, <1>7, <1>8, <1>9, <1>10, <1>11
  DEF StabilizerNext, FlushNext, CallsOf, StabilizerFault, GetFails,
      SendFailed, SendLost

LEMMA HomeIOFront ==
    ASSUME TypeOK, NEW l \in Loc, NEW h \in Node, AtHome(l, h), HomeOnly(l, h),
           NEW n \in Node, IOFrontNext(n) \/ IOFrontFault(n)
    PROVE  AtHome(l, h)'
<1> USE DEF world, maps, stabVars, rebuildVars, aux
<1>1. UNCHANGED <<alive, install, store, written, rebuildVars>>
  BY DEF IOFrontNext, IOFrontFault, CreateBegins, SendPieces, CountOk,
         CountNotOk, CreateLost, CreateReturns
<1>2. ASSUME HomeCalls(l, h) PROVE AtHome(l, h)'
  BY <1>1, <1>2, HomeKept DEF AtHome, HomeTasks, Crashed
<1>3. ASSUME NEW k \in Key, CreateBegins(n, k) \/ CreateReturns(n, k)
      PROVE  HomeCalls(l, h)
  BY <1>3, SubsetContinues, HomeCallsKept DEF CreateBegins, CreateReturns
<1>4. ASSUME NEW k \in Key, SendPieces(n, k) PROVE HomeCalls(l, h)
  <2> DEFINE piece(x) == [from |-> n, by |-> "create",
                          to |-> HolderAt(create[k].hv, x), loc |-> x,
                          version |-> view[n].io, data |-> TRUE,
                          st |-> "sent", reput |-> FALSE]
  <2>1. \A d \in calls' : \/ d \in calls
                          \/ \E x : d = piece(x) /\ HolderAt(create[k].hv, x) # NoNode
    BY <1>4 DEF SendPieces
  <2>2. \A x : /\ piece(x).loc = x /\ piece(x).by = "create"
               /\ piece(x).to = HolderAt(create[k].hv, x)
    OBVIOUS
  <2> HIDE DEF piece
  <2>3. create[k].hv \in Version
    BY DEF TypeOK, CreateState
  <2>4. HolderAt(create[k].hv, l) # NoNode => HolderAt(create[k].hv, l) = h
    BY <2>3 DEF HomeOnly
  <2> QED BY <2>1, <2>2, <2>4 DEF HomeCalls, AtHome, HomeCall, Flusher
<1>5. ASSUME NEW c \in calls, CountOk(n, c) PROVE HomeCalls(l, h)
  BY <1>5, SubsetContinues, HomeCallsKept DEF CountOk
<1>6. ASSUME NEW c \in calls, CountNotOk(n, c) \/ CreateLost(n, c)
      PROVE  HomeCalls(l, h)
  <2>1. calls' = Abandon({c})
    BY <1>6 DEF CountNotOk, CreateLost
  <2> QED BY <2>1, AbandonContinues, HomeCallsKept
<1> QED
  BY <1>2, <1>3, <1>4, <1>5, <1>6 DEF IOFrontNext, IOFrontFault

\* A node without a task to rebuild l gets none from its rebuild queue.
LEMMA TasksKept ==
    ASSUME TypeOK, NEW l \in Loc, NEW m \in Node, HomeTasks(l, m),
           NEW n \in Node, RebuildQueueNext(n) \/ RebuildQueueFault(n)
    PROVE  HomeTasks(l, m)'
<1> USE DEF rebuildVars
\* A rebuild that goes on is about the same piece at the same node.
<1>1. ASSUME NEW r \in rebuilds, NEW new,
             new.node = r.node, new.loc = r.loc, Become(r, new),
             UNCHANGED <<rebuildQ, rflush>>
      PROVE  HomeTasks(l, m)'
  BY <1>1 DEF Become, HomeTasks
<1>2. ASSUME UNCHANGED <<rebuildQ, rflush>>, rebuilds' \in SUBSET rebuilds
      PROVE  HomeTasks(l, m)'
  BY <1>2 DEF HomeTasks
<1>3. ASSUME NEW r \in rebuilds, RebuildFails(n, r) \/ RebuildIoFails(n, r)
      PROVE  HomeTasks(l, m)'
  <2>1. /\ r.node = n /\ Gone(r) /\ UNCHANGED rebuildQ
        /\ rflush' = [rflush EXCEPT ![n].failed = @ \cup {r.loc}]
    BY <1>3 DEF RebuildFails, RebuildIoFails, Runs
  <2>2. r.loc = l => n # m
    BY <2>1 DEF HomeTasks
  <2>3. /\ n # m => rflush'[m] = rflush[m]
        /\ rflush'[n].todo = rflush[n].todo
        /\ rflush'[n].failed = rflush[n].failed \cup {r.loc}
    BY <2>1 DEF TypeOK, FlushState
  <2> QED BY <2>1, <2>2, <2>3 DEF Gone, HomeTasks
<1>4. ASSUME DrainRebuilds(n) PROVE HomeTasks(l, m)'
  <2>1. /\ n # m => rflush'[m] = rflush[m]
        /\ rflush'[n].todo = rebuildQ[n] /\ rflush'[n].failed = {}
        /\ rebuildQ'[m] \subseteq rebuildQ[m]
    BY <1>4 DEF DrainRebuilds, TypeOK
  <2> QED BY <1>4, <2>1 DEF DrainRebuilds, HomeTasks
<1>5. ASSUME ReadRebuildCluster(n) PROVE HomeTasks(l, m)'
  <2>1. \A r \in rebuilds' : \/ r \in rebuilds
                             \/ r.node = n /\ r.loc \in rflush[n].todo
    BY <1>5 DEF ReadRebuildCluster
  <2>2. /\ n # m => rflush'[m] = rflush[m]
        /\ rflush'[n].todo = {} /\ rflush'[n].failed = rflush[n].failed
    BY <1>5 DEF ReadRebuildCluster, TypeOK, FlushState
  <2> QED BY <1>5, <2>1, <2>2 DEF ReadRebuildCluster, HomeTasks
<1>6. ASSUME RebuildFlushEnds(n) PROVE HomeTasks(l, m)'
  <2>1. /\ n # m => rflush'[m] = rflush[m] /\ rebuildQ'[m] = rebuildQ[m]
        /\ rflush'[n].todo = {} /\ rflush'[n].failed = {}
        /\ rebuildQ'[n] = rebuildQ[n] \cup rflush[n].failed
    BY <1>6 DEF RebuildFlushEnds, TypeOK, IdleFlush
  <2> QED BY <1>6, <2>1 DEF RebuildFlushEnds, HomeTasks
<1>7. ASSUME NEW r \in rebuilds,
             PieceExists(n, r) \/ AnyPieces(n, r) \/ NoReply(n, r)
                \/ Broadcast(n, r) \/ AskLost(n, r) \/ StoreRebuilt(n, r)
      PROVE  HomeTasks(l, m)'
  <2>1. r \in Rebuild
    BY DEF TypeOK
  <2>2. CASE Gone(r)
    BY <1>2, <1>7, <2>2 DEF Gone, PieceExists, AnyPieces, NoReply, Broadcast,
                            AskLost, StoreRebuilt
  <2>3. CASE \E new : /\ new.node = r.node /\ new.loc = r.loc
                      /\ Become(r, new)
    BY <1>1, <1>7, <2>3 DEF PieceExists, AnyPieces, NoReply, Broadcast, AskLost,
                            StoreRebuilt
  <2>4. Gone(r) \/ \E new : /\ new.node = r.node /\ new.loc = r.loc
                            /\ Become(r, new)
    BY <1>7, <2>1 DEF PieceExists, AnyPieces, NoReply, Broadcast, AskLost,
                      StoreRebuilt, Rebuild
  <2> QED BY <2>2, <2>3, <2>4
<1>8. ASSUME NEW r \in rebuilds, QueueRebuilt(n, r) PROVE HomeTasks(l, m)'
  BY <1>2, <1>8 DEF QueueRebuilt, Gone
<1> QED
  BY <1>3, <1>4, <1>5, <1>6, <1>7, <1>8
  DEF RebuildQueueNext, RebuildQueueFault

\* The rebuild queue stores a piece its node has a task for, and stops nobody.
LEMMA RebuildFrame ==
    ASSUME TypeOK, NEW n \in Node, RebuildQueueNext(n) \/ RebuildQueueFault(n)
    PROVE  /\ UNCHANGED <<alive, install, view, create>>
           /\ \/ UNCHANGED <<store, written, calls>>
              \/ \E r \in rebuilds : StoreRebuilt(n, r)
<1> USE DEF world, maps, stabVars, rebuildVars, aux
<1>1. UNCHANGED <<alive, install, view, create>>
  BY DEF RebuildQueueNext, RebuildQueueFault, DrainRebuilds,
         ReadRebuildCluster, PieceExists, AnyPieces, NoReply, Broadcast,
         RebuildFails, StoreRebuilt, QueueRebuilt, RebuildFlushEnds, AskLost,
         RebuildIoFails
<1>2. \/ \E r \in rebuilds : StoreRebuilt(n, r)
      \/ UNCHANGED <<store, written, calls>>
  BY DEF RebuildQueueNext, RebuildQueueFault, DrainRebuilds,
         ReadRebuildCluster, PieceExists, AnyPieces, NoReply, Broadcast,
         RebuildFails, QueueRebuilt, RebuildFlushEnds, AskLost, RebuildIoFails
<1> QED BY <1>1, <1>2

LEMMA HomeRebuildQueue ==
    ASSUME TypeOK, NEW l \in Loc, NEW h \in Node, AtHome(l, h),
           NEW n \in Node, RebuildQueueNext(n) \/ RebuildQueueFault(n)
    PROVE  AtHome(l, h)'
<1>1. UNCHANGED <<alive, install>>
  BY RebuildFrame
<1>2. Crashed(h) <=> Crashed(h)'
  BY <1>1 DEF Crashed
<1>3. \A m \in Node \ {h} : HomeTasks(l, m)'
  BY TasksKept DEF AtHome
<1>4. ASSUME UNCHANGED <<store, written, calls>> PROVE AtHome(l, h)'
  BY <1>2, <1>3, <1>4, SubsetContinues, HomeCallsKept, HomeKept
<1>5. ASSUME NEW r \in rebuilds, StoreRebuilt(n, r) PROVE AtHome(l, h)'
  <2>1. r.loc = l => n = h
    BY <1>5 DEF StoreRebuilt, Runs, AtHome, HomeTasks
  <2>2. \A m \in Node : store'[m] = IF m = n THEN store[m] \cup {r.loc}
                                             ELSE store[m]
    BY <1>5 DEF StoreRebuilt, TypeOK
  <2>3. CallsContinue
    BY <1>5, MarkContinues DEF StoreRebuilt, TypeOK, Continues
  <2>4. HomeCalls(l, h)
    BY <2>3, HomeCallsKept
  <2>5. \A m \in Node \ {h} : l \notin store'[m]
    BY <2>1, <2>2 DEF AtHome
  <2>6. l \in written' => l \in store'[h] \/ Crashed(h)'
    BY <1>2, <1>5, <2>1, <2>2 DEF StoreRebuilt, AtHome
  <2> QED BY <1>3, <2>4, <2>5, <2>6 DEF AtHome, HomeCalls, HomeCall
<1> QED BY <1>4, <1>5, RebuildFrame

\* A node that dies is crashed; one that is shut down keeps its store.
LEMMA HomeStops ==
    ASSUME TypeOK, NEW l \in Loc, NEW h \in Node, AtHome(l, h),
           NEW n \in Node, Crash(n) \/ Shutdown(n) \/ Boot(n)
    PROVE  AtHome(l, h)'
<1>1. CallsContinue
  <2>1. {c \in calls : c.from = n} \in SUBSET calls
    OBVIOUS
  <2> QED
    BY <2>1, AbandonContinues, SubsetContinues DEF Crash, Shutdown, Boot
<1>2. HomeCalls(l, h)
  BY <1>1, HomeCallsKept
<1>3. \A m \in Node \ {h} : HomeTasks(l, m)'
  BY DEF Crash, Shutdown, Boot, TypeOK, IdleFlush, AtHome, HomeTasks,
         rebuildVars
<1>4. CASE Crash(n)
  <2>1. /\ \A m \in Node : store'[m] \subseteq store[m]
        /\ \A m \in Node \ {n} : store'[m] = store[m]
                                 /\ install'[m] = install[m]
        /\ install'[n].pc = "idle" /\ alive' = alive \ {n}
        /\ written' = written
    BY <1>4 DEF Crash, TypeOK, InstallState
  <2>2. l \in written' => l \in store'[h] \/ Crashed(h)'
    BY <2>1 DEF AtHome, Crashed
  <2> QED BY <1>2, <1>3, <2>1, <2>2 DEF AtHome, HomeCalls, HomeCall
<1>5. CASE Shutdown(n) \/ Boot(n)
  <2>1. Crashed(h) => Crashed(h)'
    BY <1>5 DEF Shutdown, Boot, Crashed, TypeOK
  <2> QED BY <1>2, <1>3, <1>5, <2>1, HomeKept DEF Shutdown, Boot, aux
<1> QED BY <1>4, <1>5

\* The history of cluster maps is given once.
LEMMA HistoryKept == [Next]_vars => UNCHANGED history
<1> USE DEF world
<1>1. ASSUME NEW n \in Node, ClusterInNext(n) \/ ClusterInFault(n)
      PROVE  UNCHANGED history
  BY <1>1 DEF ClusterInNext, ClusterInFault, BeginInstall, Reapply,
              SetNewCluster, ReadKeys, KeysFails, ResetQueue
<1>2. ASSUME NEW n \in Node, PeerInNext(n) \/ PeerInFault(n)
      PROVE  UNCHANGED history
  BY <1>2 DEF PeerInNext, PeerInFault, RejectPiece, PutPiece, PutFails,
              QueueTask, QueueRebuild
<1>3. ASSUME NEW n \in Node, StabilizerNext(n) \/ StabilizerFault(n)
      PROVE  UNCHANGED history
  BY <1>3 DEF StabilizerNext, FlushNext, StabilizerFault, Drain, ReadCluster,
              GetPiece, DeletePiece, DeleteFails, FailKey, GetFails,
              SendFailed, SendLost, SendRejected, FlushEnds
<1>4. ASSUME NEW n \in Node, RebuildQueueNext(n) \/ RebuildQueueFault(n)
      PROVE  UNCHANGED history
  BY <1>4 DEF RebuildQueueNext, RebuildQueueFault, DrainRebuilds,
              ReadRebuildCluster, PieceExists, AnyPieces, NoReply, AskLost,
              Broadcast, RebuildFails, StoreRebuilt, RebuildIoFails,
              QueueRebuilt, RebuildFlushEnds
<1>5. ASSUME NEW n \in Node, IOFrontNext(n) \/ IOFrontFault(n)
      PROVE  UNCHANGED history
  BY <1>5 DEF IOFrontNext, IOFrontFault, CreateBegins, SendPieces, CountOk,
              CountNotOk, CreateLost, CreateReturns
<1>6. ASSUME NEW n \in Node, Crash(n) \/ Shutdown(n) \/ Boot(n)
      PROVE  UNCHANGED history
  BY <1>6 DEF Crash, Shutdown, Boot
<1>7. ASSUME NEW c \in calls, LoseAbandoned(c) PROVE UNCHANGED history
  BY <1>7 DEF LoseAbandoned
<1> QED
  BY <1>1, <1>2, <1>3, <1>4, <1>5, <1>6, <1>7
  DEF Next, NodeNext, FaultNext, vars

LEMMA HomeStep == HomeInv /\ [Next]_vars => HomeInv'
<1> SUFFICES ASSUME HomeInv, [Next]_vars PROVE HomeInv'
  OBVIOUS
<1> USE DEF world, maps, stabVars, rebuildVars, aux
<1>0. TypeOK /\ TypeOK'
  BY NextType DEF HomeInv
<1>1. UNCHANGED history
  BY HistoryKept
<1> SUFFICES ASSUME NEW l \in Loc, NEW h \in Node, HomeOnly(l, h)
             PROVE  AtHome(l, h)'
  BY <1>0, <1>1 DEF HomeInv, HomeOnly, HolderAt, Map
<1>3. AtHome(l, h)
  BY DEF HomeInv
<1>4. ASSUME UNCHANGED <<store, written, rebuildVars>>,
             calls' \in SUBSET calls, Crashed(h) => Crashed(h)'
      PROVE  AtHome(l, h)'
  <2>1. \A n \in Node \ {h} : HomeTasks(l, n)'
    BY <1>3, <1>4 DEF AtHome, HomeTasks
  <2> QED BY <1>3, <1>4, <2>1, SubsetContinues, HomeCallsKept, HomeKept
<1>5. ASSUME NEW n \in Node, ClusterInNext(n) \/ ClusterInFault(n)
      PROVE  AtHome(l, h)'
  <2>1. /\ UNCHANGED <<store, written, rebuildVars, calls, alive>>
        /\ n \in alive /\ \A m \in Node \ {n} : install'[m] = install[m]
    BY <1>0, <1>5
    DEF ClusterInNext, ClusterInFault, BeginInstall, Reapply, SetNewCluster,
        ReadKeys, KeysFails, ResetQueue, TypeOK
  <2> QED BY <1>4, <2>1 DEF Crashed
<1>6. ASSUME NEW n \in Node, NodeNext(n) \/ FaultNext(n) PROVE AtHome(l, h)'
  BY <1>0, <1>3, <1>5, <1>6, HomePeerIn, HomeStabilizer, HomeIOFront,
     HomeRebuildQueue, HomeStops DEF NodeNext, FaultNext
<1>7. ASSUME NEW c \in calls, LoseAbandoned(c) PROVE AtHome(l, h)'
  BY <1>4, <1>7 DEF LoseAbandoned, Crashed
<1>8. CASE UNCHANGED vars
  BY <1>4, <1>8 DEF vars, Crashed
<1> QED BY <1>6, <1>7, <1>8 DEF Next

LEMMA HomeInit == Init => HomeInv
<1> SUFFICES ASSUME Init, NEW l \in Loc, NEW h \in Node, HomeOnly(l, h)
             PROVE  AtHome(l, h)
  BY InitType DEF HomeInv
<1>1. HolderAt(Start, l) \in {NoNode, h} /\ h # NoNode
  BY VersionAssumption, NoNodeAssumption DEF HomeOnly
<1>2. calls = {} /\ rebuilds = {}
  BY DEF Init
<1>3. \A n \in Node : HomeTasks(l, n)
  BY DEF Init, HomeTasks, IdleFlush
<1>4. \A n \in Node \ {h} : l \notin store[n]
  BY <1>1, NoNodeAssumption DEF Init
<1>5. l \in written => l \in store[h] \/ Crashed(h)
  <2>1. install[h].pc = "idle" /\ alive = Node \ Down
    BY DEF Init
  <2> QED BY <1>1, <2>1 DEF Init, Crashed
<1> QED BY <1>2, <1>3, <1>4, <1>5 DEF AtHome

\* A piece that every cluster map gives to the same node is never moved,
\* never rebuilt elsewhere and never deleted: only the death of that node
\* takes it (stabilizer.rs exec, rebuild_queue.rs, peer_in.rs save_piece).
THEOREM UnmovedPieceHolds == Spec => []UnmovedPieceStays
<1>1. HomeInv => UnmovedPieceStays
  BY DEF HomeInv, UnmovedPieceStays, AtHome
<1> QED BY <1>1, HomeInit, HomeStep, PTL DEF Spec

------------------------------------------------------------------------------
(* -- A piece that moves once -- *)

\* The maps give l to p before version v and to q from then on.  A piece that
\* is never moved is one of them, with v past the last version.
Change == Start + 1..LastVersion + 1
MovesOnce(l, p, q, v) ==
    /\ p # q
    /\ \A u \in Version : HolderAt(u, l) \in {NoNode, IF u < v THEN p ELSE q}

\* Node p takes no pieces sent under the maps that gave it l.
Turned(p, v) == view[p].peer >= v \/ Crashed(p)

\* The step does not hit one of the windows.
MoveStep ==
    \A l \in Loc, p \in Node, q \in Node, v \in Change : MovesOnce(l, p, q, v) =>
        \* before p has turned, q is asked by somebody else to rebuild l, or
        \* is sent l by a create
        /\ ~Turned(p, v) =>
              /\ \A c \in calls : QueueRebuild(q, c) /\ c.loc = l => c.from = p
              /\ \A n \in Node : SendPieces(n, l.key) =>
                                    HolderAt(create[l.key].hv, l) # q
        \* p is shut down after it has turned, and starts again with no map
        /\ Shutdown(p) => ~Turned(p, v)

\* Node n has the piece, or its process has died.
Keeps(n, l) == l \in store[n] \/ Crashed(n)

\* A piece that moves once is not lost, as long as the two nodes live.
MovedPieceStays ==
    \A l \in written, p \in Node, q \in Node, v \in Change :
        MovesOnce(l, p, q, v) => Keeps(p, l) \/ Keeps(q, l)

\* Made inductive.  The calls about l go where the map they are sent under
\* wants it; p, and whoever has read the piece, send it to q only when p has
\* turned; the receiver of a move of l from p has it, and no move from q to p
\* is accepted.
MoveCall(c, p, q, v) ==
    /\ c.to \in {p, q}
    /\ c.by \in Flusher \/ ~c.data =>
          c.to = (IF c.version < v THEN p ELSE q) /\ c.from # c.to
    /\ c.to = q /\ (c.from = p \/ c.data) => Turned(p, v)
    /\ c.by \in Flusher /\ c.data =>
          /\ c.from \in {p, q} /\ Turned(p, v)
          /\ c.st \in {"put", "ok"} => c.from = p /\ Keeps(q, c.loc)

OnTheMove(l, p, q, v) ==
    /\ \A c \in calls : c.loc = l => MoveCall(c, p, q, v)
    /\ \A n \in Node \ {p, q} : HomeTasks(l, n) /\ l \notin store[n]
    /\ ~Turned(p, v) => HomeTasks(l, q) /\ l \notin store[q]
    /\ l \in written => Keeps(p, l) \/ Keeps(q, l)

MoveInv ==
    /\ GateInv
    /\ \A l \in Loc, p \in Node, q \in Node, v \in Change :
          MovesOnce(l, p, q, v) => OnTheMove(l, p, q, v)

\* What the lemmas below are about: piece l moves from p to q at version v.
MoveFacts(l, p, q, v) ==
    /\ p # q /\ OnTheMove(l, p, q, v)
    /\ \A u \in Version : HolderAt(u, l) \in {NoNode, IF u < v THEN p ELSE q}

MoveCalls(l, p, q, v) == \A d \in calls' : d.loc = l => MoveCall(d, p, q, v)'

\* Neither the gate at p nor what q has is taken back.
Forward(l, p, q, v) ==
    /\ Turned(p, v) => Turned(p, v)'
    /\ Keeps(q, l) => Keeps(q, l)'

\* Call d of the next state is what has become of call c, which no receiver
\* has stored meanwhile.
Lingers(d, c) ==
    /\ d.from = c.from /\ d.to = c.to /\ d.loc = c.loc
    /\ d.version = c.version /\ d.data = c.data
    /\ d.by \in Flusher => c.by \in Flusher
    /\ d.data /\ d.st \in {"put", "ok"} => c.st \in {"put", "ok"}

CallsLinger == \A d \in calls' : \E c \in calls : Lingers(d, c)

LEMMA SubsetLingers == ASSUME calls' \in SUBSET calls PROVE CallsLinger
BY DEF CallsLinger, Lingers

LEMMA AbandonLingers ==
    ASSUME TypeOK, NEW S \in SUBSET calls, calls' = Abandon(S)
    PROVE  CallsLinger
<1> SUFFICES ASSUME NEW d \in calls', d \notin calls
             PROVE  \E c \in calls : Lingers(d, c)
  BY DEF CallsLinger, Lingers
<1>1. PICK c \in S : d = [c EXCEPT !.by = "gone"]
  BY DEF Abandon
<1>2. c \in Call
  BY DEF TypeOK
<1>3. Lingers(d, c)
  BY <1>1, <1>2 DEF Lingers, Call, Flusher
<1> QED BY <1>3

LEMMA AdvanceLingers ==
    ASSUME TypeOK, NEW c \in calls, NEW st \in SendStatus,
           c.data /\ st \in {"put", "ok"} => c.st \in {"put", "ok"},
           calls' = Advance(c, st)
    PROVE  CallsLinger
<1> SUFFICES ASSUME NEW d \in calls', d \notin calls PROVE Lingers(d, c)
  BY DEF CallsLinger, Lingers
<1> QED BY AdvanceKeeps DEF TypeOK, Lingers

LEMMA MarkLingers ==
    ASSUME TypeOK, NEW n, NEW x, calls' = MarkReput(calls, n, x)
    PROVE  CallsLinger
<1> SUFFICES ASSUME NEW d \in calls' PROVE \E c \in calls : Lingers(d, c)
  BY DEF CallsLinger
<1> QED BY MarkReputKeeps DEF TypeOK, Lingers

LEMMA MoveCallsKept ==
    ASSUME NEW l \in Loc, NEW p \in Node, NEW q \in Node, NEW v,
           MoveFacts(l, p, q, v), Forward(l, p, q, v), CallsLinger
    PROVE  MoveCalls(l, p, q, v)
<1> SUFFICES ASSUME NEW d \in calls', d.loc = l PROVE MoveCall(d, p, q, v)'
  BY DEF MoveCalls
<1>1. PICK c \in calls : Lingers(d, c)
  BY DEF CallsLinger
<1>2. MoveCall(c, p, q, v) /\ c.loc = l
  BY <1>1 DEF Lingers, MoveFacts, OnTheMove
<1> QED BY <1>1, <1>2 DEF Lingers, MoveCall, Forward

\* The tasks to rebuild l, after a step.
MoveTasks(l, p, q, v) ==
    /\ \A n \in Node \ {p, q} : HomeTasks(l, n)'
    /\ ~Turned(p, v) => HomeTasks(l, q)'

\* A step that stores nothing and deletes nothing.
LEMMA MoveKept ==
    ASSUME NEW l \in Loc, NEW p \in Node, NEW q \in Node, NEW v,
           MoveFacts(l, p, q, v), Forward(l, p, q, v), MoveCalls(l, p, q, v),
           MoveTasks(l, p, q, v), UNCHANGED <<store, written>>,
           Keeps(p, l) => Keeps(p, l)'
    PROVE  OnTheMove(l, p, q, v)'
BY DEF MoveFacts, OnTheMove, Forward, MoveCalls, MoveTasks

LEMMA MoveTasksKept ==
    ASSUME NEW l \in Loc, NEW p \in Node, NEW q \in Node, NEW v,
           MoveFacts(l, p, q, v), UNCHANGED rebuildVars
    PROVE  MoveTasks(l, p, q, v)
BY DEF MoveFacts, OnTheMove, MoveTasks, HomeTasks, rebuildVars

\* A copy of l is stored at n, which is p, or q when p has turned.
LEMMA MovePut ==
    ASSUME TypeOK, NEW l \in Loc, NEW p \in Node, NEW q \in Node, NEW v,
           MoveFacts(l, p, q, v), UNCHANGED <<alive, install, view>>,
           NEW n \in Node, NEW x \in Loc,
           store' = [store EXCEPT ![n] = @ \cup {x}],
           written' = written \cup {x},
           x = l => n = p \/ (n = q /\ Turned(p, v)),
           MoveTasks(l, p, q, v), MoveCalls(l, p, q, v)
    PROVE  OnTheMove(l, p, q, v)'
<1>1. \A m \in Node : store'[m] = IF m = n THEN store[m] \cup {x} ELSE store[m]
  BY DEF TypeOK
<1>2. Turned(p, v) <=> Turned(p, v)'
  BY DEF Turned, Crashed
<1>3. \A m \in Node : Keeps(m, l) => Keeps(m, l)'
  BY <1>1 DEF Keeps, Crashed
<1>4. \A m \in Node \ {p, q} : HomeTasks(l, m)' /\ l \notin store'[m]
  BY <1>1 DEF MoveFacts, OnTheMove, MoveTasks
<1>5. ~Turned(p, v)' => HomeTasks(l, q)' /\ l \notin store'[q]
  BY <1>1, <1>2 DEF MoveFacts, OnTheMove, MoveTasks
<1>6. l \in written' => Keeps(p, l)' \/ Keeps(q, l)'
  <2>1. CASE l \in written
    BY <1>3, <2>1 DEF MoveFacts, OnTheMove
  <2>2. CASE x = l
    BY <1>1, <2>2 DEF Keeps
  <2> QED BY <2>1, <2>2
<1> QED BY <1>4, <1>5, <1>6 DEF OnTheMove, MoveCalls

\* A piece sent from q to p is refused once p has turned: a move of l that is
\* accepted goes from p to q.
LEMMA MoveAccepted ==
    ASSUME TypeOK, NEW l \in Loc, NEW p \in Node, NEW q \in Node, NEW v \in Change,
           MoveFacts(l, p, q, v), NEW c \in calls, c.loc = l,
           c.to \in alive, Accepts(c), c.by \in Flusher, c.data
    PROVE  c.from = p /\ c.to = q
<1>1. MoveCall(c, p, q, v)
  BY DEF MoveFacts, OnTheMove
<1>2. c.version \in Int /\ view[p].peer \in Int /\ v \in Int
  BY VersionAssumption DEF TypeOK, Call, ViewName, Version, Change
<1>3. ~(c.from = q)
  BY <1>1, <1>2 DEF MoveCall, Accepts, Turned, Crashed
<1> QED BY <1>1, <1>3 DEF MoveCall

LEMMA MovePeerIn ==
    ASSUME TypeOK, NEW l \in Loc, NEW p \in Node, NEW q \in Node, NEW v \in Change,
           MovesOnce(l, p, q, v), MoveFacts(l, p, q, v), MoveStep,
           NEW n \in Node, PeerInNext(n) \/ PeerInFault(n)
    PROVE  OnTheMove(l, p, q, v)'
<1> USE DEF world, maps, stabVars, aux
<1>1. UNCHANGED <<alive, install, view>>
  BY DEF PeerInNext, PeerInFault, RejectPiece, PutPiece, QueueTask,
         QueueRebuild, PutFails
<1>2. ASSUME UNCHANGED <<store, written>>, CallsLinger, MoveTasks(l, p, q, v)
      PROVE  OnTheMove(l, p, q, v)'
  <2>1. Forward(l, p, q, v) /\ (Keeps(p, l) => Keeps(p, l)')
    BY <1>1, <1>2 DEF Forward, Turned, Keeps, Crashed
  <2> QED BY <1>2, <2>1, MoveCallsKept, MoveKept
<1>3. ASSUME NEW c \in calls,
             RejectPiece(n, c) \/ QueueTask(n, c) \/ PutFails(n, c)
      PROVE  OnTheMove(l, p, q, v)'
  <2>1. CASE RejectPiece(n, c)
    BY <1>2, <2>1, AdvanceLingers, MoveTasksKept DEF RejectPiece, SendStatus
  <2>2. CASE QueueTask(n, c)
    BY <1>2, <2>2, AdvanceLingers, MoveTasksKept DEF QueueTask, SendStatus
  <2>3. CASE PutFails(n, c)
    BY <1>2, <2>3, AdvanceLingers, MoveTasksKept DEF PutFails, SendStatus
  <2> QED BY <1>3, <2>1, <2>2, <2>3
<1>4. ASSUME NEW c \in calls, QueueRebuild(n, c) PROVE OnTheMove(l, p, q, v)'
  <2>1. CallsLinger
    BY <1>4, AdvanceLingers DEF QueueRebuild, SendStatus
  <2>2. c.loc = l => n = p \/ (n = q /\ Turned(p, v))
    <3> SUFFICES ASSUME c.loc = l, n # p, ~Turned(p, v) PROVE FALSE
      BY <1>4 DEF QueueRebuild, Arrived, MoveFacts, OnTheMove, MoveCall
    <3>1. MoveCall(c, p, q, v) /\ c.to = n
      BY <1>4 DEF QueueRebuild, Arrived, MoveFacts, OnTheMove
    <3>2. n = q /\ c.from # p
      BY <3>1 DEF MoveCall
    <3> QED BY <1>4, <3>2 DEF MoveStep
  <2>3. \A m \in Node : rebuildQ'[m] = IF m = n THEN rebuildQ[m] \cup {c.loc}
                                                ELSE rebuildQ[m]
    BY <1>4 DEF QueueRebuild, TypeOK
  <2>4. MoveTasks(l, p, q, v)
    BY <1>4, <2>2, <2>3 DEF QueueRebuild, MoveTasks, HomeTasks, MoveFacts,
                            OnTheMove
  <2> QED BY <1>2, <1>4, <2>1, <2>4 DEF QueueRebuild
<1>5. ASSUME NEW c \in calls, PutPiece(n, c) PROVE OnTheMove(l, p, q, v)'
  <2>1. c \in Call /\ c.to = n /\ c.data /\ n \in alive /\ Accepts(c)
    BY <1>5 DEF PutPiece, Arrived, TypeOK
  <2>2. MoveTasks(l, p, q, v)
    BY <1>5, MoveTasksKept DEF PutPiece
  <2>3. c.loc = l => n = p \/ (n = q /\ Turned(p, v))
    BY <2>1 DEF MoveFacts, OnTheMove, MoveCall
  <2>4. \A m \in Node : store'[m] = IF m = n THEN store[m] \cup {c.loc}
                                             ELSE store[m]
    BY <1>5 DEF PutPiece, TypeOK
  <2>5. Forward(l, p, q, v)
    BY <1>1, <2>4 DEF Forward, Turned, Keeps, Crashed
  <2>6. MoveCalls(l, p, q, v)
    <3> SUFFICES ASSUME NEW d \in calls', d.loc = l PROVE MoveCall(d, p, q, v)'
      BY DEF MoveCalls
    <3>1. Advance(c, "put") \in SUBSET Call
      BY AdvanceType DEF TypeOK, SendStatus
    <3>2. PICK e \in Advance(c, "put") :
              /\ d.from = e.from /\ d.to = e.to /\ d.by = e.by
              /\ d.loc = e.loc /\ d.version = e.version /\ d.data = e.data
              /\ d.st = e.st
      BY <1>5, <3>1, MarkReputKeeps DEF PutPiece
    <3>3. CASE e \in calls
      <4>1. MoveCall(e, p, q, v)
        BY <3>2, <3>3 DEF MoveFacts, OnTheMove
      <4> QED BY <2>5, <3>2, <4>1 DEF MoveCall, Forward
    <3>4. CASE e \notin calls
      <4>1. /\ e.from = c.from /\ e.to = c.to /\ e.by = c.by /\ e.loc = c.loc
            /\ e.version = c.version /\ e.data = c.data
        BY <3>2, <3>4, AdvanceKeeps DEF TypeOK, SendStatus
      <4>2. MoveCall(c, p, q, v) /\ c.loc = l
        BY <3>2, <4>1 DEF MoveFacts, OnTheMove
      <4>3. c.by \in Flusher => c.from = p /\ c.to = q
        BY <2>1, <4>2, MoveAccepted
      <4>4. c.by \in Flusher => Keeps(q, l)'
        BY <2>1, <2>4, <4>2, <4>3 DEF Keeps
      <4> QED BY <2>5, <3>2, <4>1, <4>2, <4>3, <4>4 DEF MoveCall, Forward
    <3> QED BY <3>3, <3>4
  <2> QED
    BY <1>1, <1>5, <2>1, <2>2, <2>3, <2>6, MovePut DEF PutPiece, Call
<1> QED
  BY <1>3, <1>4, <1>5 DEF PeerInNext, PeerInFault

\* Only a move that p has sent deletes a copy of l, and q has another.
LEMMA MoveStabilizer ==
    ASSUME GateInv, NEW l \in Loc, NEW p \in Node, NEW q \in Node, NEW v \in Change,
           MoveFacts(l, p, q, v),
           NEW n \in Node, StabilizerNext(n) \/ StabilizerFault(n)
    PROVE  OnTheMove(l, p, q, v)'
<1> USE DEF world, maps, stabVars, aux
<1>0. TypeOK
  BY DEF GateInv
<1>1. UNCHANGED <<alive, rebuildVars, written>> /\ n \in alive
  BY <1>0, StabilizerFrame
<1>2. UNCHANGED view
  BY DEF StabilizerNext, FlushNext, StabilizerFault, Drain, ReadCluster,
         GetPiece, DeletePiece, DeleteFails, FailKey, GetFails, SendFailed,
         SendLost, SendRejected, FlushEnds
<1>3. \A m \in Node : Crashed(m) => Crashed(m)'
  BY <1>0, <1>1, StabilizerFrame DEF Crashed
<1>4. ASSUME UNCHANGED store PROVE Forward(l, p, q, v) /\ (Keeps(p, l) => Keeps(p, l)')
  BY <1>2, <1>3, <1>4 DEF Forward, Turned, Keeps
<1>5. ASSUME UNCHANGED store, MoveCalls(l, p, q, v) PROVE OnTheMove(l, p, q, v)'
  BY <1>1, <1>4, <1>5, MoveTasksKept, MoveKept
<1>6. ASSUME UNCHANGED store, CallsLinger PROVE OnTheMove(l, p, q, v)'
  BY <1>4, <1>5, <1>6, MoveCallsKept
<1>7. ASSUME NEW f \in Flusher, Drain(n, f) \/ FlushEnds(n, f)
      PROVE  OnTheMove(l, p, q, v)'
  BY <1>6, <1>7, SubsetLingers DEF Drain, FlushEnds
<1>8. ASSUME NEW f \in Flusher, ReadCluster(n, f) PROVE OnTheMove(l, p, q, v)'
  <2> DEFINE u == view[n].stab
  <2>1. /\ u \in Version /\ u \in Int /\ v \in Int /\ view[n].peer \in Int
        /\ u <= view[n].peer
    BY <1>0, VersionAssumption DEF TypeOK, ViewName, Version, Change, GateInv,
                                   FanOutOrdered
  <2>2. \A d \in Tasks(n, f, u, flush[n][f].todo) :
           d.loc = l => /\ d.to = HolderAt(u, l) /\ d.to \notin {NoNode, n}
                        /\ d.from = n /\ d.version = u /\ ~d.data
    BY DEF Tasks
  <2>3. HolderAt(u, l) \in {NoNode, IF u < v THEN p ELSE q}
    BY <2>1 DEF MoveFacts
  <2>4. n = p /\ ~(u < v) => Turned(p, v)'
    BY <1>2, <2>1 DEF Turned
  <2>5. \A d \in Tasks(n, f, u, flush[n][f].todo) :
           d.loc = l => MoveCall(d, p, q, v)'
    BY <2>2, <2>3, <2>4 DEF MoveCall, MoveFacts
  <2>6. \A d \in calls : d.loc = l => MoveCall(d, p, q, v)'
    BY <1>4, <1>8 DEF ReadCluster, MoveFacts, OnTheMove, MoveCall, Forward
  <2>7. MoveCalls(l, p, q, v)
    BY <1>8, <2>5, <2>6 DEF ReadCluster, MoveCalls
  <2> QED BY <1>5, <1>8, <2>7 DEF ReadCluster
<1>9. ASSUME NEW c \in calls, GetPiece(n, c) PROVE OnTheMove(l, p, q, v)'
  <2>1. ASSUME NEW d \in calls', d.loc = l PROVE MoveCall(d, p, q, v)'
    <3>1. CASE d \in calls
      BY <1>4, <1>9, <2>1, <3>1 DEF GetPiece, MoveFacts, OnTheMove, MoveCall,
                                    Forward
    <3>2. CASE d = [c EXCEPT !.st = "sent", !.data = (c.loc \in store[n])]
      <4>1. /\ d.loc = c.loc /\ d.to = c.to /\ d.by = c.by /\ d.from = c.from
            /\ d.version = c.version /\ d.st = "sent"
            /\ d.data <=> c.loc \in store[n]
        BY <1>0, <3>2 DEF TypeOK, Call
      <4>2. c.from = n /\ c.by \in Flusher
        BY <1>9 DEF GetPiece, Mine
      <4>3. MoveCall(c, p, q, v)
        BY <2>1, <4>1 DEF MoveFacts, OnTheMove
      <4>4. d.data => n \in {p, q} /\ (n = q => Turned(p, v))
        BY <2>1, <4>1 DEF MoveFacts, OnTheMove
      <4>5. Turned(p, v) => Turned(p, v)'
        BY <1>4, <1>9 DEF GetPiece, Forward
      <4> QED BY <4>1, <4>2, <4>3, <4>4, <4>5 DEF MoveCall
    <3> QED BY <1>9, <3>1, <3>2 DEF GetPiece
  <2> QED BY <1>5, <1>9, <2>1 DEF GetPiece, MoveCalls
<1>10. ASSUME NEW c \in calls, DeletePiece(n, c) PROVE OnTheMove(l, p, q, v)'
  <2>1. \A m \in Node : \/ store'[m] = store[m]
                        \/ m = n /\ c.data /\ store'[m] = store[m] \ {c.loc}
    BY <1>0, <1>10 DEF DeletePiece, TypeOK
  <2>2. c.loc = l /\ c.data => n = p /\ Keeps(q, l)
    BY <1>10 DEF DeletePiece, Mine, MoveFacts, OnTheMove, MoveCall
  <2>3. Forward(l, p, q, v)
    BY <1>2, <1>3, <2>1, <2>2 DEF Forward, Turned, Keeps, MoveFacts
  <2>4. MoveCalls(l, p, q, v)
    BY <1>10, <2>3, SubsetLingers, MoveCallsKept DEF DeletePiece
  <2>5. MoveTasks(l, p, q, v)
    BY <1>1, MoveTasksKept
  <2>6. l \in written' => Keeps(p, l)' \/ Keeps(q, l)'
    BY <1>1, <1>3, <2>1, <2>2, <2>3 DEF Forward, MoveFacts, OnTheMove, Keeps
  <2>7. /\ \A m \in Node \ {p, q} : l \notin store'[m]
        /\ ~Turned(p, v)' => l \notin store'[q]
    BY <2>1, <2>3 DEF Forward, MoveFacts, OnTheMove
  <2> QED
    BY <2>3, <2>4, <2>5, <2>6, <2>7 DEF OnTheMove, MoveCalls, MoveTasks, Forward
<1>11. ASSUME NEW c \in calls, DeleteFails(n, c) PROVE OnTheMove(l, p, q, v)'
  BY <1>6, <1>11, SubsetLingers DEF DeleteFails
<1>12. ASSUME NEW c \in calls, FailKey(n, c) PROVE OnTheMove(l, p, q, v)'
  <2>1. {d \in CallsOf(n, c.by) : d.loc.key = c.loc.key} \in SUBSET calls
    BY DEF CallsOf
  <2>2. CallsLinger
    BY <1>0, <1>12, <2>1, AbandonLingers DEF FailKey
  <2> QED BY <1>6, <1>12, <2>2 DEF FailKey
<1>13. ASSUME NEW c \in calls, SendRejected(n, c) PROVE OnTheMove(l, p, q, v)'
  <2>1. CallsOf(n, c.by) \in SUBSET calls
    BY DEF CallsOf
  <2>2. CallsLinger
    BY <1>0, <1>13, <2>1, AbandonLingers DEF SendRejected
  <2> QED BY <1>6, <1>13, <2>2 DEF SendRejected
<1> QED
  BY <1>7, <1>8, <1>9, <1>10, <1>11, <1>12, <1>13
  DEF StabilizerNext, FlushNext, CallsOf, StabilizerFault, GetFails,
      SendFailed, SendLost

LEMMA MoveIOFront ==
    ASSUME TypeOK, NEW l \in Loc, NEW p \in Node, NEW q \in Node, NEW v \in Change,
           MovesOnce(l, p, q, v), MoveFacts(l, p, q, v), MoveStep,
           NEW n \in Node, IOFrontNext(n) \/ IOFrontFault(n)
    PROVE  OnTheMove(l, p, q, v)'
<1> USE DEF world, maps, stabVars, aux
<1>1. UNCHANGED <<alive, install, view, store, written, rebuildVars>>
  BY DEF IOFrontNext, IOFrontFault, CreateBegins, SendPieces, CountOk,
         CountNotOk, CreateLost, CreateReturns
<1>2. Forward(l, p, q, v) /\ (Keeps(p, l) => Keeps(p, l)')
  BY <1>1 DEF Forward, Turned, Keeps, Crashed
<1>3. ASSUME MoveCalls(l, p, q, v) PROVE OnTheMove(l, p, q, v)'
  BY <1>1, <1>2, <1>3, MoveTasksKept, MoveKept
<1>4. ASSUME CallsLinger PROVE MoveCalls(l, p, q, v)
  BY <1>2, <1>4, MoveCallsKept
<1>5. ASSUME NEW k \in Key, CreateBegins(n, k) \/ CreateReturns(n, k)
      PROVE  MoveCalls(l, p, q, v)
  BY <1>4, <1>5, SubsetLingers DEF CreateBegins, CreateReturns
<1>6. ASSUME NEW k \in Key, SendPieces(n, k) PROVE MoveCalls(l, p, q, v)
  <2> SUFFICES ASSUME NEW d \in calls', d.loc = l PROVE MoveCall(d, p, q, v)'
    BY DEF MoveCalls
  <2>1. CASE d \in calls
    BY <1>2, <2>1 DEF MoveFacts, OnTheMove, MoveCall, Forward
  <2>2. CASE d \notin calls
    <3>1. /\ d.by = "create" /\ d.data /\ l \in LocsOf(k)
          /\ d.to = HolderAt(create[k].hv, l) /\ d.to # NoNode
      BY <1>6, <2>2 DEF SendPieces
    <3>2. create[k].hv \in Version
      BY DEF TypeOK, CreateState
    <3>3. d.to \in {p, q}
      BY <3>1, <3>2 DEF MoveFacts
    <3>4. l.key = k
      BY <3>1 DEF LocsOf
    <3>5. d.to = q => Turned(p, v)
      BY <1>6, <3>1, <3>4 DEF MoveStep
    <3> QED BY <1>2, <3>1, <3>3, <3>5 DEF MoveCall, Flusher, Forward
  <2> QED BY <2>1, <2>2
<1>7. ASSUME NEW c \in calls, CountOk(n, c) PROVE MoveCalls(l, p, q, v)
  BY <1>4, <1>7, SubsetLingers DEF CountOk
<1>8. ASSUME NEW c \in calls, CountNotOk(n, c) \/ CreateLost(n, c)
      PROVE  MoveCalls(l, p, q, v)
  <2>1. calls' = Abandon({c})
    BY <1>8 DEF CountNotOk, CreateLost
  <2> QED BY <1>4, <2>1, AbandonLingers
<1> QED
  BY <1>3, <1>5, <1>6, <1>7, <1>8 DEF IOFrontNext, IOFrontFault

LEMMA MoveRebuildQueue ==
    ASSUME TypeOK, NEW l \in Loc, NEW p \in Node, NEW q \in Node, NEW v \in Change,
           MoveFacts(l, p, q, v),
           NEW n \in Node, RebuildQueueNext(n) \/ RebuildQueueFault(n)
    PROVE  OnTheMove(l, p, q, v)'
<1>1. UNCHANGED <<alive, install, view>>
  BY RebuildFrame
<1>2. MoveTasks(l, p, q, v)
  BY TasksKept DEF MoveTasks, MoveFacts, OnTheMove
<1>3. ASSUME UNCHANGED store
      PROVE  Forward(l, p, q, v) /\ (Keeps(p, l) => Keeps(p, l)')
  BY <1>1, <1>3 DEF Forward, Turned, Keeps, Crashed
<1>4. ASSUME UNCHANGED <<store, written, calls>> PROVE OnTheMove(l, p, q, v)'
  BY <1>2, <1>3, <1>4, SubsetLingers, MoveCallsKept, MoveKept
<1>5. ASSUME NEW r \in rebuilds, StoreRebuilt(n, r) PROVE OnTheMove(l, p, q, v)'
  <2>1. r.node = n /\ r.loc \in Loc
    BY <1>5 DEF StoreRebuilt, Runs, TypeOK, Rebuild
  <2>2. r.loc = l => n = p \/ (n = q /\ Turned(p, v))
    BY <2>1 DEF MoveFacts, OnTheMove, HomeTasks
  <2>3. \A m \in Node : store[m] \subseteq store'[m]
    BY <1>5 DEF StoreRebuilt, TypeOK
  <2>4. Forward(l, p, q, v)
    BY <1>1, <2>3 DEF Forward, Turned, Keeps, Crashed
  <2>5. CallsLinger
    BY <1>5, MarkLingers DEF StoreRebuilt
  <2>6. MoveCalls(l, p, q, v)
    BY <2>4, <2>5, MoveCallsKept
  <2> QED BY <1>1, <1>2, <1>5, <2>1, <2>2, <2>6, MovePut DEF StoreRebuilt
<1> QED BY <1>4, <1>5, RebuildFrame

\* A map told to p later has a newer version.
LEMMA MoveClusterIn ==
    ASSUME GateInv, NEW l \in Loc, NEW p \in Node, NEW q \in Node, NEW v \in Change,
           MoveFacts(l, p, q, v),
           NEW n \in Node, ClusterInNext(n) \/ ClusterInFault(n)
    PROVE  OnTheMove(l, p, q, v)'
<1> USE DEF world, stabVars, aux
<1>1. /\ UNCHANGED <<store, written, rebuildVars, calls, alive>>
      /\ n \in alive /\ \A m \in Node \ {n} : install'[m] = install[m]
  BY DEF ClusterInNext, ClusterInFault, BeginInstall, Reapply, SetNewCluster,
         ReadKeys, KeysFails, ResetQueue, GateInv, TypeOK
<1>2. view[p].peer >= v => view'[p].peer >= v
  <2>1. CASE UNCHANGED view
    BY <2>1
  <2>2. ASSUME NEW i \in 1..Len(FanOut), SetNewCluster(n, i)
        PROVE  view[p].peer >= v => view'[p].peer >= v
    <3>1. /\ view'[p].peer \in {view[p].peer, install[p].version}
          /\ view[p].peer <= install[p].version
      BY <2>2, FanOutType DEF SetNewCluster, GateInv, TypeOK, FanOutOrdered
    <3>2. view[p].peer \in Version /\ install[p].version \in Version
      BY DEF GateInv, TypeOK, ViewName, InstallState
    <3>3. view[p].peer \in Int /\ install[p].version \in Int /\ v \in Int
      BY <3>2, VersionAssumption DEF Version, Change
    <3> QED BY <3>1, <3>3
  <2>3. UNCHANGED view \/ \E i \in 1..Len(FanOut) : SetNewCluster(n, i)
    BY DEF ClusterInNext, ClusterInFault, BeginInstall, Reapply, ReadKeys,
           KeysFails, ResetQueue
  <2> QED BY <2>1, <2>2, <2>3
<1>3. \A m \in Node : Crashed(m) => Crashed(m)'
  BY <1>1 DEF Crashed
<1>4. Forward(l, p, q, v) /\ (Keeps(p, l) => Keeps(p, l)')
  BY <1>1, <1>2, <1>3 DEF Forward, Turned, Keeps
<1> QED
  BY <1>1, <1>4, SubsetLingers, MoveCallsKept, MoveTasksKept, MoveKept

\* The processes that stop drop their tasks and keep their stores, or are
\* crashed.
LEMMA MoveStops ==
    ASSUME TypeOK, NEW l \in Loc, NEW p \in Node, NEW q \in Node, NEW v \in Change,
           MovesOnce(l, p, q, v), MoveFacts(l, p, q, v), MoveStep,
           NEW n \in Node, Crash(n) \/ Shutdown(n) \/ Boot(n)
    PROVE  OnTheMove(l, p, q, v)'
<1>1. CallsLinger
  <2>1. {c \in calls : c.from = n} \in SUBSET calls
    OBVIOUS
  <2> QED BY <2>1, AbandonLingers, SubsetLingers DEF Crash, Shutdown, Boot
<1>2. \A m \in Node : HomeTasks(l, m) => HomeTasks(l, m)'
  BY DEF Crash, Shutdown, Boot, TypeOK, IdleFlush, HomeTasks, rebuildVars
<1>3. \A m \in Node : Crashed(m) => Crashed(m)'
  BY DEF Crash, Shutdown, Boot, Crashed, TypeOK
<1>4. /\ \A m \in Node : /\ store'[m] \subseteq store[m]
                         /\ Keeps(m, l) => Keeps(m, l)'
      /\ written' = written
  <2>1. CASE Crash(n)
    <3>1. /\ \A m \in Node \ {n} : store'[m] = store[m]
          /\ store'[n] = {} /\ written' = written
      BY <2>1 DEF Crash, TypeOK
    <3>2. Crashed(n)'
      BY <2>1 DEF Crash, Crashed, TypeOK
    <3> QED BY <1>3, <3>1, <3>2 DEF Keeps
  <2>2. CASE Shutdown(n) \/ Boot(n)
    BY <1>3, <2>2 DEF Shutdown, Boot, Keeps, aux
  <2> QED BY <2>1, <2>2
<1>5. Turned(p, v) => Turned(p, v)'
  <2>1. CASE Crash(n) \/ Boot(n)
    BY <1>3, <2>1 DEF Crash, Boot, maps, Turned
  <2>2. CASE Shutdown(n)
    <3>1. n # p => view'[p] = view[p]
      BY <2>2 DEF Shutdown, TypeOK
    <3>2. n = p => ~Turned(p, v)
      BY <2>2 DEF MoveStep
    <3> QED BY <1>3, <3>1, <3>2 DEF Turned
  <2> QED BY <2>1, <2>2
<1>6. Forward(l, p, q, v)
  BY <1>4, <1>5 DEF Forward
<1>7. MoveCalls(l, p, q, v)
  BY <1>1, <1>6, MoveCallsKept
<1> QED
  BY <1>2, <1>4, <1>6, <1>7
  DEF MoveFacts, OnTheMove, MoveCalls, Forward

LEMMA MoveNext == MoveInv /\ [Next]_vars /\ [MoveStep]_vars => MoveInv'
<1> SUFFICES ASSUME MoveInv, [Next]_vars, [MoveStep]_vars PROVE MoveInv'
  OBVIOUS
<1>0. GateInv /\ GateInv' /\ TypeOK
  BY GateStep DEF MoveInv, GateInv
<1>1. UNCHANGED history
  BY HistoryKept
<1> SUFFICES ASSUME NEW l \in Loc, NEW p \in Node, NEW q \in Node,
                    NEW v \in Change, MovesOnce(l, p, q, v)
             PROVE  OnTheMove(l, p, q, v)'
  BY <1>0, <1>1 DEF MoveInv, MovesOnce, HolderAt, Map
<1>2. MoveFacts(l, p, q, v)
  BY DEF MoveInv, MovesOnce, MoveFacts
<1>3. ASSUME UNCHANGED <<store, written, alive, install, view, rebuildVars>>,
             calls' \in SUBSET calls
      PROVE  OnTheMove(l, p, q, v)'
  <2>1. Forward(l, p, q, v) /\ (Keeps(p, l) => Keeps(p, l)')
    BY <1>3 DEF Forward, Turned, Keeps, Crashed
  <2> QED
    BY <1>2, <1>3, <2>1, SubsetLingers, MoveCallsKept, MoveTasksKept, MoveKept
<1>4. CASE UNCHANGED vars
  BY <1>3, <1>4 DEF vars, world, maps, aux
<1>5. ASSUME MoveStep, NEW n \in Node, NodeNext(n) \/ FaultNext(n)
      PROVE  OnTheMove(l, p, q, v)'
  BY <1>0, <1>2, <1>5, MoveClusterIn, MovePeerIn, MoveStabilizer, MoveIOFront,
     MoveRebuildQueue, MoveStops DEF NodeNext, FaultNext
<1>6. ASSUME NEW c \in calls, LoseAbandoned(c) PROVE OnTheMove(l, p, q, v)'
  BY <1>3, <1>6 DEF LoseAbandoned, world, maps, aux
<1> QED BY <1>4, <1>5, <1>6 DEF Next

LEMMA MoveInit == Init => MoveInv
<1> SUFFICES ASSUME Init, NEW l \in Loc, NEW p \in Node, NEW q \in Node,
                    NEW v \in Change, MovesOnce(l, p, q, v)
             PROVE  OnTheMove(l, p, q, v)
  BY GateInit DEF MoveInv
<1>1. HolderAt(Start, l) \in {NoNode, p} /\ p # NoNode /\ q # p /\ q # NoNode
  BY VersionAssumption, NoNodeAssumption DEF MovesOnce, Change, Version
<1>2. calls = {}
  BY DEF Init
<1>3. \A n \in Node : HomeTasks(l, n)
  BY DEF Init, HomeTasks, IdleFlush
<1>4. \A n \in Node \ {p} : l \notin store[n]
  BY <1>1, NoNodeAssumption DEF Init
<1>5. l \in written => Keeps(p, l)
  <2>1. install[p].pc = "idle" /\ alive = Node \ Down
    BY DEF Init
  <2> QED BY <1>1, <2>1 DEF Init, Keeps, Crashed
<1> QED BY <1>1, <1>2, <1>3, <1>4, <1>5 DEF OnTheMove

LEMMA MoveImplies == MoveInv => MovedPieceStays
<1> SUFFICES ASSUME MoveInv, NEW l \in written, NEW p \in Node, NEW q \in Node,
                    NEW v \in Change, MovesOnce(l, p, q, v)
             PROVE  Keeps(p, l) \/ Keeps(q, l)
  BY DEF MovedPieceStays
<1>1. l \in Loc
  BY DEF MoveInv, GateInv, TypeOK
<1> QED BY <1>1 DEF MoveInv, OnTheMove

\* A piece that moves from one node to another, or not at all, stays at one of
\* them until that node dies, whatever requests are lost, late or repeated and
\* whatever else moves (stabilizer.rs exec, peer_in.rs save_piece), unless one
\* of the windows is hit.
THEOREM MovedPieceHolds ==
    Spec /\ [][MoveStep]_vars => []MovedPieceStays
<1> QED BY MoveInit, MoveNext, MoveImplies, PTL DEF Spec

------------------------------------------------------------------------------
(* -- A key acknowledged to its client -- *)

\* Of a key acknowledged by create, K pieces at least are in stores or have
\* been lost in one of the two ways NoUnexplainedLoss leaves.
AckedUnlessExposed ==
    \A k \in Key : create[k].pc = "acked" =>
        Cardinality({l \in LocsOf(k) : Held(l) \/ l \in exposed}) >= K

CreateCalls(k) == {c \in calls : c.by = "create" /\ c.loc.key = k}

\* The pieces of k ever stored, and those among them that no call of the
\* running create is about: create counts no more than these.
Stored(k) == {l \in LocsOf(k) : l \in written}
Counted(k) == {l \in Stored(k) : \A c \in CreateCalls(k) : c.loc # l}

\* A create sends each piece once, with its data, and an answer means that
\* the piece was stored.
CreateSends ==
    /\ \A c \in calls : c.by = "create" =>
          c.data /\ (c.st \in {"put", "ok"} => c.loc \in written)
    /\ \A c, d \in calls :
          c.by = "create" /\ d.by = "create" /\ c.loc = d.loc => c = d

CreateCounts(k) ==
    /\ create[k].pc \in {"idle", "holders"} =>
          create[k].ok = 0 /\ CreateCalls(k) = {}
    /\ create[k].pc = "run" => create[k].ok <= Cardinality(Counted(k))
    /\ create[k].pc = "acked" => Cardinality(Stored(k)) >= K

AckInv == TypeOK /\ CreateSends /\ \A k \in Key : CreateCounts(k)

\* What a key counts does not fall as long as no new piece is sent and what
\* was written stays written.
LEMMA CountsKept ==
    ASSUME AckInv, TypeOK', NEW k \in Key, written \subseteq written',
           \A d \in calls' : d.by = "create" /\ d.loc.key = k =>
              \E c \in calls : c.by = "create" /\ c.loc = d.loc,
           create'[k] = create[k] \/ create'[k].pc = "failed"
    PROVE  CreateCounts(k)'
<1>1. CreateCounts(k)
  BY DEF AckInv
<1>2. CreateCalls(k) = {} => CreateCalls(k)' = {}
  BY DEF CreateCalls
<1>3. Counted(k) \subseteq Counted(k)' /\ Stored(k) \subseteq Stored(k)'
  BY DEF Counted, Stored, CreateCalls
<1>4. Counted(k)' \subseteq LocsOf(k) /\ Stored(k)' \subseteq LocsOf(k)
  BY DEF Counted, Stored
<1> DEFINE cc == Counted(k)'
           ss == Stored(k)'
<1>5. cc = Counted(k)' /\ ss = Stored(k)'
  OBVIOUS
<1> HIDE DEF cc, ss
<1>6. /\ Cardinality(Counted(k)) \in Nat /\ Cardinality(cc) \in Nat
      /\ Cardinality(Counted(k)) <= Cardinality(cc)
  BY <1>3, <1>4, <1>5, CountMonotone
<1>7. /\ Cardinality(Stored(k)) \in Nat /\ Cardinality(ss) \in Nat
      /\ Cardinality(Stored(k)) <= Cardinality(ss)
  BY <1>3, <1>4, <1>5, CountMonotone
<1>8. create[k].ok \in Nat /\ K \in Int
  BY SizeAssumption DEF AckInv, TypeOK, CreateState
<1>9. CASE create'[k].pc = "failed"
  BY <1>9 DEF CreateCounts
<1>10. CASE create'[k] = create[k]
  BY <1>1, <1>2, <1>5, <1>6, <1>7, <1>8, <1>10 DEF CreateCounts
<1> QED BY <1>9, <1>10

\* A step that does nothing to the calls of creates but dropping them.
LEMMA AckQuiet ==
    ASSUME AckInv, TypeOK', written \subseteq written',
           \A d \in calls' : d.by = "create" => d \in calls,
           \A k \in Key : create'[k] = create[k] \/ create'[k].pc = "failed"
    PROVE  AckInv'
<1>1. CreateSends'
  BY DEF AckInv, CreateSends
<1>2. \A k \in Key : CreateCounts(k)'
  BY CountsKept
<1> QED BY <1>1, <1>2 DEF AckInv

\* A reply to call c.
LEMMA AckAdvance ==
    ASSUME AckInv, TypeOK', UNCHANGED create, NEW c \in calls,
           NEW st \in SendStatus, written \subseteq written',
           \A d \in calls' : d.by = "create" => d \in Advance(c, st),
           c.by = "create" /\ st \in {"put", "ok"} => c.loc \in written'
    PROVE  AckInv'
<1> DEFINE e == [c EXCEPT !.st = st]
<1>1. /\ e.by = c.by /\ e.loc = c.loc /\ e.data = c.data /\ e.st = st
  BY DEF AckInv, TypeOK, Call
<1>2. \A d \in calls' : d.by = "create" => d \in calls \ {c} \/ d = e
  BY DEF Advance
<1> HIDE DEF e
<1>3. CreateSends'
  BY <1>1, <1>2 DEF AckInv, CreateSends
<1>4. \A d \in calls' : d.by = "create" =>
          \E b \in calls : b.by = "create" /\ b.loc = d.loc
  BY <1>1, <1>2
<1>5. \A k \in Key : CreateCounts(k)'
  BY <1>4, CountsKept
<1> QED BY <1>3, <1>5 DEF AckInv

\* Marking a move and dropping calls leave those of creates as they are.
LEMMA MarkKeepsCreates ==
    ASSUME NEW cs \in SUBSET Call, NEW n, NEW l, NEW d \in MarkReput(cs, n, l),
           d.by = "create"
    PROVE  d \in cs
<1>1. PICK c \in cs :
         d = IF /\ c.from = n /\ c.loc = l /\ c.data
                /\ c.by \in Flusher /\ c.st \in {"sent", "put", "ok"}
             THEN [c EXCEPT !.reput = TRUE] ELSE c
  BY DEF MarkReput
<1>2. [c EXCEPT !.reput = TRUE].by = c.by
  BY DEF Call
<1> QED BY <1>1, <1>2 DEF Flusher

LEMMA AbandonKeepsCreates ==
    ASSUME NEW cs \in SUBSET calls, TypeOK, NEW d \in Abandon(cs),
           d.by = "create"
    PROVE  d \in calls \ cs
<1>1. \A c \in cs : [c EXCEPT !.by = "gone"].by = "gone"
  BY DEF TypeOK, Call
<1> QED BY <1>1 DEF Abandon

LEMMA AckPeerIn ==
    ASSUME AckInv, TypeOK', NEW n \in Node, PeerInNext(n) \/ PeerInFault(n)
    PROVE  AckInv'
<1> USE DEF world, maps, stabVars, rebuildVars, aux
<1>1. TypeOK /\ CreateSends
  BY DEF AckInv
<1>2. ASSUME NEW c \in calls, RejectPiece(n, c) PROVE AckInv'
  BY <1>2, AckAdvance DEF RejectPiece, SendStatus
<1>3. ASSUME NEW c \in calls, PutFails(n, c) PROVE AckInv'
  BY <1>3, AckAdvance DEF PutFails, SendStatus
<1>4. ASSUME NEW c \in calls, QueueTask(n, c) PROVE AckInv'
  BY <1>1, <1>4, AckAdvance DEF QueueTask, SendStatus, CreateSends
<1>5. ASSUME NEW c \in calls, QueueRebuild(n, c) PROVE AckInv'
  BY <1>1, <1>5, AckAdvance DEF QueueRebuild, SendStatus, CreateSends
<1>6. ASSUME NEW c \in calls, PutPiece(n, c) PROVE AckInv'
  <2>1. Advance(c, "put") \in SUBSET Call
    BY <1>1, AdvanceType DEF TypeOK, SendStatus
  <2>2. \A d \in calls' : d.by = "create" => d \in Advance(c, "put")
    BY <1>6, <2>1, MarkKeepsCreates DEF PutPiece
  <2> QED BY <1>6, <2>2, AckAdvance DEF PutPiece, SendStatus
<1> QED
  BY <1>2, <1>3, <1>4, <1>5, <1>6 DEF PeerInNext, PeerInFault

LEMMA AckStabilizer ==
    ASSUME AckInv, TypeOK', NEW n \in Node,
           StabilizerNext(n) \/ StabilizerFault(n)
    PROVE  AckInv'
<1> USE DEF world, maps, stabVars, rebuildVars, aux
<1>1. TypeOK
  BY DEF AckInv
<1>2. UNCHANGED <<create, written>>
  BY DEF StabilizerNext, StabilizerFault, FlushNext, Drain, ReadCluster,
         GetPiece, DeletePiece, DeleteFails, GetFails, SendFailed, SendLost,
         FailKey, SendRejected, FlushEnds
<1>3. ASSUME \A d \in calls' : d.by = "create" => d \in calls PROVE AckInv'
  BY <1>2, <1>3, AckQuiet
<1>4. ASSUME NEW f \in Flusher, Drain(n, f) \/ FlushEnds(n, f) PROVE AckInv'
  BY <1>3, <1>4 DEF Drain, FlushEnds
<1>5. ASSUME NEW f \in Flusher, ReadCluster(n, f) PROVE AckInv'
  <2>1. \A d \in Tasks(n, f, view[n].stab, flush[n][f].todo) : d.by = f
    BY DEF Tasks
  <2> QED BY <1>3, <1>5, <2>1 DEF ReadCluster, Flusher
<1>6. ASSUME NEW c \in calls, GetPiece(n, c) PROVE AckInv'
  <2> DEFINE x == [c EXCEPT !.st = "sent", !.data = (c.loc \in store[n])]
  <2>1. x.by = c.by
    BY <1>1 DEF TypeOK, Call
  <2>2. calls' = (calls \ {c}) \cup {x} /\ c.by \in Flusher
    BY <1>6 DEF GetPiece, Mine
  <2> HIDE DEF x
  <2> QED BY <1>3, <2>1, <2>2 DEF Flusher
<1>7. ASSUME NEW c \in calls, DeletePiece(n, c) \/ DeleteFails(n, c)
      PROVE  AckInv'
  BY <1>3, <1>7 DEF DeletePiece, DeleteFails
<1>8. ASSUME NEW S \in SUBSET calls, calls' = Abandon(S) PROVE AckInv'
  BY <1>1, <1>3, <1>8, AbandonKeepsCreates
<1>9. ASSUME NEW c \in calls, FailKey(n, c) \/ SendRejected(n, c)
      PROVE  AckInv'
  <2>1. /\ {d \in CallsOf(n, c.by) : d.loc.key = c.loc.key} \in SUBSET calls
        /\ CallsOf(n, c.by) \in SUBSET calls
    BY DEF CallsOf
  <2> QED BY <1>8, <1>9, <2>1 DEF FailKey, SendRejected
<1> QED
  BY <1>4, <1>5, <1>6, <1>7, <1>9
  DEF StabilizerNext, FlushNext, CallsOf, StabilizerFault, GetFails,
      SendFailed, SendLost

LEMMA AckRebuildQueue ==
    ASSUME AckInv, TypeOK', NEW n \in Node,
           RebuildQueueNext(n) \/ RebuildQueueFault(n)
    PROVE  AckInv'
<1> USE DEF world, maps, stabVars, rebuildVars, aux
<1>1. ASSUME NEW r \in rebuilds, StoreRebuilt(n, r) PROVE AckInv'
  <2>1. \A d \in calls' : d.by = "create" => d \in calls
    BY <1>1, MarkKeepsCreates DEF StoreRebuilt, AckInv, TypeOK
  <2> QED BY <1>1, <2>1, AckQuiet DEF StoreRebuilt
<1>2. \/ \E r \in rebuilds : StoreRebuilt(n, r)
      \/ UNCHANGED <<written, calls, create>>
  BY DEF RebuildQueueNext, RebuildQueueFault, DrainRebuilds,
         ReadRebuildCluster, PieceExists, AnyPieces, NoReply, Broadcast,
         RebuildFails, QueueRebuilt, RebuildFlushEnds, AskLost, RebuildIoFails
<1> QED BY <1>1, <1>2, AckQuiet

\* The pieces of a key are sent once, when its create has counted nothing.
LEMMA AckSendPieces ==
    ASSUME AckInv, TypeOK', NEW n \in Node, NEW k \in Key, SendPieces(n, k)
    PROVE  AckInv'
<1> USE DEF world, maps, stabVars, rebuildVars, aux
<1> DEFINE piece(l) == [from |-> n, by |-> "create",
                        to |-> HolderAt(create[k].hv, l), loc |-> l,
                        version |-> view[n].io, data |-> TRUE,
                        st |-> "sent", reput |-> FALSE]
<1>1. CreateCounts(k) /\ create[k].pc = "holders"
  BY DEF AckInv, SendPieces
<1>2. create[k].ok = 0 /\ CreateCalls(k) = {}
  BY <1>1 DEF CreateCounts
<1>3. \A d \in calls' : \/ d \in calls
                        \/ \E l \in LocsOf(k) : d = piece(l)
  BY DEF SendPieces
<1>4. \A l : /\ piece(l).by = "create" /\ piece(l).loc = l
             /\ piece(l).data /\ piece(l).st = "sent"
  OBVIOUS
<1> HIDE DEF piece
<1>5. \A l \in LocsOf(k) : l.key = k
  BY DEF LocsOf
<1>6. \A d \in calls : d.by = "create" => d.loc.key # k
  BY <1>2 DEF CreateCalls
<1>7. CreateSends'
  BY <1>3, <1>4, <1>5, <1>6 DEF AckInv, CreateSends, SendPieces
<1>8. /\ create'[k].pc = "run" /\ create'[k].ok = 0
      /\ \A x \in Key \ {k} : create'[x] = create[x]
  BY <1>2 DEF SendPieces, AckInv, TypeOK, CreateState
<1>9. CreateCounts(k)'
  <2> DEFINE cc == Counted(k)'
  <2>1. cc \in SUBSET LocsOf(k)
    BY DEF Counted, Stored
  <2>2. cc = Counted(k)'
    OBVIOUS
  <2> HIDE DEF cc
  <2>3. Cardinality(cc) \in Nat
    BY <2>1, CountMonotone
  <2> QED BY <1>8, <2>2, <2>3 DEF CreateCounts
<1>10. ASSUME NEW x \in Key \ {k} PROVE CreateCounts(x)'
  <2>1. \A d \in calls' : d.by = "create" /\ d.loc.key = x => d \in calls
    BY <1>3, <1>4, <1>5
  <2> QED BY <1>8, <2>1, CountsKept DEF SendPieces
<1> QED BY <1>7, <1>9, <1>10 DEF AckInv

\* A counted piece is one that had not been counted.
LEMMA AckCountOk ==
    ASSUME AckInv, TypeOK', NEW n \in Node, NEW c \in calls, CountOk(n, c)
    PROVE  AckInv'
<1> USE DEF world, maps, stabVars, rebuildVars, aux
<1> DEFINE k == c.loc.key
<1>1. TypeOK /\ CreateSends /\ c.by = "create" /\ c.st = "ok"
  BY DEF AckInv, CountOk, Sending
<1>2. c.loc \in Loc /\ k \in Key /\ c.loc \in LocsOf(k)
  BY <1>1 DEF TypeOK, Call, Loc, LocsOf
<1>3. c.loc \in written
  BY <1>1 DEF CreateSends
<1>4. CreateSends' /\ calls' \in SUBSET calls /\ UNCHANGED written
  BY <1>1 DEF CountOk, CreateSends
<1>5. /\ create'[k].pc = create[k].pc /\ create'[k].ok = create[k].ok + 1
      /\ \A x \in Key \ {k} : create'[x] = create[x]
  BY <1>1, <1>2 DEF CountOk, TypeOK, CreateState
<1>6. c \in CreateCalls(k)
  BY <1>1 DEF CreateCalls
<1>7. \A x \in Key \ {k} : CreateCounts(x)'
  BY <1>4, <1>5, CountsKept
<1> HIDE DEF k
<1>8. CreateCounts(k)'
  <2>1. CreateCounts(k)
    BY <1>2 DEF AckInv
  <2> DEFINE old == Counted(k)
             cc == Counted(k)'
  <2>2. c.loc \notin old /\ old \cup {c.loc} \subseteq cc
    BY <1>1, <1>2, <1>3, <1>4, <1>6
    DEF Counted, Stored, CreateCalls, CountOk, CreateSends
  <2>3. cc \subseteq LocsOf(k) /\ old \subseteq LocsOf(k)
    BY DEF Counted, Stored
  <2>4. Stored(k)' = Stored(k)
    BY <1>4 DEF Stored
  <2>5. cc = Counted(k)' /\ old = Counted(k)
    OBVIOUS
  <2> HIDE DEF old, cc
  <2>6. IsFiniteSet(old) /\ Cardinality(old) \in Nat
    BY <1>2, <2>3, CountMonotone
  <2>7. Cardinality(old \cup {c.loc}) = Cardinality(old) + 1
    BY <2>2, <2>6, FS_AddElement
  <2>8. /\ Cardinality(old \cup {c.loc}) <= Cardinality(cc)
        /\ Cardinality(cc) \in Nat
    BY <1>2, <2>2, <2>3, CountMonotone
  <2>9. create[k].ok \in Nat
    BY <1>1, <1>2 DEF TypeOK, CreateState
  <2>10. create[k].pc = "run" => create'[k].ok <= Cardinality(cc)
    BY <1>5, <2>1, <2>5, <2>6, <2>7, <2>8, <2>9 DEF CreateCounts
  <2>11. create[k].pc \notin {"idle", "holders"}
    BY <1>6, <2>1 DEF CreateCounts
  <2> QED
    BY <1>5, <2>1, <2>4, <2>5, <2>10, <2>11 DEF CreateCounts
<1> QED BY <1>4, <1>7, <1>8 DEF AckInv

LEMMA AckIOFront ==
    ASSUME AckInv, TypeOK', NEW n \in Node, IOFrontNext(n) \/ IOFrontFault(n)
    PROVE  AckInv'
<1> USE DEF world, maps, stabVars, rebuildVars, aux
<1>1. TypeOK
  BY DEF AckInv
<1>2. ASSUME NEW c \in calls, CountNotOk(n, c) \/ CreateLost(n, c)
      PROVE  AckInv'
  <2>1. calls' = Abandon({c}) /\ UNCHANGED <<create, written>>
    BY <1>2 DEF CountNotOk, CreateLost
  <2> QED BY <1>1, <2>1, AbandonKeepsCreates, AckQuiet
<1>3. ASSUME NEW k \in Key, CreateBegins(n, k) \/ CreateReturns(n, k)
      PROVE  AckInv'
  <2>1. UNCHANGED <<calls, written>>
    BY <1>3 DEF CreateBegins, CreateReturns
  <2>2. \A x \in Key \ {k} : create'[x] = create[x]
    BY <1>1, <1>3 DEF CreateBegins, CreateReturns, TypeOK
  <2>3. \A x \in Key \ {k} : CreateCounts(x)'
    BY <2>1, <2>2, CountsKept
  <2>4. CreateSends'
    BY <2>1 DEF AckInv, CreateSends
  <2>5. CreateCounts(k)
    BY DEF AckInv
  <2>6. CASE CreateBegins(n, k)
    <3>1. create'[k].pc = "holders" /\ create'[k].ok = 0
      BY <1>1, <2>6 DEF CreateBegins, TypeOK
    <3>2. CreateCalls(k)' = {}
      BY <2>1, <2>5, <2>6 DEF CreateBegins, CreateCounts, CreateCalls
    <3> QED BY <2>3, <2>4, <3>1, <3>2 DEF AckInv, CreateCounts
  <2>7. CASE CreateReturns(n, k)
    <3>1. /\ create'[k].pc = IF create[k].ok >= K THEN "acked" ELSE "failed"
          /\ create[k].ok <= Cardinality(Counted(k)) /\ create[k].ok \in Nat
      BY <1>1, <2>5, <2>7 DEF CreateReturns, TypeOK, CreateState, CreateCounts
    <3>2. Counted(k) \subseteq Stored(k) /\ Stored(k) \subseteq LocsOf(k)
      BY DEF Counted, Stored
    <3>3. /\ Cardinality(Counted(k)) \in Nat /\ Cardinality(Stored(k)) \in Nat
          /\ Cardinality(Counted(k)) <= Cardinality(Stored(k))
      BY <3>2, CountMonotone
    <3>4. K \in Nat
      BY SizeAssumption
    <3>5. create'[k].pc = "acked" => Cardinality(Stored(k)) >= K
      BY <3>1, <3>3, <3>4
    <3>6. Stored(k)' = Stored(k)
      BY <2>1 DEF Stored
    <3>7. CreateCounts(k)'
      BY <3>1, <3>5, <3>6 DEF CreateCounts
    <3> QED BY <2>3, <2>4, <3>7 DEF AckInv
  <2> QED BY <1>3, <2>6, <2>7
<1> QED
  BY <1>2, <1>3, AckSendPieces, AckCountOk DEF IOFrontNext, IOFrontFault

LEMMA AckStep == AckInv /\ [Next]_vars => AckInv'
<1> SUFFICES ASSUME AckInv, [Next]_vars PROVE AckInv'
  OBVIOUS
<1> USE DEF world, maps, stabVars, rebuildVars, aux
<1>0. TypeOK /\ TypeOK'
  BY NextType DEF AckInv
<1>1. ASSUME UNCHANGED <<create, written>>, calls' \in SUBSET calls
      PROVE  AckInv'
  BY <1>0, <1>1, AckQuiet
<1>2. ASSUME NEW n \in Node, ClusterInNext(n) \/ ClusterInFault(n)
      PROVE  AckInv'
  <2>1. UNCHANGED <<create, written, calls>>
    BY <1>2 DEF ClusterInNext, ClusterInFault, BeginInstall, Reapply,
                SetNewCluster, ReadKeys, KeysFails, ResetQueue
  <2> QED BY <1>1, <2>1
<1>3. ASSUME NEW n \in Node, Crash(n) \/ Shutdown(n) PROVE AckInv'
  <2>1. {c \in calls : c.from = n} \in SUBSET calls
    OBVIOUS
  <2>2. \A d \in calls' : d.by = "create" => d \in calls
    BY <1>0, <1>3, <2>1, AbandonKeepsCreates DEF Crash, Shutdown
  <2>3. \A x \in Key : create'[x] = create[x] \/ create'[x].pc = "failed"
    BY <1>0, <1>3 DEF Crash, Shutdown, TypeOK, CreateState
  <2> QED BY <1>0, <1>3, <2>2, <2>3, AckQuiet DEF Crash, Shutdown
<1>4. ASSUME NEW n \in Node, Boot(n) PROVE AckInv'
  BY <1>1, <1>4 DEF Boot
<1>5. ASSUME NEW n \in Node, NodeNext(n) \/ FaultNext(n) PROVE AckInv'
  BY <1>0, <1>2, <1>3, <1>4, <1>5, AckPeerIn, AckStabilizer, AckRebuildQueue,
     AckIOFront DEF NodeNext, FaultNext
<1>6. ASSUME NEW c \in calls, LoseAbandoned(c) PROVE AckInv'
  BY <1>1, <1>6 DEF LoseAbandoned
<1>7. CASE UNCHANGED vars
  BY <1>1, <1>7 DEF vars
<1> QED BY <1>5, <1>6, <1>7 DEF Next

\* The pieces of a settled key are all at their holders.
LEMMA AckInit == Init => AckInv
<1> SUFFICES ASSUME Init PROVE AckInv
  OBVIOUS
<1>1. TypeOK /\ CreateSends
  BY InitType DEF Init, CreateSends
<1>2. ASSUME NEW k \in Key PROVE CreateCounts(k)
  <2>1. create[k].pc = IF k \in Settled THEN "acked" ELSE "idle"
    BY DEF Init
  <2>2. CASE k \notin Settled
    BY <2>1, <2>2 DEF Init, CreateCounts, CreateCalls
  <2>3. CASE k \in Settled
    <3>1. /\ history \in Histories /\ history[Start].ids[k] # << >>
          /\ IsClusterMap(history[Start])
      BY <2>3, SettledAssumption, HistoryAssumption, VersionAssumption DEF Init
    <3>2. \A l \in LocsOf(k) : HolderAt(Start, l) \in Node
      BY <3>1, HolderType DEF LocsOf, HolderAt, Map
    <3>3. Stored(k) = LocsOf(k)
      BY <2>3, <3>2, NoNodeAssumption DEF Init, Stored, LocsOf
    <3>4. Cardinality(Stored(k)) >= K
      BY <3>3, PiecesOfKey, SizeAssumption
    <3> QED BY <2>1, <2>3, <3>4 DEF CreateCounts
  <2> QED BY <2>2, <2>3
<1> QED BY <1>1, <1>2 DEF AckInv

LEMMA AckedFromInvariants == AckInv /\ LossInv => AckedUnlessExposed
<1> SUFFICES ASSUME AckInv, LossInv, NEW k \in Key, create[k].pc = "acked"
             PROVE  Cardinality({l \in LocsOf(k) : Held(l) \/ l \in exposed})
                       >= K
  BY DEF AckedUnlessExposed
<1> DEFINE T == {l \in LocsOf(k) : Held(l) \/ l \in exposed}
<1>1. Cardinality(Stored(k)) >= K
  BY DEF AckInv, CreateCounts
<1>2. Stored(k) \subseteq T
  BY DEF Stored, LossInv, SafeCopy, Held
<1>3. T \subseteq LocsOf(k)
  OBVIOUS
<1> HIDE DEF T
<1>4. /\ Cardinality(Stored(k)) \in Nat /\ Cardinality(T) \in Nat
      /\ Cardinality(Stored(k)) <= Cardinality(T)
  BY <1>2, <1>3, CountMonotone
<1>5. Cardinality(T) >= K
  BY <1>1, <1>4, SizeAssumption
<1> QED BY <1>5 DEF T

\* create says yes only for K pieces that were stored, each counted once
\* (io_front.rs create), and from then on the only pieces that count against
\* the key are those that went with a node that stopped or with a move that
\* deleted a copy stored again.
THEOREM AckedUnlessExposedHolds == Spec => []AckedUnlessExposed
BY AckedFromInvariants, AckInit, AckStep, LossInit, LossStep, PTL DEF Spec

\* As long as no loss of these two kinds has happened, every acknowledged
\* key can be read: moves, rebuilds, refused and lost requests, failed
\* operations and clean restarts together never take it below K pieces.
THEOREM AckedReadableUnlessExposed ==
    Spec => [](exposed = {} => AckedIsReadable)
<1>1. AckedUnlessExposed => (exposed = {} => AckedIsReadable)
  <2> SUFFICES ASSUME AckedUnlessExposed, exposed = {},
                      NEW k \in Key, create[k].pc = "acked"
               PROVE  Cardinality({l \in LocsOf(k) : Held(l)}) >= K
    BY DEF AckedIsReadable
  <2>1. {l \in LocsOf(k) : Held(l) \/ l \in exposed}
           = {l \in LocsOf(k) : Held(l)}
    OBVIOUS
  <2> QED BY <2>1 DEF AckedUnlessExposed
<1> QED BY <1>1, AckedUnlessExposedHolds, PTL

------------------------------------------------------------------------------
(* -- A cluster whose pieces do not move -- *)

\* No node dies: clean restarts, lost requests, failed operations and maps
\* applied again are all that may go wrong.
NobodyDies == Down = {} /\ \A x \in Budgets : x["crash"] = 0

\* The maps after the first one agree on the holder of every piece.
PiecesStay ==
    \A h \in Histories, l \in Loc : \E n \in Node :
        \A v \in Version : Holder(h[v], l) \in {NoNode, n}

NoDeath ==
    /\ budget["crash"] = 0
    /\ \A n \in Node : n \in alive \/ install[n].pc = "stopped"

\* A step of the services or the environment spends no other fault than its
\* own, and nothing happens at a node that does not run.
LEMMA NoDeathStep == TypeOK /\ NoDeath /\ [Next]_vars => NoDeath'
<1> SUFFICES ASSUME TypeOK, NoDeath, [Next]_vars PROVE NoDeath'
  OBVIOUS
<1> USE DEF world, maps, stabVars, rebuildVars, aux
<1>1. ASSUME NEW n \in Node, n \in alive, alive' = alive,
             \A m \in Node \ {n} : install'[m] = install[m],
             \/ UNCHANGED budget
             \/ \E x \in FaultKind \ {"crash"} : Spend(x)
      PROVE  NoDeath'
  <2>1. budget'["crash"] = budget["crash"]
    BY <1>1 DEF Spend, TypeOK, FaultKind
  <2> QED BY <1>1, <2>1 DEF NoDeath
<1>2. ASSUME NEW n \in Node, ClusterInNext(n) \/ ClusterInFault(n)
      PROVE  NoDeath'
  <2>1. n \in alive /\ alive' = alive
    BY <1>2 DEF ClusterInNext, ClusterInFault, BeginInstall, Reapply,
                SetNewCluster, ReadKeys, KeysFails, ResetQueue
  <2>2. \A m \in Node \ {n} : install'[m] = install[m]
    BY <1>2 DEF ClusterInNext, ClusterInFault, BeginInstall, Reapply,
                SetNewCluster, ReadKeys, KeysFails, ResetQueue, TypeOK
  <2>3. UNCHANGED budget \/ Spend("reapply") \/ Spend("io")
    BY <1>2 DEF ClusterInNext, ClusterInFault, BeginInstall, Reapply,
                SetNewCluster, ReadKeys, KeysFails, ResetQueue
  <2> QED BY <1>1, <2>1, <2>2, <2>3 DEF FaultKind
<1>3. ASSUME NEW n \in Node, PeerInNext(n) \/ PeerInFault(n) PROVE NoDeath'
  <2>1. n \in alive /\ UNCHANGED <<alive, install>>
    BY <1>3 DEF PeerInNext, PeerInFault, RejectPiece, PutPiece, PutFails,
                QueueTask, QueueRebuild, Arrived
  <2>2. UNCHANGED budget \/ Spend("io")
    BY <1>3 DEF PeerInNext, PeerInFault, RejectPiece, PutPiece, PutFails,
                QueueTask, QueueRebuild
  <2> QED BY <1>1, <2>1, <2>2 DEF FaultKind
<1>4. ASSUME NEW n \in Node, StabilizerNext(n) \/ StabilizerFault(n)
      PROVE  NoDeath'
  <2>1. n \in alive /\ alive' = alive
    BY <1>4, StabilizerFrame
  <2>2. \A m \in Node \ {n} : install'[m] = install[m]
    BY <1>4, StabilizerFrame
  <2>3. UNCHANGED budget \/ Spend("io") \/ Spend("net")
    BY <1>4 DEF StabilizerNext, FlushNext, StabilizerFault, Drain,
                ReadCluster, GetPiece, DeletePiece, DeleteFails, GetFails,
                SendFailed, SendLost, SendRejected, FlushEnds
  <2> QED BY <1>1, <2>1, <2>2, <2>3 DEF FaultKind
<1>5. ASSUME NEW n \in Node, RebuildQueueNext(n) \/ RebuildQueueFault(n)
      PROVE  NoDeath'
  <2>1. n \in alive /\ UNCHANGED <<alive, install>>
    BY <1>5 DEF RebuildQueueNext, RebuildQueueFault, DrainRebuilds,
                ReadRebuildCluster, PieceExists, AnyPieces, NoReply, AskLost,
                Broadcast, RebuildFails, StoreRebuilt, RebuildIoFails,
                QueueRebuilt, RebuildFlushEnds, Runs
  <2>2. UNCHANGED budget \/ Spend("io") \/ Spend("net")
    BY <1>5 DEF RebuildQueueNext, RebuildQueueFault, DrainRebuilds,
                ReadRebuildCluster, PieceExists, AnyPieces, NoReply, AskLost,
                Broadcast, RebuildFails, StoreRebuilt, RebuildIoFails,
                QueueRebuilt, RebuildFlushEnds
  <2> QED BY <1>1, <2>1, <2>2 DEF FaultKind
<1>6. ASSUME NEW n \in Node, IOFrontNext(n) \/ IOFrontFault(n) PROVE NoDeath'
  <2>1. n \in alive /\ UNCHANGED <<alive, install>>
    BY <1>6 DEF IOFrontNext, IOFrontFault, CreateBegins, SendPieces, CountOk,
                CountNotOk, CreateLost, CreateReturns, Sending
  <2>2. UNCHANGED budget \/ Spend("net")
    BY <1>6 DEF IOFrontNext, IOFrontFault, CreateBegins, SendPieces, CountOk,
                CountNotOk, CreateLost, CreateReturns
  <2> QED BY <1>1, <2>1, <2>2 DEF FaultKind
<1>7. ASSUME NEW n \in Node, Crash(n) PROVE FALSE
  BY <1>7 DEF Crash, MayFail, NoDeath
<1>8. ASSUME NEW n \in Node, Shutdown(n) PROVE NoDeath'
  <2>1. budget'["crash"] = budget["crash"]
    BY <1>8 DEF Shutdown, Spend, TypeOK, FaultKind
  <2>2. /\ install'[n].pc = "stopped" /\ alive' = alive \ {n}
        /\ \A m \in Node \ {n} : install'[m] = install[m]
    BY <1>8 DEF Shutdown, TypeOK
  <2> QED BY <2>1, <2>2 DEF NoDeath
<1>9. ASSUME NEW n \in Node, Boot(n) PROVE NoDeath'
  <2>1. /\ alive' = alive \cup {n} /\ UNCHANGED budget
        /\ \A m \in Node \ {n} : install'[m] = install[m]
    BY <1>9 DEF Boot, TypeOK
  <2> QED BY <2>1 DEF NoDeath
<1>10. ASSUME NEW c \in calls, LoseAbandoned(c) PROVE NoDeath'
  BY <1>10 DEF LoseAbandoned, NoDeath
<1>11. CASE UNCHANGED vars
  BY <1>11 DEF vars, NoDeath
<1> QED
  BY <1>2, <1>3, <1>4, <1>5, <1>6, <1>7, <1>8, <1>9, <1>10, <1>11
  DEF Next, NodeNext, FaultNext

LEMMA NoDeathInit == NobodyDies /\ Init => NoDeath
BY DEF NobodyDies, Init, NoDeath

LEMMA StaysFromInvariants ==
    ASSUME PiecesStay
    PROVE  HomeInv /\ NoDeath => PieceNeverVanishes
<1> SUFFICES ASSUME HomeInv, NoDeath, NEW l \in written PROVE Held(l)
  BY DEF PieceNeverVanishes
<1>1. l \in Loc /\ history \in Histories
  BY DEF HomeInv, TypeOK
<1>2. PICK h \in Node : HomeOnly(l, h)
  BY <1>1 DEF PiecesStay, HomeOnly, HolderAt, Map
<1>3. l \in store[h] \/ Crashed(h)
  BY <1>1, <1>2 DEF HomeInv, AtHome
<1> QED BY <1>3 DEF NoDeath, Crashed, Held

\* In a cluster whose maps agree on the holder of every piece and whose nodes
\* do not die, no piece is ever lost: the two ways in which NoUnexplainedLoss
\* lets one go both need a node that dies or a holder that changes.
THEOREM StaticClusterLosesNothing ==
    ASSUME PiecesStay, NobodyDies
    PROVE  Spec => []PieceNeverVanishes
<1>1. Init => TypeOK /\ NoDeath
  BY InitType, NoDeathInit
<1>2. HomeInv /\ NoDeath => PieceNeverVanishes
  BY StaysFromInvariants
<1>3. TypeOK /\ [Next]_vars => TypeOK'
  BY NextType
<1> QED
  BY <1>1, <1>2, <1>3, NoDeathStep, HomeInit, HomeStep, PTL DEF Spec

LEMMA AckedFromStored == AckInv /\ PieceNeverVanishes => AckedIsReadable
<1> SUFFICES ASSUME AckInv, PieceNeverVanishes,
                    NEW k \in Key, create[k].pc = "acked"
             PROVE  Cardinality({l \in LocsOf(k) : Held(l)}) >= K
  BY DEF AckedIsReadable
<1> DEFINE T == {l \in LocsOf(k) : Held(l)}
<1>1. Cardinality(Stored(k)) >= K
  BY DEF AckInv, CreateCounts
<1>2. Stored(k) \subseteq T
  BY DEF Stored, PieceNeverVanishes
<1>3. T \subseteq LocsOf(k)
  OBVIOUS
<1> HIDE DEF T
<1>4. /\ Cardinality(Stored(k)) \in Nat /\ Cardinality(T) \in Nat
      /\ Cardinality(Stored(k)) <= Cardinality(T)
  BY <1>2, <1>3, CountMonotone
<1>5. Cardinality(T) >= K
  BY <1>1, <1>4, SizeAssumption
<1> QED BY <1>5 DEF T

\* ... and a key acknowledged there can be read for ever, as the run
\* storage_create checks of an instance of it (io_front.rs create).
THEOREM StaticClusterKeepsAcked ==
    ASSUME PiecesStay, NobodyDies
    PROVE  Spec => []AckedIsReadable
<1>1. Spec => []PieceNeverVanishes
  BY StaticClusterLosesNothing
<1> QED BY <1>1, AckedFromStored, AckInit, AckStep, PTL DEF Spec

------------------------------------------------------------------------------
(* -- A cluster whose pieces move once -- *)

\* The maps change the holder of a piece at most once.
PiecesMoveOnce ==
    \A h \in Histories, l \in Loc : \E p, q \in Node : \E v \in Change :
        /\ p # q
        /\ \A u \in Version :
              Holder(h[u], l) \in {NoNode, IF u < v THEN p ELSE q}

LEMMA MovesFromHistory ==
    ASSUME PiecesMoveOnce, TypeOK, NEW l \in Loc
    PROVE  \E p, q \in Node : \E v \in Change : MovesOnce(l, p, q, v)
BY DEF PiecesMoveOnce, TypeOK, MovesOnce, HolderAt, Map

LEMMA MovedFromInvariants ==
    ASSUME PiecesMoveOnce
    PROVE  MoveInv /\ NoDeath => PieceNeverVanishes
<1> SUFFICES ASSUME MoveInv, NoDeath, NEW l \in written PROVE Held(l)
  BY DEF PieceNeverVanishes
<1>1. TypeOK /\ l \in Loc
  BY DEF MoveInv, GateInv, TypeOK
<1>2. PICK p \in Node, q \in Node, v \in Change : MovesOnce(l, p, q, v)
  BY <1>1, MovesFromHistory
<1>3. Keeps(p, l) \/ Keeps(q, l)
  BY <1>2, MoveImplies DEF MovedPieceStays
<1> QED BY <1>3 DEF Keeps, NoDeath, Crashed, Held

\* Where the maps change the holder of a piece at most once and no node dies,
\* no piece is ever lost, unless one of the windows of a move is hit.
THEOREM OneMoveLosesNothing ==
    ASSUME PiecesMoveOnce, NobodyDies
    PROVE  Spec /\ [][MoveStep]_vars => []PieceNeverVanishes
<1>1. Init => TypeOK /\ NoDeath
  BY InitType, NoDeathInit
<1>2. MoveInv /\ NoDeath => PieceNeverVanishes
  BY MovedFromInvariants
<1>3. TypeOK /\ [Next]_vars => TypeOK'
  BY NextType
<1> QED
  BY <1>1, <1>2, <1>3, NoDeathStep, MoveInit, MoveNext, PTL DEF Spec

\* Two nodes, which are not restarted, and nothing but old keys: requests may
\* be lost, operations fail and maps be applied again.
TwoNodes ==
    /\ \E p, q \in Node : Node = {p, q}
    /\ NobodyDies /\ \A x \in Budgets : x["restart"] = 0
    /\ Settled = Key

NoRestart == budget["restart"] = 0
AllCreated == \A k \in Key : create[k].pc = "acked"

\* A fault that was used up does not come back.
LEMMA NoRestartStep == TypeOK /\ NoRestart /\ [Next]_vars => NoRestart'
<1> SUFFICES ASSUME TypeOK, NoRestart, [Next]_vars PROVE NoRestart'
  OBVIOUS
<1> USE DEF world
<1>1. ASSUME \/ UNCHANGED budget
             \/ \E x \in FaultKind \ {"restart"} : Spend(x)
      PROVE  NoRestart'
  BY <1>1 DEF Spend, TypeOK, FaultKind, NoRestart
<1>2. ASSUME NEW n \in Node, NodeNext(n) PROVE UNCHANGED budget
  <2>1. ASSUME ClusterInNext(n) \/ PeerInNext(n) PROVE UNCHANGED budget
    BY <2>1 DEF ClusterInNext, BeginInstall, SetNewCluster, ReadKeys,
                ResetQueue, PeerInNext, RejectPiece, PutPiece, QueueTask,
                QueueRebuild
  <2>2. ASSUME StabilizerNext(n) PROVE UNCHANGED budget
    BY <2>2 DEF StabilizerNext, FlushNext, Drain, ReadCluster, GetPiece,
                DeletePiece, SendFailed, SendRejected, FlushEnds
  <2>3. ASSUME RebuildQueueNext(n) PROVE UNCHANGED budget
    BY <2>3 DEF RebuildQueueNext, DrainRebuilds, ReadRebuildCluster,
                PieceExists, AnyPieces, NoReply, Broadcast, RebuildFails,
                StoreRebuilt, QueueRebuilt, RebuildFlushEnds
  <2>4. ASSUME IOFrontNext(n) PROVE UNCHANGED budget
    BY <2>4 DEF IOFrontNext, CreateBegins, SendPieces, CountOk, CountNotOk,
                CreateReturns
  <2> QED BY <1>2, <2>1, <2>2, <2>3, <2>4 DEF NodeNext
<1>3. ASSUME NEW n \in Node, FaultNext(n) PROVE NoRestart'
  <2>1. ~Shutdown(n)
    BY DEF Shutdown, MayFail, NoRestart
  <2>2. \/ UNCHANGED budget
        \/ \E x \in {"reapply", "io", "net", "crash"} : Spend(x)
    BY <1>3, <2>1
    DEF FaultNext, ClusterInFault, Reapply, KeysFails, PeerInFault, PutFails,
        StabilizerFault, GetFails, DeleteFails, SendLost, RebuildQueueFault,
        AskLost, RebuildIoFails, IOFrontFault, CreateLost, Crash, Boot
  <2> QED BY <1>1, <2>2 DEF FaultKind
<1>4. ASSUME NEW c \in calls, LoseAbandoned(c) PROVE UNCHANGED budget
  BY <1>4 DEF LoseAbandoned
<1> QED BY <1>1, <1>2, <1>3, <1>4 DEF Next, vars

\* A create that has been acknowledged is over.
LEMMA AllCreatedStep ==
    TypeOK /\ MoveInv /\ AllCreated /\ [Next]_vars => AllCreated'
<1> SUFFICES ASSUME TypeOK, MoveInv, AllCreated, [Next]_vars PROVE AllCreated'
  OBVIOUS
<1>1. ASSUME NEW n \in Node, NodeNext(n) \/ FaultNext(n) PROVE AllCreated'
  <2>1. ASSUME ClusterInNext(n) \/ ClusterInFault(n) \/ PeerInNext(n)
                  \/ PeerInFault(n)
        PROVE  UNCHANGED create
    BY <2>1 DEF ClusterInNext, ClusterInFault, BeginInstall, Reapply,
                SetNewCluster, ReadKeys, KeysFails, ResetQueue, PeerInNext,
                PeerInFault, RejectPiece, PutPiece, PutFails, QueueTask,
                QueueRebuild
  <2>2. ASSUME StabilizerNext(n) \/ StabilizerFault(n) PROVE UNCHANGED create
    BY <2>2 DEF StabilizerNext, FlushNext, StabilizerFault, Drain, ReadCluster,
                GetPiece, DeletePiece, DeleteFails, FailKey, GetFails,
                SendFailed, SendLost, SendRejected, FlushEnds
  <2>3. ASSUME RebuildQueueNext(n) \/ RebuildQueueFault(n) PROVE UNCHANGED create
    BY <2>3, RebuildFrame
  <2>4. ASSUME IOFrontNext(n) \/ IOFrontFault(n) PROVE AllCreated'
    <3>1. ASSUME NEW c \in calls, CountOk(n, c) PROVE AllCreated'
      BY <3>1 DEF CountOk, AllCreated, TypeOK, CreateState
    <3>2. ASSUME NEW c \in calls, CountNotOk(n, c) \/ CreateLost(n, c)
          PROVE  UNCHANGED create
      BY <3>2 DEF CountNotOk, CreateLost
    <3>3. ASSUME NEW k \in Key, \/ CreateBegins(n, k) \/ SendPieces(n, k)
                                \/ CreateReturns(n, k)
          PROVE  FALSE
      BY <3>3 DEF CreateBegins, SendPieces, CreateReturns, AllCreated
    <3> QED
      BY <2>4, <3>1, <3>2, <3>3 DEF IOFrontNext, IOFrontFault, AllCreated
  <2>5. ASSUME Crash(n) \/ Shutdown(n) \/ Boot(n) PROVE AllCreated'
    BY <2>5 DEF Crash, Shutdown, Boot, AllCreated
  <2> QED
    BY <1>1, <2>1, <2>2, <2>3, <2>4, <2>5 DEF NodeNext, FaultNext, AllCreated
<1>2. ASSUME NEW c \in calls, LoseAbandoned(c) PROVE AllCreated'
  BY <1>2 DEF LoseAbandoned, AllCreated
<1>3. CASE UNCHANGED vars
  BY <1>3 DEF vars, AllCreated
<1> QED BY <1>1, <1>2, <1>3 DEF Next

\* In such a cluster the windows do not exist: nobody but p can ask q.
LEMMA TwoNodesStep ==
    ASSUME TwoNodes
    PROVE  MoveInv /\ NoRestart /\ AllCreated => MoveStep
<1> SUFFICES ASSUME MoveInv, NoRestart, AllCreated,
                    NEW l \in Loc, NEW p \in Node, NEW q \in Node,
                    NEW v \in Change, MovesOnce(l, p, q, v)
             PROVE  /\ \A c \in calls :
                          QueueRebuild(q, c) /\ c.loc = l => c.from = p
                    /\ \A n \in Node : ~SendPieces(n, l.key)
                    /\ ~Shutdown(p)
  BY DEF MoveStep
<1>1. p # q /\ OnTheMove(l, p, q, v) /\ TypeOK
  BY DEF MoveInv, MovesOnce, GateInv
<1>2. ASSUME NEW c \in calls, QueueRebuild(q, c), c.loc = l PROVE c.from = p
  <2>1. c.from # q /\ c.from \in Node
    BY <1>1, <1>2 DEF QueueRebuild, Arrived, OnTheMove, MoveCall, TypeOK, Call
  <2> QED BY <1>1, <2>1 DEF TwoNodes
<1>3. ASSUME NEW n \in Node PROVE ~SendPieces(n, l.key)
  <2>1. l.key \in Key
    BY DEF Loc
  <2> QED BY <2>1 DEF SendPieces, AllCreated
<1>4. ~Shutdown(p)
  BY DEF Shutdown, MayFail, NoRestart
<1> QED BY <1>2, <1>3, <1>4

\* So, when a piece changes its holder at most once in a cluster of two nodes,
\* no piece is ever lost, however the moves, rebuilds, retries and maps of the
\* two interleave.
THEOREM TwoNodesLoseNothing ==
    ASSUME TwoNodes, PiecesMoveOnce
    PROVE  Spec => []PieceNeverVanishes
<1>1. Init => TypeOK /\ NoDeath /\ NoRestart /\ AllCreated
  BY InitType, NoDeathInit DEF TwoNodes, Init, NoRestart, AllCreated
<1>2. MoveInv /\ NoDeath => PieceNeverVanishes
  BY MovedFromInvariants
<1>3. TypeOK /\ [Next]_vars => TypeOK'
  BY NextType
<1>4. MoveInv /\ NoRestart /\ AllCreated => MoveStep
  BY TwoNodesStep
<1>5. MoveInv /\ NoRestart /\ AllCreated /\ [Next]_vars => MoveInv'
  BY <1>4, MoveNext
<1> QED
  BY <1>1, <1>2, <1>3, <1>5, NoDeathStep, NoRestartStep, AllCreatedStep,
     MoveInit, PTL DEF Spec

\* ... and every acknowledged key can be read for ever.
THEOREM TwoNodesKeepAcked ==
    ASSUME TwoNodes, PiecesMoveOnce
    PROVE  Spec => []AckedIsReadable
<1>1. Spec => []PieceNeverVanishes
  BY TwoNodesLoseNothing
<1> QED BY <1>1, AckedFromStored, AckInit, AckStep, PTL DEF Spec

------------------------------------------------------------------------------
(* -- The object store the nodes are together -- *)

\* The data of a piece, in a store, in a call or in a rebuild, comes from the
\* create of its key.
Started(k) == create[k].pc # "idle"

StoresStarted == \A n \in Node : \A l \in store[n] : Started(l.key)
CallsStarted == \A c \in calls : c.data => Started(c.loc.key)
RebuildsStarted ==
    \A r \in rebuilds :
        r.found # {} \/ r.st \in {"store", "queue"} => Started(r.loc.key)

OriginInv == TypeOK /\ StoresStarted /\ CallsStarted /\ RebuildsStarted

\* What the calls of the next state carry was carried before.
DataFollows ==
    \A d \in calls' : d.data => \E c \in calls : c.data /\ c.loc = d.loc

LEMMA DataSubset == ASSUME calls' \in SUBSET calls PROVE DataFollows
BY DEF DataFollows

LEMMA DataAdvance ==
    ASSUME TypeOK, NEW c \in calls, NEW st \in SendStatus,
           calls' = Advance(c, st)
    PROVE  DataFollows
BY AdvanceKeeps DEF TypeOK, DataFollows

LEMMA DataAbandon ==
    ASSUME TypeOK, NEW S \in SUBSET calls, calls' = Abandon(S)
    PROVE  DataFollows
<1> SUFFICES ASSUME NEW d \in calls', d.data, d \notin calls
             PROVE  \E c \in calls : c.data /\ c.loc = d.loc
  BY DEF DataFollows
<1>1. PICK c \in S : d = [c EXCEPT !.by = "gone"]
  BY DEF Abandon
<1>2. c.data /\ c.loc = d.loc
  BY <1>1 DEF TypeOK, Call
<1> QED BY <1>2

LEMMA DataMark ==
    ASSUME NEW cs \in SUBSET Call, NEW n, NEW l, calls' = MarkReput(cs, n, l),
           \A e \in cs : e.data => \E c \in calls : c.data /\ c.loc = e.loc
    PROVE  DataFollows
BY MarkReputKeeps DEF DataFollows

\* A step that stores nothing and rebuilds nothing.
LEMMA OriginKept ==
    ASSUME OriginInv, TypeOK', DataFollows,
           \A n \in Node : store'[n] \subseteq store[n],
           \A k \in Key : Started(k) => Started(k)',
           rebuilds' \in SUBSET rebuilds
    PROVE  OriginInv'
<1>1. /\ \A n \in Node : \A l \in store[n] : l.key \in Key
      /\ \A c \in calls : c.loc.key \in Key
      /\ \A r \in rebuilds : r.loc.key \in Key
  BY DEF OriginInv, TypeOK, Loc, Call, Rebuild
<1>2. StoresStarted'
  BY <1>1 DEF OriginInv, StoresStarted
<1>3. CallsStarted'
  BY <1>1 DEF OriginInv, CallsStarted, DataFollows
<1>4. RebuildsStarted'
  BY <1>1 DEF OriginInv, RebuildsStarted
<1> QED BY <1>2, <1>3, <1>4 DEF OriginInv

LEMMA OriginPeerIn ==
    ASSUME OriginInv, TypeOK', NEW n \in Node, PeerInNext(n) \/ PeerInFault(n)
    PROVE  OriginInv'
<1> USE DEF world, maps, stabVars, rebuildVars, aux
<1>1. TypeOK
  BY DEF OriginInv
<1>2. UNCHANGED <<create, rebuilds>>
  BY DEF PeerInNext, PeerInFault, RejectPiece, PutPiece, PutFails, QueueTask,
         QueueRebuild
<1>3. ASSUME DataFollows, UNCHANGED store PROVE OriginInv'
  BY <1>2, <1>3, OriginKept DEF Started
<1>4. ASSUME NEW c \in calls,
             RejectPiece(n, c) \/ PutFails(n, c) \/ QueueTask(n, c)
                \/ QueueRebuild(n, c)
      PROVE  OriginInv'
  <2>1. DataFollows
    BY <1>1, <1>4, DataAdvance DEF RejectPiece, PutFails, QueueTask,
                                   QueueRebuild, SendStatus
  <2> QED BY <1>3, <1>4, <2>1 DEF RejectPiece, PutFails, QueueTask,
                                   QueueRebuild
<1>5. ASSUME NEW c \in calls, PutPiece(n, c) PROVE OriginInv'
  <2>1. Started(c.loc.key)
    BY <1>5 DEF PutPiece, OriginInv, CallsStarted
  <2>2. Advance(c, "put") \in SUBSET Call
    BY <1>1, AdvanceType DEF TypeOK, SendStatus
  <2>3. \A d \in Advance(c, "put") :
           d.data => \E b \in calls : b.data /\ b.loc = d.loc
    BY <1>1, AdvanceKeeps DEF TypeOK, SendStatus
  <2>4. DataFollows
    BY <1>5, <2>2, <2>3, DataMark DEF PutPiece
  <2>5. StoresStarted'
    BY <1>1, <1>2, <1>5, <2>1
    DEF PutPiece, TypeOK, OriginInv, StoresStarted, Started
  <2>6. CallsStarted' /\ RebuildsStarted'
    BY <1>2, <2>4
    DEF OriginInv, CallsStarted, RebuildsStarted, DataFollows, Started
  <2> QED BY <2>5, <2>6 DEF OriginInv
<1> QED BY <1>4, <1>5 DEF PeerInNext, PeerInFault

\* A move carries what it read from a store.
LEMMA OriginStabilizer ==
    ASSUME OriginInv, TypeOK', NEW n \in Node,
           StabilizerNext(n) \/ StabilizerFault(n)
    PROVE  OriginInv'
<1> USE DEF world, maps, stabVars, rebuildVars, aux
<1>1. TypeOK
  BY DEF OriginInv
<1>2. UNCHANGED <<create, rebuilds>>
  BY DEF StabilizerNext, StabilizerFault, FlushNext, Drain, ReadCluster,
         GetPiece, DeletePiece, DeleteFails, GetFails, SendFailed, SendLost,
         FailKey, SendRejected, FlushEnds
<1>3. ASSUME DataFollows, \A m \in Node : store'[m] \subseteq store[m]
      PROVE  OriginInv'
  BY <1>2, <1>3, OriginKept DEF Started
<1>4. ASSUME NEW f \in Flusher, Drain(n, f) \/ FlushEnds(n, f)
      PROVE  OriginInv'
  BY <1>3, <1>4, DataSubset DEF Drain, FlushEnds
<1>5. ASSUME NEW f \in Flusher, ReadCluster(n, f) PROVE OriginInv'
  <2>1. \A d \in Tasks(n, f, view[n].stab, flush[n][f].todo) : ~d.data
    BY DEF Tasks
  <2> QED BY <1>3, <1>5, <2>1 DEF ReadCluster, DataFollows
<1>6. ASSUME NEW c \in calls, GetPiece(n, c) PROVE OriginInv'
  <2> DEFINE x == [c EXCEPT !.st = "sent", !.data = (c.loc \in store[n])]
  <2>1. x.loc = c.loc /\ (x.data => c.loc \in store[n])
    BY <1>1 DEF TypeOK, Call
  <2>2. calls' = (calls \ {c}) \cup {x} /\ UNCHANGED store
    BY <1>6 DEF GetPiece
  <2> HIDE DEF x
  <2>3. CallsStarted'
    BY <1>2, <2>1, <2>2 DEF OriginInv, CallsStarted, StoresStarted, Started
  <2>4. StoresStarted' /\ RebuildsStarted'
    BY <1>2, <2>2 DEF OriginInv, StoresStarted, RebuildsStarted, Started
  <2> QED BY <2>3, <2>4 DEF OriginInv
<1>7. ASSUME NEW c \in calls, DeletePiece(n, c) \/ DeleteFails(n, c)
      PROVE  OriginInv'
  <2>1. store' = store \/ store' = [store EXCEPT ![n] = @ \ {c.loc}]
    BY <1>7 DEF DeletePiece, DeleteFails
  <2>2. \A m \in Node : store'[m] \subseteq store[m]
    BY <1>1, <2>1 DEF TypeOK
  <2> QED BY <1>3, <1>7, <2>2, DataSubset DEF DeletePiece, DeleteFails
<1>8. ASSUME NEW c \in calls, FailKey(n, c) \/ SendRejected(n, c)
      PROVE  OriginInv'
  <2>1. /\ {d \in CallsOf(n, c.by) : d.loc.key = c.loc.key} \in SUBSET calls
        /\ CallsOf(n, c.by) \in SUBSET calls
    BY DEF CallsOf
  <2>2. DataFollows
    BY <1>1, <1>8, <2>1, DataAbandon DEF FailKey, SendRejected
  <2> QED BY <1>3, <1>8, <2>2 DEF FailKey, SendRejected
<1> QED
  BY <1>4, <1>5, <1>6, <1>7, <1>8
  DEF StabilizerNext, FlushNext, CallsOf, StabilizerFault, GetFails,
      SendFailed, SendLost

\* A piece is rebuilt from pieces found in stores, and there is one at least.
LEMMA OriginRebuildQueue ==
    ASSUME OriginInv, TypeOK', NEW n \in Node,
           RebuildQueueNext(n) \/ RebuildQueueFault(n)
    PROVE  OriginInv'
<1> USE DEF world, maps, stabVars, rebuildVars, aux
<1>1. TypeOK
  BY DEF OriginInv
<1>2. UNCHANGED create
  BY DEF RebuildQueueNext, RebuildQueueFault, DrainRebuilds,
         ReadRebuildCluster, PieceExists, AnyPieces, NoReply, AskLost,
         Broadcast, RebuildFails, StoreRebuilt, RebuildIoFails, QueueRebuilt,
         RebuildFlushEnds
<1>3. ASSUME UNCHANGED <<store, calls>>, RebuildsStarted' PROVE OriginInv'
  BY <1>2, <1>3 DEF OriginInv, StoresStarted, CallsStarted, Started
<1>4. ASSUME rebuilds' \in SUBSET rebuilds PROVE RebuildsStarted'
  BY <1>2, <1>4 DEF OriginInv, RebuildsStarted, Started
\* A rebuild that goes on with no more than before, or with pieces found.
<1>5. ASSUME NEW r \in rebuilds, NEW new, Become(r, new), new.loc = r.loc,
             new.found # {} \/ new.st \in {"store", "queue"} =>
                Started(r.loc.key)
      PROVE  RebuildsStarted'
  BY <1>2, <1>5 DEF Become, OriginInv, RebuildsStarted, Started
<1>6. ASSUME NEW r \in rebuilds, StoreRebuilt(n, r) PROVE OriginInv'
  <2> DEFINE new == [r EXCEPT !.st = "queue"]
  <2>1. Started(r.loc.key)
    BY <1>6 DEF StoreRebuilt, OriginInv, RebuildsStarted
  <2>2. new.loc = r.loc /\ Become(r, new)
    BY <1>1, <1>6 DEF StoreRebuilt, TypeOK, Rebuild
  <2> HIDE DEF new
  <2>3. RebuildsStarted'
    BY <1>5, <2>1, <2>2
  <2>4. DataFollows
    BY <1>1, <1>6, DataMark DEF StoreRebuilt, TypeOK
  <2>5. CallsStarted'
    BY <1>2, <2>4 DEF OriginInv, CallsStarted, DataFollows, Started
  <2>6. StoresStarted'
    BY <1>1, <1>2, <1>6, <2>1
    DEF StoreRebuilt, TypeOK, OriginInv, StoresStarted, Started
  <2> QED BY <2>3, <2>5, <2>6 DEF OriginInv
<1>7. ASSUME NEW r \in rebuilds, PieceExists(n, r) PROVE RebuildsStarted'
  <2>1. r \in Rebuild
    BY <1>1 DEF TypeOK
  <2> DEFINE new == [r EXCEPT !.st = "scan",
                              !.wait = ScanAsks(r.version, r.loc.key)]
  <2>2. new.loc = r.loc /\ new.found = r.found /\ new.st = "scan"
    BY <2>1 DEF Rebuild
  <2>3. Gone(r) \/ Become(r, new)
    BY <1>7 DEF PieceExists
  <2> HIDE DEF new
  <2> QED BY <1>4, <1>5, <2>2, <2>3 DEF Gone, OriginInv, RebuildsStarted
<1>8. ASSUME NEW r \in rebuilds, NoReply(n, r) \/ AskLost(n, r)
      PROVE  RebuildsStarted'
  <2>1. r \in Rebuild
    BY <1>1 DEF TypeOK
  <2>2. PICK a : Become(r, [r EXCEPT !.wait = @ \ {a}])
    BY <1>8 DEF NoReply, AskLost
  <2> DEFINE new == [r EXCEPT !.wait = @ \ {a}]
  <2>3. new.loc = r.loc /\ new.found = r.found /\ new.st = r.st
    BY <2>1 DEF Rebuild
  <2> HIDE DEF new
  <2> QED BY <1>5, <2>2, <2>3 DEF new, OriginInv, RebuildsStarted
<1>9. ASSUME NEW r \in rebuilds, Broadcast(n, r) PROVE RebuildsStarted'
  <2>1. r \in Rebuild
    BY <1>1 DEF TypeOK
  <2> DEFINE new == [r EXCEPT !.st = "bcast", !.found = {},
                              !.wait = {0} \X Map(r.version).members]
  <2>2. new.loc = r.loc /\ new.found = {} /\ new.st = "bcast"
    BY <2>1 DEF Rebuild
  <2>3. Become(r, new)
    BY <1>9 DEF Broadcast
  <2> HIDE DEF new
  <2> QED BY <1>5, <2>2, <2>3
<1>10. ASSUME NEW r \in rebuilds, AnyPieces(n, r) PROVE RebuildsStarted'
  <2>1. r \in Rebuild
    BY <1>1 DEF TypeOK
  <2>2. PICK a \in r.wait :
           LET found == r.found \cup PiecesAt(a[2], r.loc.key)
           IN  IF Cardinality(found) >= K
               THEN Become(r, [r EXCEPT !.st = "store", !.wait = {},
                                        !.found = {}])
               ELSE Become(r, [r EXCEPT !.wait = @ \ {a}, !.found = found])
    BY <1>10 DEF AnyPieces
  <2> DEFINE found == r.found \cup PiecesAt(a[2], r.loc.key)
             done == [r EXCEPT !.st = "store", !.wait = {}, !.found = {}]
             more == [r EXCEPT !.wait = @ \ {a}, !.found = found]
  <2>3. found # {} => Started(r.loc.key)
    <3>1. a[2] \in Node
      BY <2>1 DEF Rebuild, Ask
    <3>2. PiecesAt(a[2], r.loc.key) # {} => Started(r.loc.key)
      BY <3>1 DEF PiecesAt, OriginInv, StoresStarted
    <3> QED BY <3>2 DEF OriginInv, RebuildsStarted
  <2>4. Cardinality(found) >= K => found # {}
    BY FS_EmptySet, SizeAssumption
  <2>5. /\ done.loc = r.loc /\ more.loc = r.loc
        /\ more.found = found /\ more.st = r.st
    BY <2>1 DEF Rebuild
  <2>6. \/ Cardinality(found) >= K /\ Become(r, done)
        \/ Become(r, more)
    BY <2>2
  <2> HIDE DEF found, done, more
  <2>7. CASE Cardinality(found) >= K /\ Become(r, done)
    BY <1>5, <2>3, <2>4, <2>5, <2>7
  <2>8. CASE Become(r, more)
    BY <1>5, <2>3, <2>5, <2>8 DEF OriginInv, RebuildsStarted
  <2> QED BY <2>6, <2>7, <2>8
<1>11. ASSUME ReadRebuildCluster(n) PROVE RebuildsStarted'
  <2>1. \A r \in rebuilds' : \/ r \in rebuilds
                             \/ r.found = {} /\ r.st = "check"
    BY <1>11 DEF ReadRebuildCluster
  <2> QED BY <1>2, <2>1 DEF OriginInv, RebuildsStarted, Started
<1>12. \/ \E r \in rebuilds : StoreRebuilt(n, r)
       \/ UNCHANGED <<store, calls>>
  BY DEF RebuildQueueNext, RebuildQueueFault, DrainRebuilds,
         ReadRebuildCluster, PieceExists, AnyPieces, NoReply, Broadcast,
         RebuildFails, QueueRebuilt, RebuildFlushEnds, AskLost, RebuildIoFails
<1>13. ASSUME NEW r \in rebuilds,
              RebuildFails(n, r) \/ RebuildIoFails(n, r) \/ QueueRebuilt(n, r)
       PROVE  RebuildsStarted'
  BY <1>4, <1>13 DEF RebuildFails, RebuildIoFails, QueueRebuilt, Gone
<1>14. ASSUME DrainRebuilds(n) \/ RebuildFlushEnds(n) PROVE RebuildsStarted'
  BY <1>4, <1>14 DEF DrainRebuilds, RebuildFlushEnds
<1> QED
  BY <1>3, <1>6, <1>7, <1>8, <1>9, <1>10, <1>11, <1>12, <1>13, <1>14
  DEF RebuildQueueNext, RebuildQueueFault

LEMMA OriginIOFront ==
    ASSUME OriginInv, TypeOK', NEW n \in Node, IOFrontNext(n) \/ IOFrontFault(n)
    PROVE  OriginInv'
<1> USE DEF world, maps, stabVars, rebuildVars, aux
<1>1. TypeOK /\ \A c \in calls : c.loc.key \in Key
  BY DEF OriginInv, TypeOK, Call, Loc
<1>2. UNCHANGED <<store, rebuilds>>
  BY DEF IOFrontNext, IOFrontFault, CreateBegins, SendPieces, CountOk,
         CountNotOk, CreateLost, CreateReturns
<1>3. \A k \in Key : Started(k) => Started(k)'
  <2>1. CASE UNCHANGED create
    BY <2>1 DEF Started
  <2>2. ASSUME NEW x \in Key,
               CreateBegins(n, x) \/ SendPieces(n, x) \/ CreateReturns(n, x)
        PROVE  \A k \in Key : Started(k) => Started(k)'
    <3>1. create \in [Key -> CreateState]
      BY <1>1 DEF TypeOK
    <3>2. create'[x].pc # "idle" /\ \A k \in Key \ {x} : create'[k] = create[k]
      BY <2>2, <3>1
      DEF CreateBegins, SendPieces, CreateReturns, CreateState
    <3> QED BY <3>2 DEF Started
  <2>3. ASSUME NEW c \in calls, CountOk(n, c)
        PROVE  \A k \in Key : Started(k) => Started(k)'
    <3>1. create \in [Key -> CreateState]
      BY <1>1 DEF TypeOK
    <3>2. \A k \in Key : create'[k].pc = create[k].pc
      BY <2>3, <3>1 DEF CountOk, CreateState
    <3> QED BY <3>2 DEF Started
  <2> QED
    BY <2>1, <2>2, <2>3 DEF IOFrontNext, IOFrontFault, CountNotOk, CreateLost
<1>4. ASSUME DataFollows PROVE OriginInv'
  BY <1>2, <1>3, <1>4, OriginKept
<1>5. ASSUME NEW k \in Key, SendPieces(n, k) PROVE OriginInv'
  <2> DEFINE piece(l) == [from |-> n, by |-> "create",
                          to |-> HolderAt(create[k].hv, l), loc |-> l,
                          version |-> view[n].io, data |-> TRUE,
                          st |-> "sent", reput |-> FALSE]
  <2>1. \A d \in calls' : \/ d \in calls
                          \/ \E l \in LocsOf(k) : d = piece(l)
    BY <1>5 DEF SendPieces
  <2>2. \A l \in LocsOf(k) : piece(l).loc = l /\ l.key = k
    BY DEF LocsOf
  <2> HIDE DEF piece
  <2>3. Started(k)
    BY <1>5 DEF SendPieces, Started
  <2>4. CallsStarted'
    BY <1>1, <1>3, <2>1, <2>2, <2>3 DEF OriginInv, CallsStarted
  <2>5. StoresStarted' /\ RebuildsStarted'
    <3>1. /\ \A m \in Node : \A l \in store[m] : l.key \in Key
          /\ \A r \in rebuilds : r.loc.key \in Key
      BY <1>1 DEF TypeOK, Loc, Rebuild
    <3> QED BY <1>2, <1>3, <3>1 DEF OriginInv, StoresStarted, RebuildsStarted
  <2> QED BY <2>4, <2>5 DEF OriginInv
<1>6. ASSUME NEW c \in calls, CountNotOk(n, c) \/ CreateLost(n, c)
      PROVE  OriginInv'
  <2>1. calls' = Abandon({c})
    BY <1>6 DEF CountNotOk, CreateLost
  <2> QED BY <1>1, <1>4, <2>1, DataAbandon
<1>7. ASSUME calls' \in SUBSET calls PROVE OriginInv'
  BY <1>4, <1>7, DataSubset
<1> QED
  BY <1>5, <1>6, <1>7
  DEF IOFrontNext, IOFrontFault, CreateBegins, CountOk, CreateReturns

LEMMA OriginStep == OriginInv /\ [Next]_vars => OriginInv'
<1> SUFFICES ASSUME OriginInv, [Next]_vars PROVE OriginInv'
  OBVIOUS
<1> USE DEF world, maps, stabVars, rebuildVars, aux
<1>0. TypeOK /\ TypeOK'
  BY NextType DEF OriginInv
<1>1. ASSUME UNCHANGED <<store, create, rebuilds>>, calls' \in SUBSET calls
      PROVE  OriginInv'
  BY <1>0, <1>1, DataSubset, OriginKept DEF Started
<1>2. ASSUME NEW n \in Node, ClusterInNext(n) \/ ClusterInFault(n)
      PROVE  OriginInv'
  <2>1. UNCHANGED <<store, create, rebuilds, calls>>
    BY <1>2 DEF ClusterInNext, ClusterInFault, BeginInstall, Reapply,
                SetNewCluster, ReadKeys, KeysFails, ResetQueue
  <2> QED BY <1>1, <2>1
<1>3. ASSUME NEW n \in Node, Crash(n) \/ Shutdown(n) PROVE OriginInv'
  <2>1. {c \in calls : c.from = n} \in SUBSET calls
    OBVIOUS
  <2>2. DataFollows
    BY <1>0, <1>3, <2>1, DataAbandon DEF Crash, Shutdown
  <2>3. \A k \in Key : Started(k) => Started(k)'
    <3>1. create \in [Key -> CreateState]
      BY <1>0 DEF TypeOK
    <3>2. CASE Crash(n)
      <4>1. \A k \in Key : \/ create'[k] = create[k]
                           \/ create'[k] = [create[k] EXCEPT !.pc = "failed"]
        BY <3>2 DEF Crash
      <4> QED BY <3>1, <4>1 DEF CreateState, Started
    <3> QED BY <1>3, <3>2 DEF Shutdown, Started
  <2>4. \A m \in Node : store'[m] \subseteq store[m]
    BY <1>0, <1>3 DEF Crash, Shutdown, TypeOK
  <2>5. rebuilds' \in SUBSET rebuilds
    BY <1>3 DEF Crash, Shutdown
  <2> QED BY <1>0, <2>2, <2>3, <2>4, <2>5, OriginKept
<1>4. ASSUME NEW n \in Node, Boot(n) PROVE OriginInv'
  BY <1>1, <1>4 DEF Boot
<1>5. ASSUME NEW n \in Node, NodeNext(n) \/ FaultNext(n) PROVE OriginInv'
  BY <1>0, <1>2, <1>3, <1>4, <1>5, OriginPeerIn, OriginStabilizer,
     OriginRebuildQueue, OriginIOFront DEF NodeNext, FaultNext
<1>6. ASSUME NEW c \in calls, LoseAbandoned(c) PROVE OriginInv'
  BY <1>1, <1>6 DEF LoseAbandoned
<1>7. CASE UNCHANGED vars
  BY <1>1, <1>7 DEF vars
<1> QED BY <1>5, <1>6, <1>7 DEF Next

LEMMA OriginInit == Init => OriginInv
<1> SUFFICES ASSUME Init PROVE OriginInv
  OBVIOUS
<1>1. StoresStarted
  BY DEF Init, StoresStarted, Started, Loc
<1>2. CallsStarted /\ RebuildsStarted
  BY DEF Init, CallsStarted, RebuildsStarted
<1> QED BY <1>1, <1>2, InitType DEF OriginInv

\* What a store has was written to it.
StoresWritten == \A n \in Node : store[n] \subseteq written

LEMMA StoresWrittenStep ==
    TypeOK /\ StoresWritten /\ [Next]_vars => StoresWritten'
<1> SUFFICES ASSUME TypeOK, StoresWritten, [Next]_vars PROVE StoresWritten'
  OBVIOUS
<1> USE DEF world, maps, stabVars, rebuildVars, aux
<1>1. ASSUME UNCHANGED written, \A n \in Node : store'[n] \subseteq store[n]
      PROVE  StoresWritten'
  BY <1>1 DEF StoresWritten
<1>2. ASSUME NEW n \in Node, PeerInNext(n) \/ PeerInFault(n)
      PROVE  StoresWritten'
  <2>1. ASSUME NEW c \in calls, PutPiece(n, c) PROVE StoresWritten'
    BY <2>1 DEF PutPiece, TypeOK, StoresWritten
  <2> QED
    BY <1>1, <1>2, <2>1 DEF PeerInNext, PeerInFault, RejectPiece, PutFails,
                            QueueTask, QueueRebuild
<1>3. ASSUME NEW n \in Node, StabilizerNext(n) \/ StabilizerFault(n)
      PROVE  StoresWritten'
  <2>1. ASSUME NEW c \in calls, DeletePiece(n, c) PROVE StoresWritten'
    BY <1>1, <2>1 DEF DeletePiece, TypeOK
  <2>2. \/ \E c \in calls : DeletePiece(n, c)
        \/ UNCHANGED <<store, written>>
    BY <1>3 DEF StabilizerNext, StabilizerFault, FlushNext, CallsOf, Drain,
                ReadCluster, GetPiece, DeleteFails, GetFails, SendFailed,
                SendLost, FailKey, SendRejected, FlushEnds
  <2> QED BY <1>1, <2>1, <2>2
<1>4. ASSUME NEW n \in Node, RebuildQueueNext(n) \/ RebuildQueueFault(n)
      PROVE  StoresWritten'
  <2>1. ASSUME NEW r \in rebuilds, StoreRebuilt(n, r) PROVE StoresWritten'
    BY <2>1 DEF StoreRebuilt, TypeOK, StoresWritten
  <2>2. \/ \E r \in rebuilds : StoreRebuilt(n, r)
        \/ UNCHANGED <<store, written>>
    BY <1>4 DEF RebuildQueueNext, RebuildQueueFault, DrainRebuilds,
                ReadRebuildCluster, PieceExists, AnyPieces, NoReply,
                Broadcast, RebuildFails, QueueRebuilt, RebuildFlushEnds,
                AskLost, RebuildIoFails
  <2> QED BY <1>1, <2>1, <2>2
<1>5. ASSUME NEW n \in Node, ClusterInNext(n) \/ ClusterInFault(n)
                \/ IOFrontNext(n) \/ IOFrontFault(n)
      PROVE  StoresWritten'
  BY <1>1, <1>5 DEF ClusterInNext, ClusterInFault, BeginInstall, Reapply,
                    SetNewCluster, ReadKeys, KeysFails, ResetQueue,
                    IOFrontNext, IOFrontFault, CreateBegins, SendPieces,
                    CountOk, CountNotOk, CreateLost, CreateReturns
<1>6. ASSUME NEW n \in Node, Crash(n) \/ Shutdown(n) \/ Boot(n)
      PROVE  StoresWritten'
  BY <1>1, <1>6 DEF Crash, Shutdown, Boot, TypeOK
<1>7. ASSUME NEW n \in Node, NodeNext(n) \/ FaultNext(n) PROVE StoresWritten'
  BY <1>2, <1>3, <1>4, <1>5, <1>6, <1>7 DEF NodeNext, FaultNext
<1>8. ASSUME NEW c \in calls, LoseAbandoned(c) PROVE StoresWritten'
  BY <1>1, <1>8 DEF LoseAbandoned
<1>9. CASE UNCHANGED vars
  BY <1>1, <1>9 DEF vars
<1> QED BY <1>7, <1>8, <1>9 DEF Next

LEMMA StoresWrittenInit == Init => StoresWritten
BY NoNodeAssumption DEF Init, StoresWritten

\* A call that has not read its store yet is not marked.
GetFresh == \A c \in calls : c.st = "get" => ~c.reput

\* The calls of the next state that have not read yet were as fresh before.
FreshFollows == \A d \in calls' : d.st = "get" /\ d.reput => d \in calls

LEMMA AdvanceFresh ==
    ASSUME TypeOK, NEW c \in calls, NEW st \in SendStatus \ {"get"},
           calls' = Advance(c, st)
    PROVE  FreshFollows
BY AdvanceKeeps DEF TypeOK, SendStatus, FreshFollows

LEMMA AbandonFresh ==
    ASSUME TypeOK, NEW S \in SUBSET calls, calls' = Abandon(S)
    PROVE  FreshFollows
<1> SUFFICES ASSUME NEW d \in calls', d \notin calls PROVE d.st # "get"
  BY DEF FreshFollows
<1>1. PICK c \in S : /\ c.st \in {"sent", "put"}
                     /\ d = [c EXCEPT !.by = "gone"]
  BY DEF Abandon
<1> QED BY <1>1 DEF TypeOK, Call

LEMMA MarkFresh ==
    ASSUME NEW cs \in SUBSET Call, NEW n, NEW l, calls' = MarkReput(cs, n, l),
           \A e \in cs : e.st = "get" /\ e.reput => e \in calls
    PROVE  FreshFollows
<1> SUFFICES ASSUME NEW d \in calls', d.st = "get", d.reput PROVE d \in calls
  BY DEF FreshFollows
<1>1. PICK e \in cs : d = IF /\ e.from = n /\ e.loc = l /\ e.data
                             /\ e.by \in Flusher /\ e.st \in {"sent", "put", "ok"}
                          THEN [e EXCEPT !.reput = TRUE] ELSE e
  BY DEF MarkReput
<1>2. d = e
  BY <1>1 DEF Call
<1> QED BY <1>2

LEMMA GetFreshStep == TypeOK /\ GetFresh /\ [Next]_vars => GetFresh'
<1> SUFFICES ASSUME TypeOK, GetFresh, [Next]_vars PROVE GetFresh'
  OBVIOUS
<1> USE DEF world, maps, stabVars, rebuildVars, aux
<1>1. FreshFollows => GetFresh'
  BY DEF FreshFollows, GetFresh
<1>2. calls' \in SUBSET calls => GetFresh'
  BY DEF GetFresh
<1>3. ASSUME NEW S \in SUBSET calls, calls' = Abandon(S) PROVE GetFresh'
  BY <1>1, <1>3, AbandonFresh
<1>4. ASSUME NEW n \in Node, PeerInNext(n) \/ PeerInFault(n) PROVE GetFresh'
  <2>1. ASSUME NEW c \in calls, PutPiece(n, c) PROVE GetFresh'
    <3>1. Advance(c, "put") \in SUBSET Call
      BY AdvanceType DEF TypeOK, SendStatus
    <3>2. \A e \in Advance(c, "put") : e.st = "get" /\ e.reput => e \in calls
      BY AdvanceKeeps DEF TypeOK, SendStatus
    <3> QED BY <1>1, <2>1, <3>1, <3>2, MarkFresh DEF PutPiece
  <2>2. ASSUME NEW c \in calls, RejectPiece(n, c) \/ PutFails(n, c)
                                   \/ QueueTask(n, c) \/ QueueRebuild(n, c)
        PROVE  GetFresh'
    BY <1>1, <2>2, AdvanceFresh
    DEF RejectPiece, PutFails, QueueTask, QueueRebuild, SendStatus
  <2> QED BY <1>4, <2>1, <2>2 DEF PeerInNext, PeerInFault
<1>5. ASSUME NEW n \in Node, StabilizerNext(n) \/ StabilizerFault(n)
      PROVE  GetFresh'
  <2>1. ASSUME NEW f \in Flusher, Drain(n, f) \/ FlushEnds(n, f)
        PROVE  GetFresh'
    BY <1>2, <2>1 DEF Drain, FlushEnds
  <2>2. ASSUME NEW f \in Flusher, ReadCluster(n, f) PROVE GetFresh'
    <3>1. \A d \in Tasks(n, f, view[n].stab, flush[n][f].todo) : ~d.reput
      BY DEF Tasks
    <3> QED BY <1>1, <2>2, <3>1 DEF ReadCluster, FreshFollows
  <2>3. ASSUME NEW c \in calls, GetPiece(n, c) PROVE GetFresh'
    <3>1. [c EXCEPT !.st = "sent", !.data = (c.loc \in store[n])].st = "sent"
      BY DEF TypeOK, Call
    <3> QED BY <1>1, <2>3, <3>1 DEF GetPiece, FreshFollows
  <2>4. ASSUME NEW c \in calls, DeletePiece(n, c) \/ DeleteFails(n, c)
        PROVE  GetFresh'
    BY <1>2, <2>4 DEF DeletePiece, DeleteFails
  <2>5. ASSUME NEW c \in calls, FailKey(n, c) \/ SendRejected(n, c)
        PROVE  GetFresh'
    <3>1. /\ {d \in CallsOf(n, c.by) : d.loc.key = c.loc.key} \in SUBSET calls
          /\ CallsOf(n, c.by) \in SUBSET calls
      BY DEF CallsOf
    <3> QED BY <1>3, <2>5, <3>1 DEF FailKey, SendRejected
  <2> QED
    BY <1>5, <2>1, <2>2, <2>3, <2>4, <2>5
    DEF StabilizerNext, FlushNext, CallsOf, StabilizerFault, GetFails,
        SendFailed, SendLost
<1>6. ASSUME NEW n \in Node, RebuildQueueNext(n) \/ RebuildQueueFault(n)
      PROVE  GetFresh'
  <2>1. ASSUME NEW r \in rebuilds, StoreRebuilt(n, r) PROVE GetFresh'
    BY <1>1, <2>1, MarkFresh DEF StoreRebuilt, TypeOK
  <2>2. (\E r \in rebuilds : StoreRebuilt(n, r)) \/ UNCHANGED calls
    BY <1>6 DEF RebuildQueueNext, RebuildQueueFault, DrainRebuilds,
                ReadRebuildCluster, PieceExists, AnyPieces, NoReply,
                Broadcast, RebuildFails, QueueRebuilt, RebuildFlushEnds,
                AskLost, RebuildIoFails
  <2> QED BY <1>2, <2>1, <2>2
<1>7. ASSUME NEW n \in Node, IOFrontNext(n) \/ IOFrontFault(n) PROVE GetFresh'
  <2>1. ASSUME NEW k \in Key, SendPieces(n, k) PROVE GetFresh'
    <3>1. \A d \in calls' : d \in calls \/ ~d.reput
      BY <2>1 DEF SendPieces
    <3> QED BY <1>1, <3>1 DEF FreshFollows
  <2>2. ASSUME NEW c \in calls, CountNotOk(n, c) \/ CreateLost(n, c)
        PROVE  GetFresh'
    <3>1. {c} \in SUBSET calls
      OBVIOUS
    <3> QED BY <1>3, <2>2, <3>1 DEF CountNotOk, CreateLost
  <2> QED
    BY <1>2, <1>7, <2>1, <2>2
    DEF IOFrontNext, IOFrontFault, CreateBegins, CountOk, CreateReturns
<1>8. ASSUME NEW n \in Node, Crash(n) \/ Shutdown(n) PROVE GetFresh'
  <2>1. {c \in calls : c.from = n} \in SUBSET calls
    OBVIOUS
  <2> QED BY <1>3, <1>8, <2>1 DEF Crash, Shutdown
<1>9. ASSUME NEW n \in Node, ClusterInNext(n) \/ ClusterInFault(n) \/ Boot(n)
      PROVE  GetFresh'
  BY <1>2, <1>9 DEF Boot, ClusterInNext, ClusterInFault, BeginInstall,
                    Reapply, SetNewCluster, ReadKeys, KeysFails, ResetQueue
<1>10. ASSUME NEW n \in Node, NodeNext(n) \/ FaultNext(n) PROVE GetFresh'
  BY <1>4, <1>5, <1>6, <1>7, <1>8, <1>9, <1>10 DEF NodeNext, FaultNext
<1>11. CASE UNCHANGED vars \/ \E c \in calls : LoseAbandoned(c)
  BY <1>2, <1>11 DEF vars, LoseAbandoned
<1> QED BY <1>10, <1>11 DEF Next

LEMMA GetFreshInit == Init => GetFresh
BY DEF Init, GetFresh

\* The moves of the next state go back to moves of this state, and only a
\* copy in "stored" was stored again meanwhile.
MovesFollow(stored) ==
    \A d \in calls' : IsMove(d) =>
        \E c \in calls : /\ IsMove(c) /\ c.from = d.from /\ c.loc = d.loc
                         /\ d.reput => \/ c.reput
                                       \/ <<d.from, d.loc>> \in stored

LEMMA MovesImplement ==
    ASSUME NEW stored, MovesFollow(stored) PROVE Objects!MovesGoOn({}, stored)
BY DEF MovesFollow, Objects!MovesGoOn, Copies

LEMMA MovesSubset == ASSUME calls' \in SUBSET calls PROVE MovesFollow({})
BY DEF MovesFollow

LEMMA MovesAdvance ==
    ASSUME TypeOK, NEW c \in calls, c.st \in {"sent", "put"},
           NEW st \in SendStatus, calls' = Advance(c, st)
    PROVE  MovesFollow({})
BY AdvanceKeeps DEF TypeOK, MovesFollow, IsMove

LEMMA MovesAbandon ==
    ASSUME TypeOK, NEW S \in SUBSET calls, calls' = Abandon(S)
    PROVE  MovesFollow({})
<1>1. \A d \in calls' : d \in calls \/ d.by = "gone"
  BY AbandonKeeps DEF TypeOK
<1> QED BY <1>1 DEF MovesFollow, IsMove, Flusher

LEMMA MovesMark ==
    ASSUME NEW cs \in SUBSET Call, NEW n, NEW l, calls' = MarkReput(cs, n, l),
           \A e \in cs : IsMove(e) =>
              \E c \in calls : /\ IsMove(c) /\ c.from = e.from
                               /\ c.loc = e.loc /\ c.reput = e.reput
    PROVE  MovesFollow({<<n, l>>})
<1> SUFFICES ASSUME NEW d \in calls', IsMove(d)
             PROVE  \E c \in calls :
                       /\ IsMove(c) /\ c.from = d.from /\ c.loc = d.loc
                       /\ d.reput => \/ c.reput
                                     \/ <<d.from, d.loc>> \in {<<n, l>>}
  BY DEF MovesFollow
<1>1. PICK e \in cs : \/ d = e
                      \/ /\ e.from = n /\ e.loc = l
                         /\ d = [e EXCEPT !.reput = TRUE]
  BY DEF MarkReput
<1>2. /\ e.from = d.from /\ e.loc = d.loc /\ IsMove(e)
      /\ d = e \/ (d.from = n /\ d.loc = l)
  BY <1>1 DEF Call, IsMove
<1> QED BY <1>2

ObjectInv == OriginInv /\ StoresWritten /\ AckInv /\ LossInv /\ GetFresh

LEMMA SameCardinality ==
    ASSUME NEW S
    PROVE  Objects!Cardinality(S) = Cardinality(S)
BY Zenon DEF Objects!Cardinality, Cardinality

\* The pieces a key has stored count for the client.
LEMMA StoredCovers ==
    ASSUME AckInv, LossInv, NEW k \in Key
    PROVE  /\ Cardinality(Stored(k)) \in Nat
           /\ Cardinality(Objects!Covered(k)) \in Nat
           /\ Cardinality(Stored(k)) <= Cardinality(Objects!Covered(k))
<1>1. Objects!Covered(k) = {l \in LocsOf(k) : l \in exposed \/ Held(l)}
  BY DEF Objects!Covered, Objects!Loc, LocsOf, Loc, Held
<1>2. Stored(k) \subseteq Objects!Covered(k)
  BY <1>1 DEF Stored, LossInv, SafeCopy, Held
<1>3. Objects!Covered(k) \subseteq LocsOf(k)
  BY <1>1
<1> QED BY <1>2, <1>3, CountMonotone

\* The client of k learns something, the others do not.
LEMMA OneLearns ==
    ASSUME TypeOK, NEW k \in Key, NEW x, create' = [create EXCEPT ![k] = x]
    PROVE  [y \in Key |-> Phase(y)]'
              = [[y \in Key |-> Phase(y)] EXCEPT ![k] = Phase(k)']
<1>1. \A y \in Key \ {k} : create'[y] = create[y]
  BY DEF TypeOK
<1>2. \A y \in Key \ {k} : Phase(y)' = Phase(y)
  BY <1>1 DEF Phase
<1> QED BY <1>2, Zenon

\* What changes neither stores nor phases at most gives up moves.
LEMMA GiveUpImplements ==
    ASSUME UNCHANGED <<store, exposed>>, \A k \in Key : Phase(k)' = Phase(k),
           MovesFollow({})
    PROVE  Objects!GiveUp
BY MovesImplement DEF Objects!GiveUp

LEMMA PutImplements ==
    ASSUME ObjectInv, NEW n \in Node, NEW l \in Loc, Started(l.key),
           store' = [store EXCEPT ![n] = @ \cup {l}],
           UNCHANGED <<create, exposed>>, MovesFollow({<<n, l>>})
    PROVE  Objects!Next
<1>1. l.key \in Key /\ Phase(l.key) # "idle"
  BY DEF Loc, Started, Phase
<1>2. UNCHANGED [k \in Key |-> Phase(k)]
  BY DEF Phase
<1>3. Objects!Put(n, l)
  BY <1>1, <1>2, MovesImplement DEF Objects!Put
<1> QED BY <1>3 DEF Objects!Next, Objects!Loc, Loc

LEMMA ReadImplements ==
    ASSUME ObjectInv, NEW n \in Node, NEW c \in calls, GetPiece(n, c)
    PROVE  Objects!Next
<1> DEFINE x == [c EXCEPT !.st = "sent", !.data = (c.loc \in store[n])]
<1>1. c \in Call /\ ~c.reput /\ c.from = n /\ c.loc \in Loc
  BY DEF ObjectInv, GetFresh, LossInv, TypeOK, GetPiece, Mine, Call
<1>2. /\ x.loc = c.loc /\ x.from = n /\ ~x.reput
      /\ x.data = (c.loc \in store[n])
  BY <1>1 DEF Call
<1>3. /\ calls' = (calls \ {c}) \cup {x}
      /\ UNCHANGED <<store, exposed, create>>
  BY DEF GetPiece, aux
<1> HIDE DEF x
<1>4. UNCHANGED [k \in Key |-> Phase(k)]
  BY <1>3 DEF Phase
<1>5. CASE c.loc \in store[n]
  <2>1. \A d \in calls' : d \in calls \/ d = x
    BY <1>3
  <2>2. Objects!MovesGoOn({<<n, c.loc>>}, {})
    BY <1>2, <2>1 DEF Objects!MovesGoOn, Copies
  <2>3. Objects!Read(n, c.loc)
    BY <1>3, <1>4, <1>5, <2>2 DEF Objects!Read
  <2> QED BY <1>1, <2>3 DEF Objects!Next, Objects!Loc, Loc
<1>6. CASE c.loc \notin store[n]
  <2>1. MovesFollow({})
    BY <1>2, <1>3, <1>6 DEF MovesFollow, IsMove
  <2> QED
    BY <1>3, <2>1, GiveUpImplements DEF Phase, Objects!Next
<1> QED BY <1>5, <1>6

\* A copy is deleted while a safe one is elsewhere, or with an excuse.
LEMMA DeleteImplements ==
    ASSUME ObjectInv, LossInv', NEW n \in Node, NEW c \in calls,
           DeletePiece(n, c)
    PROVE  Objects!Next
<1>1. TypeOK /\ c.loc \in Loc
  BY DEF ObjectInv, LossInv, TypeOK, Call
<1>2. UNCHANGED create /\ UNCHANGED [k \in Key |-> Phase(k)]
  BY DEF DeletePiece, aux, Phase
<1>3. MovesFollow({}) /\ Objects!MovesGoOn({}, {})
  BY MovesSubset, MovesImplement DEF DeletePiece
<1>4. CASE ~c.data \/ (c.loc \notin store[n] /\ ~c.reput)
  <2>1. UNCHANGED <<store, exposed>>
    BY <1>1, <1>4 DEF DeletePiece, TypeOK
  <2> QED BY <1>2, <1>3, <2>1, GiveUpImplements DEF Phase, Objects!Next
<1>5. CASE c.data /\ (c.loc \in store[n] \/ c.reput)
  <2>1. /\ store' = [store EXCEPT ![n] = @ \ {c.loc}]
        /\ exposed' = IF c.reput THEN exposed \cup {c.loc} ELSE exposed
        /\ written' = written /\ c.from = n /\ IsMove(c)
    BY <1>5 DEF DeletePiece, Mine, IsMove
  <2>2. /\ <<n, c.loc>> \in Copies({d \in calls : IsMove(d)})
        /\ c.reput =>
              <<n, c.loc>> \in Copies({d \in calls : IsMove(d) /\ d.reput})
    BY <2>1 DEF Copies
  <2>3. CASE c.reput
    <3>1. Objects!Delete(n, c.loc)
      BY <1>2, <1>3, <2>1, <2>2, <2>3 DEF Objects!Delete
    <3> QED BY <1>1, <3>1 DEF Objects!Next, Objects!Loc, Loc
  <2>4. CASE ~c.reput
    <3>1. c.loc \in exposed \/ \E m \in Node \ {n} : c.loc \in store[m]
      <4> SUFFICES ASSUME c.loc \notin exposed
                   PROVE  \E m \in Node \ {n} : c.loc \in store[m]
        OBVIOUS
      <4>1. c.loc \in written' \ exposed'
        BY <1>5, <2>1, <2>4 DEF ObjectInv, StoresWritten
      <4>2. PICK m \in Node : c.loc \in store'[m]
        BY <4>1 DEF LossInv, SafeCopy
      <4> QED BY <1>1, <2>1, <4>2 DEF TypeOK
    <3>2. Objects!Delete(n, c.loc)
      BY <1>2, <1>3, <2>1, <2>2, <2>4, <3>1 DEF Objects!Delete
    <3> QED BY <1>1, <3>2 DEF Objects!Next, Objects!Loc, Loc
  <2> QED BY <2>3, <2>4
<1> QED BY <1>4, <1>5

LEMMA CreateImplements ==
    ASSUME ObjectInv, NEW n \in Node, IOFrontNext(n) \/ IOFrontFault(n)
    PROVE  Objects!Next
<1> USE DEF world, maps, stabVars, rebuildVars, aux
<1>1. TypeOK /\ create \in [Key -> CreateState]
  BY DEF ObjectInv, LossInv, TypeOK
<1>2. UNCHANGED <<store, exposed>>
  BY DEF IOFrontNext, IOFrontFault, CreateBegins, SendPieces, CountOk,
         CountNotOk, CreateLost, CreateReturns
<1>3. ASSUME NEW k \in Key, CreateBegins(n, k) PROVE Objects!Begin(k)
  <2>1. Phase(k) = "idle" /\ Phase(k)' = "writing"
    BY <1>1, <1>3 DEF CreateBegins, Phase
  <2>2. [y \in Key |-> Phase(y)]'
           = [[y \in Key |-> Phase(y)] EXCEPT ![k] = "writing"]
    BY <1>1, <1>3, <2>1, OneLearns DEF CreateBegins
  <2>3. Objects!MovesGoOn({}, {})
    BY <1>3, MovesSubset, MovesImplement DEF CreateBegins
  <2> QED BY <1>2, <2>1, <2>2, <2>3 DEF Objects!Begin
<1>4. ASSUME NEW k \in Key, SendPieces(n, k) PROVE Objects!GiveUp
  <2>1. \A y \in Key : Phase(y)' = Phase(y)
    BY <1>1, <1>4 DEF SendPieces, Phase, CreateState
  <2>2. \A d \in calls' : d \in calls \/ d.by = "create"
    BY <1>4 DEF SendPieces
  <2>3. MovesFollow({})
    BY <2>2 DEF MovesFollow, IsMove, Flusher
  <2> QED BY <1>2, <2>1, <2>3, GiveUpImplements
<1>5. ASSUME NEW c \in calls, CountOk(n, c) PROVE Objects!GiveUp
  <2>1. \A y \in Key : create'[y].pc = create[y].pc
    BY <1>1, <1>5 DEF CountOk, CreateState
  <2>2. MovesFollow({})
    BY <1>5, MovesSubset DEF CountOk
  <2> QED BY <1>2, <2>1, <2>2, GiveUpImplements DEF Phase
<1>6. ASSUME NEW k \in Key, CreateReturns(n, k) PROVE Objects!Return(k)
  <2> DEFINE pc == IF create[k].ok >= K THEN "acked" ELSE "failed"
  <2>1. Phase(k) = "writing" /\ Phase(k)' = pc
    BY <1>1, <1>6 DEF CreateReturns, Phase, CreateState
  <2>2. create' = [create EXCEPT ![k] = [create[k] EXCEPT !.pc = pc]]
    BY <1>6 DEF CreateReturns
  <2> HIDE DEF pc
  <2>3. [y \in Key |-> Phase(y)]'
           = [[y \in Key |-> Phase(y)] EXCEPT ![k] = pc]
    BY <1>1, <2>1, <2>2, OneLearns
  <2>4. create[k].ok >= K => Cardinality(Objects!Covered(k)) >= K
    <3>1. create[k].ok <= Cardinality(Counted(k)) /\ create[k].ok \in Nat
      BY <1>1, <1>6 DEF CreateReturns, ObjectInv, AckInv, CreateCounts,
                        CreateState
    <3>2. Counted(k) \in SUBSET Stored(k) /\ Stored(k) \in SUBSET LocsOf(k)
      BY DEF Counted, Stored
    <3>3. /\ Cardinality(Counted(k)) \in Nat /\ Cardinality(Stored(k)) \in Nat
          /\ Cardinality(Counted(k)) <= Cardinality(Stored(k))
      BY <3>2, CountMonotone
    <3>4. /\ Cardinality(Objects!Covered(k)) \in Nat
          /\ Cardinality(Stored(k)) <= Cardinality(Objects!Covered(k))
      BY StoredCovers DEF ObjectInv
    <3> QED BY <3>1, <3>3, <3>4, SizeAssumption
  <2>5. \/ pc = "failed"
        \/ pc = "acked" /\ Cardinality(Objects!Covered(k)) >= K
    BY <2>4 DEF pc
  <2>6. [y \in Key |-> Phase(y)][k] = "writing"
    BY <2>1
  <2>7. Objects!Cardinality(Objects!Covered(k)) = Cardinality(Objects!Covered(k))
    BY SameCardinality
  <2>8. Objects!MovesGoOn({}, {})
    BY <1>6, MovesSubset, MovesImplement DEF CreateReturns
  <2>9. CASE pc = "failed"
    BY <1>2, <2>3, <2>6, <2>8, <2>9, Zenon DEF Objects!Return
  <2>10. CASE pc = "acked" /\ Cardinality(Objects!Covered(k)) >= K
    BY <1>2, <2>3, <2>6, <2>7, <2>8, <2>10, Zenon DEF Objects!Return
  <2> QED BY <2>5, <2>9, <2>10
<1>7. ASSUME NEW c \in calls, CountNotOk(n, c) \/ CreateLost(n, c)
      PROVE  Objects!GiveUp
  <2>1. {c} \in SUBSET calls
    OBVIOUS
  <2>2. MovesFollow({})
    BY <1>1, <1>7, <2>1, MovesAbandon DEF CountNotOk, CreateLost
  <2> QED
    BY <1>2, <1>7, <2>2, GiveUpImplements DEF CountNotOk, CreateLost, Phase
<1> QED
  BY <1>3, <1>4, <1>5, <1>6, <1>7
  DEF IOFrontNext, IOFrontFault, Objects!Next

LEMMA CrashImplements ==
    ASSUME ObjectInv, NEW n \in Node, Crash(n)
    PROVE  Objects!Die(n)
<1> DEFINE ks == {k \in Key : /\ create[k].node = n
                              /\ create[k].pc \in {"holders", "run"}}
<1>1. TypeOK /\ create \in [Key -> CreateState]
  BY DEF ObjectInv, LossInv, TypeOK
<1>2. ks \in SUBSET {k \in Key : [y \in Key |-> Phase(y)][k] = "writing"}
  BY DEF Phase
<1>3. [k \in Key |-> Phase(k)]'
         = [k \in Key |-> IF k \in ks THEN "failed"
                                      ELSE [y \in Key |-> Phase(y)][k]]
  BY <1>1 DEF Crash, Phase, CreateState
<1> HIDE DEF ks
<1>4. {c \in calls : c.from = n} \in SUBSET calls
  OBVIOUS
<1>5. Objects!MovesGoOn({}, {})
  BY <1>1, <1>4, MovesAbandon, MovesImplement DEF Crash
<1> QED BY <1>2, <1>3, <1>5 DEF Objects!Die, Crash

\* A piece arrives, or a receiver answers.
LEMMA PeerInImplements ==
    ASSUME ObjectInv, NEW n \in Node, PeerInNext(n) \/ PeerInFault(n)
    PROVE  Objects!Next
<1> USE DEF world, maps, stabVars, rebuildVars, aux
<1>1. TypeOK
  BY DEF ObjectInv, LossInv
<1>2. ASSUME NEW c \in calls, PutPiece(n, c) PROVE Objects!Next
  <2>1. c.loc \in Loc /\ Started(c.loc.key)
    BY <1>1, <1>2
    DEF PutPiece, ObjectInv, OriginInv, CallsStarted, TypeOK, Call
  <2>2. Advance(c, "put") \in SUBSET Call
    BY <1>1, AdvanceType DEF TypeOK, SendStatus
  <2>3. \A e \in Advance(c, "put") : IsMove(e) =>
           \E b \in calls : /\ IsMove(b) /\ b.from = e.from
                            /\ b.loc = e.loc /\ b.reput = e.reput
    BY <1>1, <1>2, AdvanceKeeps
    DEF PutPiece, Arrived, TypeOK, SendStatus, IsMove
  <2>4. MovesFollow({<<n, c.loc>>})
    BY <1>2, <2>2, <2>3, MovesMark DEF PutPiece
  <2> QED BY <1>2, <2>1, <2>4, PutImplements DEF PutPiece
<1>3. ASSUME NEW c \in calls, RejectPiece(n, c) \/ PutFails(n, c)
                                 \/ QueueTask(n, c) \/ QueueRebuild(n, c)
      PROVE  Objects!Next
  <2>1. MovesFollow({})
    BY <1>1, <1>3, MovesAdvance
    DEF RejectPiece, PutFails, QueueTask, QueueRebuild, Arrived, SendStatus
  <2> QED
    BY <1>3, <2>1, GiveUpImplements
    DEF RejectPiece, PutFails, QueueTask, QueueRebuild, Phase, Objects!Next
<1> QED BY <1>2, <1>3 DEF PeerInNext, PeerInFault

LEMMA StabilizerImplements ==
    ASSUME ObjectInv, LossInv', NEW n \in Node,
           StabilizerNext(n) \/ StabilizerFault(n)
    PROVE  Objects!Next
<1> USE DEF world, maps, stabVars, rebuildVars, aux
<1>1. TypeOK
  BY DEF ObjectInv, LossInv
<1>2. ASSUME UNCHANGED <<store, create, exposed>>, MovesFollow({})
      PROVE  Objects!Next
  BY <1>2, GiveUpImplements DEF Phase, Objects!Next
<1>3. ASSUME NEW f \in Flusher, Drain(n, f) \/ FlushEnds(n, f)
      PROVE  Objects!Next
  BY <1>2, <1>3, MovesSubset DEF Drain, FlushEnds
<1>4. ASSUME NEW f \in Flusher, ReadCluster(n, f) PROVE Objects!Next
  <2>1. \A d \in Tasks(n, f, view[n].stab, flush[n][f].todo) : ~d.data
    BY DEF Tasks
  <2>2. MovesFollow({})
    BY <1>4, <2>1 DEF ReadCluster, MovesFollow, IsMove
  <2> QED BY <1>2, <1>4, <2>2 DEF ReadCluster
<1>5. ASSUME NEW c \in calls, DeleteFails(n, c) PROVE Objects!Next
  BY <1>2, <1>5, MovesSubset DEF DeleteFails
<1>6. ASSUME NEW c \in calls, FailKey(n, c) \/ SendRejected(n, c)
      PROVE  Objects!Next
  <2>1. /\ {d \in CallsOf(n, c.by) : d.loc.key = c.loc.key} \in SUBSET calls
        /\ CallsOf(n, c.by) \in SUBSET calls
    BY DEF CallsOf
  <2>2. MovesFollow({})
    BY <1>1, <1>6, <2>1, MovesAbandon DEF FailKey, SendRejected
  <2> QED BY <1>2, <1>6, <2>2 DEF FailKey, SendRejected
<1> QED
  BY <1>3, <1>4, <1>5, <1>6, ReadImplements, DeleteImplements
  DEF StabilizerNext, FlushNext, CallsOf, StabilizerFault, GetFails,
      SendFailed, SendLost

LEMMA RebuildImplements ==
    ASSUME ObjectInv, NEW n \in Node,
           RebuildQueueNext(n) \/ RebuildQueueFault(n)
    PROVE  Objects!Next
<1> USE DEF world, maps, stabVars, rebuildVars, aux
<1>1. TypeOK
  BY DEF ObjectInv, LossInv
<1>2. ASSUME NEW r \in rebuilds, StoreRebuilt(n, r) PROVE Objects!Next
  <2>1. r.loc \in Loc /\ Started(r.loc.key)
    BY <1>1, <1>2
    DEF StoreRebuilt, ObjectInv, OriginInv, RebuildsStarted, TypeOK, Rebuild
  <2>2. MovesFollow({<<n, r.loc>>})
    BY <1>1, <1>2, MovesMark DEF StoreRebuilt, TypeOK
  <2> QED BY <1>2, <2>1, <2>2, PutImplements DEF StoreRebuilt
<1>3. \/ \E r \in rebuilds : StoreRebuilt(n, r)
      \/ UNCHANGED <<store, create, exposed, calls>>
  BY DEF RebuildQueueNext, RebuildQueueFault, DrainRebuilds,
         ReadRebuildCluster, PieceExists, AnyPieces, NoReply, Broadcast,
         RebuildFails, QueueRebuilt, RebuildFlushEnds, AskLost, RebuildIoFails
<1>4. ASSUME UNCHANGED <<store, create, exposed, calls>> PROVE Objects!Next
  BY <1>4, MovesSubset, GiveUpImplements DEF Phase, Objects!Next
<1> QED BY <1>2, <1>3, <1>4

LEMMA ObjectStep ==
    ASSUME ObjectInv, LossInv', [Next]_vars
    PROVE  Objects!Next
<1> USE DEF world, maps, stabVars, rebuildVars, aux
<1>1. TypeOK
  BY DEF ObjectInv, LossInv
<1>2. ASSUME UNCHANGED <<store, create, exposed>>, MovesFollow({})
      PROVE  Objects!Next
  BY <1>2, GiveUpImplements DEF Phase, Objects!Next
<1>3. ASSUME NEW n \in Node, ClusterInNext(n) \/ ClusterInFault(n) \/ Boot(n)
      PROVE  Objects!Next
  BY <1>2, <1>3, MovesSubset
  DEF ClusterInNext, ClusterInFault, BeginInstall, Reapply, SetNewCluster,
      ReadKeys, KeysFails, ResetQueue, Boot
<1>4. ASSUME NEW n \in Node, Crash(n) PROVE Objects!Next
  BY <1>4, CrashImplements DEF Objects!Next
<1>5. ASSUME NEW n \in Node, Shutdown(n) PROVE Objects!Next
  <2>1. {c \in calls : c.from = n} \in SUBSET calls
    OBVIOUS
  <2>2. MovesFollow({})
    BY <1>1, <1>5, <2>1, MovesAbandon DEF Shutdown
  <2> QED BY <1>2, <1>5, <2>2 DEF Shutdown
<1>6. ASSUME NEW n \in Node, NodeNext(n) \/ FaultNext(n) PROVE Objects!Next
  BY <1>3, <1>4, <1>5, <1>6, PeerInImplements, StabilizerImplements,
     RebuildImplements, CreateImplements DEF NodeNext, FaultNext
<1>7. ASSUME NEW c \in calls, LoseAbandoned(c) PROVE Objects!Next
  BY <1>2, <1>7, MovesSubset DEF LoseAbandoned
<1>8. CASE UNCHANGED vars
  BY <1>2, <1>8, MovesSubset DEF vars
<1> QED BY <1>6, <1>7, <1>8 DEF Next

LEMMA ObjectInit == Init => Objects!Init
<1> SUFFICES ASSUME Init PROVE Objects!Init
  OBVIOUS
<1>1. OriginInv /\ AckInv /\ LossInv
  BY OriginInit, AckInit, LossInit
<1>2. TypeOK
  BY <1>1 DEF OriginInv
<1>3. \A k \in Key : create[k].pc = IF k \in Settled THEN "acked" ELSE "idle"
  BY DEF Init
<1>4. [k \in Key |-> Phase(k)] \in [Key -> {"idle", "acked"}]
  BY <1>3 DEF Phase
<1>5. store \in [Node -> SUBSET Objects!Loc] /\ exposed \in SUBSET Objects!Loc
  BY <1>2 DEF TypeOK, Objects!Loc, Loc
<1>6. \A n \in Node : \A l \in store[n] :
         [k \in Key |-> Phase(k)][l.key] = "acked"
  BY <1>3 DEF Init, Phase, Loc
<1>7. \A k \in Key : [y \in Key |-> Phase(y)][k] = "acked" =>
                        Cardinality(Objects!Covered(k)) >= K
  <2> SUFFICES ASSUME NEW k \in Key, Phase(k) = "acked"
               PROVE  Cardinality(Objects!Covered(k)) >= K
    OBVIOUS
  <2>1. Cardinality(Stored(k)) >= K
    BY <1>1, <1>3 DEF Phase, AckInv, CreateCounts
  <2>2. /\ Cardinality(Stored(k)) \in Nat
        /\ Cardinality(Objects!Covered(k)) \in Nat
        /\ Cardinality(Stored(k)) <= Cardinality(Objects!Covered(k))
    BY <1>1, StoredCovers
  <2> QED BY <2>1, <2>2, SizeAssumption
<1>8. /\ Copies({c \in calls : IsMove(c)}) = {}
      /\ Copies({c \in calls : IsMove(c) /\ c.reput}) = {}
  BY DEF Init, Copies
<1> QED BY <1>4, <1>5, <1>6, <1>7, <1>8, SameCardinality DEF Objects!Init

\* The services of all nodes together are one object store, whatever fails,
\* is lost, moves or restarts: no piece is made up, a yes of create
\* (io_front.rs) stands for K pieces in stores, and a move deletes a copy
\* (stabilizer.rs) only after it has read it and while there is another one,
\* or with one of the two excuses.
THEOREM StorageImplementsObjectStore == Spec => ImplementsObjectStore
<1>1. ObjectInv /\ LossInv' /\ [Next]_vars => [Objects!Next]_(Objects!vars)
  BY ObjectStep
<1>2. Spec => []ObjectInv
  <2>1. Init => ObjectInv
    BY OriginInit, StoresWrittenInit, AckInit, LossInit, GetFreshInit
    DEF ObjectInv
  <2>2. ObjectInv /\ [Next]_vars => ObjectInv'
    BY OriginStep, StoresWrittenStep, AckStep, LossStep, GetFreshStep
    DEF ObjectInv, LossInv
  <2> QED BY <2>1, <2>2, PTL DEF Spec
<1>3. ObjectInv => LossInv
  BY DEF ObjectInv
<1> QED
  BY <1>1, <1>2, <1>3, ObjectInit, PTL
  DEF Spec, Objects!Spec, ImplementsObjectStore

==============================================================================
