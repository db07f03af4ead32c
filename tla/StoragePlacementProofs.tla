------------------------ MODULE StoragePlacementProofs ------------------------
(***************************************************************************)
(* Where the pieces of Storage are when nothing is under way: a node that  *)
(* has the last map keeps no piece that map gives to another node without  *)
(* a task that is going to move it, as long as three windows of the code   *)
(* are not hit.  Each of the three can leave a piece in the wrong place;   *)
(* the theorem is that there is no fourth, for every set of nodes and      *)
(* keys, every history of maps and every number of faults.                 *)
(***************************************************************************)
EXTENDS StorageProofs

------------------------------------------------------------------------------
(* -- The invariant -- *)

\* Outside the fan-out the stabilizer and the receiver of a live node have
\* the map the node has installed; a node that is shut down has none.
\* set_new_cluster waits for its flush.
MapInPlace(n) ==
    /\ n \in alive /\ install[n].pc \in {"idle", "keys", "reset", "flush", "wait"} =>
          /\ view[n].stab = install[n].version
          /\ view[n].peer = install[n].version
    /\ install[n].pc = "stopped" => /\ n \notin alive /\ install[n].version = 0
                                    /\ view[n].stab = 0 /\ view[n].peer = 0
    /\ flush[n]["cluster"].pc # "idle" => install[n].pc = "wait"

\* A flush has futures only while it runs, all made under one map.
FlushInPlace(n, f) ==
    /\ flush[n][f].pc # "run" => CallsOf(n, f) = {}
    /\ flush[n][f].pc = "idle" => flush[n][f].failed = {}
    /\ \A c, d \in CallsOf(n, f) : c.version = d.version

\* A piece travels to the node that its map wants to hold it, and only a
\* newer map refuses it.
CallInPlace(c) ==
    /\ c.to = HolderAt(c.version, c.loc)
    /\ c.st = "rejected" => c.version # LastVersion

\* Tasks and stores belong to what runs.
NodeInPlace(n) ==
    /\ rflush[n].pc # "run" => RebuildsOf(n) = {}
    /\ n \notin alive => install[n].pc = "stopped" \/ store[n] = {}

\* Node n works under the last map and has passed the reading of its keys.
Watched(n) ==
    /\ n \in alive /\ install[n].version = LastVersion
    /\ install[n].pc \in {"reset", "flush", "wait", "idle"}

\* The step does not hit one of the windows.
CleanStep ==
    \* a piece that is to go elsewhere is rebuilt between keys() and the
    \* overwriting of the queue by set_new_cluster (run lost_task)
    /\ \A n \in Node, r \in rebuilds :
          StoreRebuilt(n, r) /\ Watched(n) /\ install[n].pc = "reset" =>
             \/ HolderAt(LastVersion, r.loc) \in {n, NoNode}
             \/ r.loc.key \in install[n].keys
    \* create reads the holders and the version of two maps that differ on the
    \* key (run torn_create)
    /\ \A n \in Node, k \in Key : SendPieces(n, k) =>
          \A l \in LocsOf(k) :
             HolderAt(create[k].hv, l) = HolderAt(view[n].io, l)
    \* delete_piece fails after the piece has been moved under the last map
    /\ \A n \in Node, c \in calls : DeleteFails(n, c) => c.version # LastVersion

\* The last map gives l, of which n has a copy, to another node.
Stray(n, l) == l \in store[n] /\ HolderAt(LastVersion, l) \notin {n, NoNode}

\* Among the calls cs, a future of flush f of n that will move l or has sent
\* it.
Moving(cs, n, f, l) ==
    \E c \in cs : /\ c.from = n /\ c.by = f /\ c.loc = l
                  /\ c.version = LastVersion
                  /\ c.data \/ c.st = "get"

\* Flush f of n is going to look at key x under the last map, or again.
Flushing(n, f, x) ==
    \/ flush[n][f].pc = "drained" /\ x \in flush[n][f].todo
    \/ /\ x \in flush[n][f].failed
       /\ \A c \in CallsOf(n, f) : c.version = LastVersion

\* Copy l has just been rebuilt at n, and its key is going to be queued.
Rebuilt(n, l) == \E r \in rebuilds : r.node = n /\ r.loc = l /\ r.st = "queue"

\* Something at n is going to move l.
Pending(n, l) ==
    \/ l.key \in stabQ[n]
    \/ Rebuilt(n, l)
    \/ \E f \in Flusher : Flushing(n, f, l.key)
    \/ \E f \in Flusher : Moving(calls, n, f, l)

Tracked(n) ==
    Watched(n) => \A l \in Loc : Stray(n, l) =>
                     IF install[n].pc = "reset" THEN l.key \in install[n].keys
                                                ELSE Pending(n, l)

\* A rebuild whose piece is at hand no longer waits for replies.
RebuildsInPlace ==
    \A r \in rebuilds : r.st \in {"store", "queue"} => r.wait = {}

BaseInv == GateInv /\ RebuildsInPlace

PlaceInv ==
    /\ BaseInv
    /\ \A n \in Node : MapInPlace(n) /\ NodeInPlace(n) /\ Tracked(n)
    /\ \A n \in Node, f \in Flusher : FlushInPlace(n, f)
    /\ \A c \in calls : CallInPlace(c)

------------------------------------------------------------------------------
(* -- What a step leaves alone -- *)

\* No future of the flush is made under another map.
FlushContinues(n, f) ==
    \A d \in CallsOf(n, f)' : \E c \in CallsOf(n, f) : c.version = d.version

\* What holds a stray at n goes on holding it, and a new one is held.
Untouched(n) ==
    /\ install'[n] = install[n] /\ (n \in alive' => n \in alive)
    /\ flush'[n] = flush[n] /\ stabQ[n] \subseteq stabQ'[n]
    /\ \A l \in Loc : Watched(n) /\ Stray(n, l)' =>
          \/ l \in store[n]
          \/ IF install[n].pc = "reset" THEN l.key \in install[n].keys
                                        ELSE Rebuilt(n, l)'
    /\ \A f \in Flusher : FlushContinues(n, f)
    /\ \A f \in Flusher, l \in Loc :
          l \in store'[n] /\ Moving(calls, n, f, l) => Moving(calls', n, f, l)
    /\ \A r \in rebuilds : r.node = n /\ r.st = "queue" =>
                             r \in rebuilds' \/ r.loc.key \in stabQ'[n]

\* Another node's step does not concern n.
Aside(n) ==
    /\ Untouched(n) /\ view'[n] = view[n] /\ (n \in alive' <=> n \in alive)
    /\ rflush'[n] = rflush[n] /\ store'[n] = store[n]
    /\ RebuildsOf(n)' \subseteq RebuildsOf(n)

LEMMA CallsKept ==
    ASSUME PlaceInv, UNCHANGED history, CallsContinue
    PROVE  /\ \A d \in calls' : CallInPlace(d)'
           /\ \A n \in Node, f \in Flusher : FlushContinues(n, f)
<1>1. ASSUME NEW d \in calls' PROVE CallInPlace(d)'
  <2>1. PICK c \in calls : Continues(d, c)
    BY DEF CallsContinue
  <2>2. CallInPlace(c)
    BY DEF PlaceInv
  <2>3. ~Accepts(c) => c.version # LastVersion
    <3>1. c.to \in Node /\ c.version \in Version
      BY DEF PlaceInv, BaseInv, GateInv, TypeOK, Call
    <3>2. view[c.to].peer \in Version
      BY <3>1 DEF PlaceInv, BaseInv, GateInv, TypeOK, ViewName
    <3> QED BY <3>1, <3>2, VersionAssumption DEF Accepts, Version
  <2> QED BY <2>1, <2>2, <2>3 DEF Continues, CallInPlace, HolderAt, Map
<1>2. ASSUME NEW n \in Node, NEW f \in Flusher PROVE FlushContinues(n, f)
  BY DEF CallsContinue, Continues, FlushContinues, CallsOf
<1> QED BY <1>1, <1>2

LEMMA FlushKept ==
    ASSUME PlaceInv, NEW n \in Node, NEW f \in Flusher, FlushContinues(n, f),
           flush'[n][f].pc = flush[n][f].pc \/ CallsOf(n, f)' = {},
           flush'[n][f].pc = "idle" => flush'[n][f].failed = {}
    PROVE  FlushInPlace(n, f)'
<1>1. FlushInPlace(n, f)
  BY DEF PlaceInv
<1> QED BY <1>1 DEF FlushInPlace, FlushContinues

LEMMA TrackedKept ==
    ASSUME PlaceInv, UNCHANGED history, NEW n \in Node, Untouched(n)
    PROVE  Tracked(n)'
<1> SUFFICES ASSUME Watched(n)', NEW l \in Loc, Stray(n, l)'
             PROVE  IF install'[n].pc = "reset" THEN l.key \in install'[n].keys
                                                ELSE Pending(n, l)'
  BY DEF Tracked
<1>1. Watched(n)
  BY DEF Watched, Untouched
<1>2. CASE l \notin store[n]
  <2>1. /\ install'[n] = install[n]
        /\ IF install[n].pc = "reset" THEN l.key \in install[n].keys
                                      ELSE Rebuilt(n, l)'
    BY <1>1, <1>2 DEF Untouched
  <2> QED BY <2>1 DEF Pending
<1> SUFFICES ASSUME l \in store[n]
             PROVE  IF install'[n].pc = "reset" THEN l.key \in install'[n].keys
                                                ELSE Pending(n, l)'
  BY <1>2
<1>3. Stray(n, l) /\ l \in store'[n]
  BY DEF Stray, HolderAt, Map
<1>4. Tracked(n)
  BY DEF PlaceInv
<1>5. CASE install[n].pc = "reset"
  BY <1>1, <1>3, <1>4, <1>5 DEF Tracked, Untouched
<1>6. CASE install[n].pc # "reset"
  <2> SUFFICES Pending(n, l)'
    BY <1>6 DEF Untouched
  <2>1. Pending(n, l)
    BY <1>1, <1>3, <1>4, <1>6 DEF Tracked
  <2>2. CASE l.key \in stabQ[n]
    <3>1. l.key \in stabQ'[n]
      BY <2>2 DEF Untouched
    <3> QED BY <3>1 DEF Pending
  <2>3. CASE Rebuilt(n, l)
    <3>1. l.key \in stabQ'[n] \/ Rebuilt(n, l)'
      BY <2>3 DEF Untouched, Rebuilt
    <3> QED BY <3>1 DEF Pending
  <2>4. ASSUME NEW f \in Flusher, Flushing(n, f, l.key) PROVE Pending(n, l)'
    <3>1. Flushing(n, f, l.key)'
      BY <2>4 DEF Flushing, Untouched, FlushContinues
    <3> QED BY <3>1 DEF Pending
  <2>5. ASSUME NEW f \in Flusher, Moving(calls, n, f, l) PROVE Pending(n, l)'
    <3>1. Moving(calls', n, f, l)
      BY <1>3, <2>5 DEF Untouched
    <3>2. Moving(calls, n, f, l)'
      BY <3>1 DEF Moving
    <3> QED BY <3>2 DEF Pending
  <2> QED BY <2>1, <2>2, <2>3, <2>4, <2>5 DEF Pending
<1> QED BY <1>5, <1>6

\* A step of node n: the other nodes stand aside.
LEMMA StepAt ==
    ASSUME PlaceInv, BaseInv', UNCHANGED history, NEW n \in Node,
           \A d \in calls' : CallInPlace(d)',
           MapInPlace(n)', NodeInPlace(n)', Tracked(n)',
           \A f \in Flusher : FlushInPlace(n, f)',
           \A m \in Node \ {n} : Aside(m)
    PROVE  PlaceInv'
<1>1. ASSUME NEW m \in Node \ {n} PROVE MapInPlace(m)' /\ NodeInPlace(m)'
  <2>1. MapInPlace(m) /\ NodeInPlace(m)
    BY DEF PlaceInv
  <2>2. Aside(m)
    OBVIOUS
  <2>3. MapInPlace(m)'
    BY <2>1, <2>2 DEF MapInPlace, Aside, Untouched
  <2>4. NodeInPlace(m)'
    BY <2>1, <2>2 DEF NodeInPlace, Aside, Untouched
  <2> QED BY <2>3, <2>4
<1>2. ASSUME NEW m \in Node \ {n} PROVE Tracked(m)'
  BY TrackedKept DEF Aside
<1>3. ASSUME NEW m \in Node \ {n}, NEW f \in Flusher PROVE FlushInPlace(m, f)'
  <2>1. FlushContinues(m, f) /\ flush'[m] = flush[m]
    BY DEF Aside, Untouched
  <2>2. FlushInPlace(m, f)
    BY DEF PlaceInv
  <2> QED BY <2>1, <2>2, FlushKept DEF FlushInPlace
<1> QED BY <1>1, <1>2, <1>3 DEF PlaceInv

\* A step that neither installs a map nor drains or ends a flush.
LEMMA QuietStep ==
    ASSUME PlaceInv, BaseInv',
           UNCHANGED <<history, alive, view, install, flush>>,
           \A d \in calls' : CallInPlace(d)',
           \A n \in Node : NodeInPlace(n)' /\ Untouched(n)
    PROVE  PlaceInv'
<1>1. ASSUME NEW n \in Node PROVE MapInPlace(n)' /\ Tracked(n)'
  BY TrackedKept DEF PlaceInv, MapInPlace
<1>2. ASSUME NEW n \in Node, NEW f \in Flusher PROVE FlushInPlace(n, f)'
  <2>1. FlushInPlace(n, f) /\ FlushContinues(n, f)
    BY DEF PlaceInv, Untouched
  <2> QED BY <2>1, FlushKept DEF FlushInPlace
<1> QED BY <1>1, <1>2 DEF PlaceInv

------------------------------------------------------------------------------
(* -- What becomes of the calls -- *)

\* A future that moves a piece goes on moving it whatever the reply.
LEMMA AdvanceMoves ==
    ASSUME TypeOK, NEW c \in calls, NEW st \in SendStatus, c.st # "get",
           NEW n, NEW f \in Flusher, NEW l, Moving(calls, n, f, l)
    PROVE  Moving(Advance(c, st), n, f, l)
<1>1. PICK d \in calls : /\ d.from = n /\ d.by = f /\ d.loc = l
                         /\ d.version = LastVersion
                         /\ d.data \/ d.st = "get"
  BY DEF Moving
<1>2. CASE d # c
  BY <1>1, <1>2 DEF Moving, Advance
<1>3. CASE d = c
  <2> DEFINE e == [c EXCEPT !.st = st]
  <2>1. c \in Call
    BY DEF TypeOK
  <2>2. /\ e.from = n /\ e.by = f /\ e.loc = l
        /\ e.version = LastVersion /\ e.data
    BY <1>1, <1>3, <2>1 DEF Call
  <2>3. e \in Advance(c, st)
    BY <1>1, <1>3 DEF Advance, Flusher
  <2> HIDE DEF e
  <2> QED BY <2>2, <2>3 DEF Moving
<1> QED BY <1>2, <1>3

LEMMA MarkMoves ==
    ASSUME NEW cs \in SUBSET Call, NEW m, NEW x, NEW n, NEW f, NEW l,
           Moving(cs, n, f, l)
    PROVE  Moving(MarkReput(cs, m, x), n, f, l)
<1>1. PICK d \in cs : /\ d.from = n /\ d.by = f /\ d.loc = l
                      /\ d.version = LastVersion
                      /\ d.data \/ d.st = "get"
  BY DEF Moving
<1> DEFINE e == IF /\ d.from = m /\ d.loc = x /\ d.data
                   /\ d.by \in Flusher /\ d.st \in {"sent", "put", "ok"}
                THEN [d EXCEPT !.reput = TRUE] ELSE d
<1>2. e \in MarkReput(cs, m, x)
  BY DEF MarkReput
<1>3. /\ e.from = n /\ e.by = f /\ e.loc = l /\ e.version = LastVersion
      /\ e.data \/ e.st = "get"
  <2>1. d \in Call
    OBVIOUS
  <2> QED BY <1>1, <2>1 DEF Call
<1> HIDE DEF e
<1> QED BY <1>2, <1>3 DEF Moving

\* The calls that are not futures of a flush move nothing.
LEMMA OthersMove ==
    ASSUME NEW c \in calls, c.by \notin Flusher,
           NEW cs, calls \ {c} \subseteq cs,
           NEW n, NEW f \in Flusher, NEW l, Moving(calls, n, f, l)
    PROVE  Moving(cs, n, f, l)
BY DEF Moving

\* A step that takes no piece from a queue and changes no store.
LEMMA Calm ==
    ASSUME PlaceInv, NEW n \in Node,
           UNCHANGED <<history, alive, install, flush, store>>,
           stabQ[n] \subseteq stabQ'[n],
           \A f \in Flusher : FlushContinues(n, f),
           \A f \in Flusher, l \in Loc :
               Moving(calls, n, f, l) => Moving(calls', n, f, l),
           \A r \in rebuilds : r.node = n /\ r.st = "queue" =>
               r \in rebuilds' \/ r.loc.key \in stabQ'[n]
    PROVE  Untouched(n)
BY DEF Untouched, Stray

\* A step at the two ends of the calls, or at the rebuilds.
LEMMA CalmStep ==
    ASSUME PlaceInv, BaseInv', CallsContinue,
           UNCHANGED <<history, alive, view, install, flush, store>>,
           \A n \in Node : stabQ[n] \subseteq stabQ'[n],
           \A n \in Node, f \in Flusher, l \in Loc :
               Moving(calls, n, f, l) => Moving(calls', n, f, l),
           \A r \in rebuilds : r.st = "queue" =>
               r \in rebuilds' \/ r.loc.key \in stabQ'[r.node],
           \A n \in Node : rflush'[n].pc # "run" => RebuildsOf(n)' = {}
    PROVE  PlaceInv'
<1>1. /\ \A d \in calls' : CallInPlace(d)'
      /\ \A n \in Node, f \in Flusher : FlushContinues(n, f)
  BY CallsKept
<1>2. ASSUME NEW n \in Node PROVE NodeInPlace(n)' /\ Untouched(n)
  <2>1. NodeInPlace(n)
    BY DEF PlaceInv
  <2>2. NodeInPlace(n)'
    BY <2>1 DEF NodeInPlace
  <2>3. Untouched(n)
    BY <1>1, Calm
  <2> QED BY <2>2, <2>3
<1> QED BY <1>1, <1>2, QuietStep

------------------------------------------------------------------------------
(* -- The steps, service by service -- *)

LEMMA PlacePeerIn ==
    ASSUME PlaceInv, BaseInv', NEW n \in Node, PeerInNext(n) \/ PeerInFault(n)
    PROVE  PlaceInv'
<1> USE DEF world, maps, stabVars, rebuildVars, aux
<1>0. TypeOK
  BY DEF PlaceInv, BaseInv, GateInv
<1>1. \A m \in Node : NodeInPlace(m)
  BY DEF PlaceInv
<1>2. ASSUME NEW c \in calls, NEW st \in SendStatus, c.st # "get",
             st = "rejected" => ~Accepts(c), calls' = Advance(c, st),
             UNCHANGED <<history, alive, view, install, flush, store>>,
             UNCHANGED <<rebuilds, rflush>>,
             \A m \in Node : stabQ[m] \subseteq stabQ'[m]
      PROVE  PlaceInv'
  <2>1. CallsContinue
    BY <1>0, <1>2, AdvanceContinues DEF CallsContinue
  <2>2. \A m \in Node, f \in Flusher, l \in Loc :
            Moving(calls, m, f, l) => Moving(calls', m, f, l)
    BY <1>0, <1>2, AdvanceMoves
  <2>3. \A m \in Node : rflush'[m].pc # "run" => RebuildsOf(m)' = {}
    BY <1>1, <1>2 DEF NodeInPlace, RebuildsOf
  <2> QED BY <1>2, <2>1, <2>2, <2>3, CalmStep
<1>3. ASSUME NEW c \in calls, RejectPiece(n, c) PROVE PlaceInv'
  BY <1>2, <1>3 DEF RejectPiece, Arrived, SendStatus
<1>4. ASSUME NEW c \in calls, PutFails(n, c) PROVE PlaceInv'
  BY <1>2, <1>4 DEF PutFails, Arrived, SendStatus
<1>5. ASSUME NEW c \in calls, QueueTask(n, c) PROVE PlaceInv'
  <2>1. \A m \in Node : stabQ[m] \subseteq stabQ'[m]
    BY <1>0, <1>5 DEF QueueTask, TypeOK
  <2> QED BY <1>2, <1>5, <2>1 DEF QueueTask, SendStatus
<1>6. ASSUME NEW c \in calls, QueueRebuild(n, c) PROVE PlaceInv'
  BY <1>2, <1>6 DEF QueueRebuild, Arrived, SendStatus
\* A piece stored at a node that has the last map belongs there.
<1>7. ASSUME NEW c \in calls, PutPiece(n, c) PROVE PlaceInv'
  <2>1. Advance(c, "put") \in SUBSET Call
    BY <1>0, AdvanceType DEF TypeOK, SendStatus
  <2>2. CallsContinue
    <3>1. \A d \in Advance(c, "put") : \E b \in calls : Continues(d, b)
      BY <1>0, AdvanceContinues DEF SendStatus
    <3> QED BY <1>7, <2>1, <3>1, MarkContinues DEF PutPiece
  <2>3. /\ \A d \in calls' : CallInPlace(d)'
        /\ \A m \in Node, f \in Flusher : FlushContinues(m, f)
    BY <1>7, <2>2, CallsKept DEF PutPiece
  <2>4. ASSUME NEW m \in Node, NEW f \in Flusher, NEW l \in Loc,
               Moving(calls, m, f, l)
        PROVE  Moving(calls', m, f, l)
    <3>1. Moving(Advance(c, "put"), m, f, l)
      BY <1>0, <1>7, <2>4, AdvanceMoves DEF PutPiece, Arrived, SendStatus
    <3> QED BY <1>7, <2>1, <3>1, MarkMoves DEF PutPiece
  <2>5. ASSUME NEW l \in Loc, Watched(n), Stray(n, l)' PROVE l \in store[n]
    <3> SUFFICES ASSUME l = c.loc PROVE FALSE
      BY <1>0, <1>7, <2>5 DEF PutPiece, Stray, TypeOK
    <3>1. view[n].peer = LastVersion
      BY <2>5 DEF PlaceInv, MapInPlace, Watched
    <3>2. c.version = LastVersion
      <4>1. c.version \in Version
        BY <1>0 DEF TypeOK, Call
      <4>2. c.version >= view[n].peer
        BY <1>7 DEF PutPiece, Arrived, Accepts
      <4> QED BY <3>1, <4>1, <4>2, VersionAssumption DEF Version
    <3>3. HolderAt(LastVersion, l) = n
      BY <1>7, <3>2 DEF PlaceInv, CallInPlace, PutPiece, Arrived
    <3> QED BY <1>7, <2>5, <3>3 DEF Stray, PutPiece, HolderAt, Map
  <2>6. ASSUME NEW m \in Node PROVE Untouched(m)
    <3>1. \A l \in Loc : Watched(m) /\ Stray(m, l)' => l \in store[m]
      BY <1>0, <1>7, <2>5 DEF PutPiece, Stray, TypeOK
    <3> QED BY <1>7, <2>3, <2>4, <3>1 DEF Untouched, PutPiece
  <2>7. \A m \in Node : NodeInPlace(m)'
    BY <1>0, <1>1, <1>7 DEF NodeInPlace, RebuildsOf, PutPiece, Arrived, TypeOK
  <2> QED BY <1>7, <2>3, <2>6, <2>7, QuietStep DEF PutPiece
<1> QED
  BY <1>3, <1>4, <1>5, <1>6, <1>7 DEF PeerInNext, PeerInFault

LEMMA PlaceIOFront ==
    ASSUME PlaceInv, BaseInv', CleanStep, NEW n \in Node,
           IOFrontNext(n) \/ IOFrontFault(n)
    PROVE  PlaceInv'
<1> USE DEF world, maps, stabVars, rebuildVars, aux
<1>0. TypeOK
  BY DEF PlaceInv, BaseInv, GateInv
<1>1. \A m \in Node : NodeInPlace(m)
  BY DEF PlaceInv
<1>2. ASSUME UNCHANGED <<history, alive, view, install, flush, store>>,
             UNCHANGED <<rebuilds, rflush, stabQ>>, CallsContinue,
             \A m \in Node, f \in Flusher, l \in Loc :
                 Moving(calls, m, f, l) => Moving(calls', m, f, l)
      PROVE  PlaceInv'
  <2>1. \A m \in Node : rflush'[m].pc # "run" => RebuildsOf(m)' = {}
    BY <1>1, <1>2 DEF NodeInPlace, RebuildsOf
  <2> QED BY <1>2, <2>1, CalmStep
<1>3. ASSUME NEW k \in Key, CreateBegins(n, k) \/ CreateReturns(n, k)
      PROVE  PlaceInv'
  BY <1>2, <1>3, SubsetContinues DEF CreateBegins, CreateReturns
\* The holders are those of the map that the version names.
<1>4. ASSUME NEW k \in Key, SendPieces(n, k) PROVE PlaceInv'
  <2>1. \A l \in LocsOf(k) : HolderAt(create[k].hv, l) = HolderAt(view[n].io, l)
    BY <1>4 DEF CleanStep
  <2>2. \A d \in calls' : \/ d \in calls
                          \/ /\ d.by = "create" /\ d.st = "sent"
                             /\ d.to = HolderAt(d.version, d.loc)
    BY <1>4, <2>1 DEF SendPieces
  <2>3. ASSUME NEW d \in calls' PROVE CallInPlace(d)'
    BY <1>4, <2>2 DEF PlaceInv, CallInPlace, SendPieces, HolderAt, Map
  <2>4. ASSUME NEW m \in Node PROVE Untouched(m) /\ NodeInPlace(m)'
    <3>1. \A f \in Flusher : FlushContinues(m, f)
      BY <2>2 DEF FlushContinues, CallsOf, Flusher
    <3>2. \A f \in Flusher, l \in Loc :
              Moving(calls, m, f, l) => Moving(calls', m, f, l)
      BY <1>4 DEF SendPieces, Moving
    <3>3. Untouched(m)
      BY <1>4, <3>1, <3>2, Calm DEF SendPieces
    <3> QED BY <1>1, <1>4, <3>3 DEF SendPieces, NodeInPlace, RebuildsOf
  <2> QED BY <1>4, <2>3, <2>4, QuietStep DEF SendPieces
<1>5. ASSUME NEW c \in calls, CountOk(n, c) PROVE PlaceInv'
  <2>1. CallsContinue
    BY <1>5, SubsetContinues DEF CountOk
  <2>2. \A m \in Node, f \in Flusher, l \in Loc :
            Moving(calls, m, f, l) => Moving(calls', m, f, l)
    BY <1>5, OthersMove DEF CountOk, Sending, Flusher
  <2> QED BY <1>2, <1>5, <2>1, <2>2 DEF CountOk
<1>6. ASSUME NEW c \in calls, CountNotOk(n, c) \/ CreateLost(n, c)
      PROVE  PlaceInv'
  <2>1. calls' = Abandon({c}) /\ c.by \notin Flusher
    BY <1>6 DEF CountNotOk, CreateLost, Sending, Flusher
  <2>2. CallsContinue
    BY <1>0, <2>1, AbandonContinues
  <2>3. \A m \in Node, f \in Flusher, l \in Loc :
            Moving(calls, m, f, l) => Moving(calls', m, f, l)
    <3>1. calls \ {c} \subseteq calls'
      BY <2>1 DEF Abandon
    <3> QED BY <2>1, <3>1, OthersMove
  <2> QED BY <1>2, <1>6, <2>2, <2>3 DEF CountNotOk, CreateLost
<1> QED
  BY <1>3, <1>4, <1>5, <1>6 DEF IOFrontNext, IOFrontFault

LEMMA PlaceRebuildQueue ==
    ASSUME PlaceInv, BaseInv', CleanStep, NEW n \in Node,
           RebuildQueueNext(n) \/ RebuildQueueFault(n)
    PROVE  PlaceInv'
<1> USE DEF world, maps, stabVars, rebuildVars, aux
<1>0. TypeOK
  BY DEF PlaceInv, BaseInv, GateInv
<1>1. \A m \in Node : NodeInPlace(m)
  BY DEF PlaceInv
<1>2. ASSUME UNCHANGED <<history, alive, view, install, flush, store, calls>>,
             \A m \in Node : stabQ[m] \subseteq stabQ'[m],
             \A r \in rebuilds : r.st = "queue" =>
                 r \in rebuilds' \/ r.loc.key \in stabQ'[r.node],
             \A m \in Node : rflush'[m].pc # "run" => RebuildsOf(m)' = {}
      PROVE  PlaceInv'
  <2>1. CallsContinue
    BY <1>2, SubsetContinues
  <2> QED BY <1>2, <2>1, CalmStep
\* The running flush, one rebuild at a time.
<1>3. ASSUME NEW r \in rebuilds,
             \A s \in rebuilds' : s \in rebuilds \/ s.node = r.node,
             \A s \in rebuilds : s = r \/ s \in rebuilds',
             r.st # "queue" \/ r.loc.key \in stabQ'[r.node],
             \A m \in Node : rflush'[m].pc = rflush[m].pc,
             \A m \in Node : stabQ[m] \subseteq stabQ'[m],
             UNCHANGED <<history, alive, view, install, flush, store, calls>>
      PROVE  PlaceInv'
  <2>1. ASSUME NEW m \in Node, rflush'[m].pc # "run"
        PROVE  RebuildsOf(m)' = {}
    <3>1. RebuildsOf(m) = {}
      BY <1>1, <1>3, <2>1 DEF NodeInPlace
    <3> QED BY <1>3, <3>1 DEF RebuildsOf
  <2> QED BY <1>2, <1>3, <2>1
<1>4. ASSUME NEW r \in rebuilds, NEW new, Runs(n, r), Become(r, new),
             new.node = r.node, r.st # "queue",
             UNCHANGED <<history, alive, view, install, flush, store, calls,
                         stabQ, rflush>>
      PROVE  PlaceInv'
  BY <1>3, <1>4 DEF Become
<1>5. ASSUME NEW r \in rebuilds, Runs(n, r), Gone(r), r.st # "queue",
             \A m \in Node : rflush'[m].pc = rflush[m].pc,
             UNCHANGED <<history, alive, view, install, flush, store, calls,
                         stabQ>>
      PROVE  PlaceInv'
  BY <1>3, <1>5 DEF Gone
<1>6. \A r \in rebuilds : /\ r \in Rebuild
                          /\ r.wait # {} => r.st # "queue"
  BY <1>0 DEF TypeOK, PlaceInv, BaseInv, RebuildsInPlace
<1>7. ASSUME DrainRebuilds(n) PROVE PlaceInv'
  <2>1. RebuildsOf(n) = {}
    BY <1>1, <1>7 DEF DrainRebuilds, NodeInPlace
  <2>2. \A m \in Node : rflush'[m].pc # "run" => RebuildsOf(m)' = {}
    BY <1>1, <1>7, <2>1 DEF DrainRebuilds, NodeInPlace, RebuildsOf
  <2> QED BY <1>2, <1>7, <2>2 DEF DrainRebuilds
<1>8. ASSUME ReadRebuildCluster(n) PROVE PlaceInv'
  <2>1. rflush'[n].pc = "run" /\ \A m \in Node \ {n} : rflush'[m] = rflush[m]
    BY <1>0, <1>8 DEF ReadRebuildCluster, TypeOK, FlushState
  <2>2. \A r \in rebuilds' : r \in rebuilds \/ r.node = n
    BY <1>8 DEF ReadRebuildCluster
  <2>3. \A m \in Node : rflush'[m].pc # "run" => RebuildsOf(m)' = {}
    BY <1>1, <2>1, <2>2 DEF NodeInPlace, RebuildsOf
  <2> QED BY <1>2, <1>8, <2>3 DEF ReadRebuildCluster
<1>9. ASSUME NEW r \in rebuilds, PieceExists(n, r) PROVE PlaceInv'
  <2> DEFINE new == [r EXCEPT !.st = "scan",
                             !.wait = ScanAsks(r.version, r.loc.key)]
  <2>1. new.node = r.node
    BY <1>6 DEF Rebuild
  <2> HIDE DEF new
  <2>2. CASE Gone(r)
    BY <1>5, <1>9, <2>2 DEF PieceExists
  <2>3. CASE Become(r, new)
    BY <1>4, <1>9, <2>1, <2>3 DEF PieceExists
  <2> QED BY <1>9, <2>2, <2>3 DEF PieceExists, new
<1>10. ASSUME NEW r \in rebuilds, AnyPieces(n, r) PROVE PlaceInv'
  <2>1. r.wait # {}
    BY <1>10 DEF AnyPieces
  <2>2. PICK a, found :
           \/ Become(r, [r EXCEPT !.st = "store", !.wait = {}, !.found = {}])
           \/ Become(r, [r EXCEPT !.wait = @ \ {a}, !.found = found])
    BY <1>10 DEF AnyPieces
  <2>3. /\ [r EXCEPT !.st = "store", !.wait = {}, !.found = {}].node = r.node
        /\ [r EXCEPT !.wait = @ \ {a}, !.found = found].node = r.node
    BY <1>6 DEF Rebuild
  <2>4. PICK new : Become(r, new) /\ new.node = r.node
    BY <2>2, <2>3
  <2>5. /\ Runs(n, r)
        /\ UNCHANGED <<history, alive, view, install, flush, store, calls,
                       stabQ, rflush>>
    BY <1>10 DEF AnyPieces
  <2>6. r.st # "queue"
    BY <1>6, <2>1
  <2> QED BY <1>4, <2>4, <2>5, <2>6
<1>11. ASSUME NEW r \in rebuilds, NoReply(n, r) \/ AskLost(n, r) PROVE PlaceInv'
  <2>1. PICK a \in r.wait : Become(r, [r EXCEPT !.wait = @ \ {a}])
    BY <1>11 DEF NoReply, AskLost
  <2>2. [r EXCEPT !.wait = @ \ {a}].node = r.node
    BY <1>6 DEF Rebuild
  <2>3. PICK new : Become(r, new) /\ new.node = r.node
    BY <2>1, <2>2
  <2>4. /\ Runs(n, r)
        /\ UNCHANGED <<history, alive, view, install, flush, store, calls,
                       stabQ, rflush>>
    BY <1>11 DEF NoReply, AskLost
  <2>5. r.st # "queue"
    BY <1>6, <1>11 DEF NoReply, AskLost
  <2> QED BY <1>4, <2>3, <2>4, <2>5
<1>12. ASSUME NEW r \in rebuilds, Broadcast(n, r) PROVE PlaceInv'
  <2> DEFINE new == [r EXCEPT !.st = "bcast", !.found = {},
                             !.wait = {0} \X Map(r.version).members]
  <2>1. new.node = r.node
    BY <1>6 DEF Rebuild
  <2>2. Become(r, new)
    BY <1>12 DEF Broadcast
  <2> HIDE DEF new
  <2> QED BY <1>4, <1>12, <2>1, <2>2 DEF Broadcast
<1>13. ASSUME NEW r \in rebuilds, RebuildFails(n, r) \/ RebuildIoFails(n, r)
       PROVE  PlaceInv'
  <2>1. \A m \in Node : rflush'[m].pc = rflush[m].pc
    <3>1. rflush \in [Node -> FlushState(Loc)] /\ n \in Node
      BY <1>0 DEF TypeOK
    <3>2. rflush' = [rflush EXCEPT ![n].failed = @ \cup {r.loc}]
      BY <1>13 DEF RebuildFails, RebuildIoFails
    <3> QED BY <3>1, <3>2 DEF FlushState
  <2> QED BY <1>5, <1>13, <2>1 DEF RebuildFails, RebuildIoFails
<1>14. ASSUME NEW r \in rebuilds, QueueRebuilt(n, r) PROVE PlaceInv'
  <2>1. /\ \A m \in Node : stabQ[m] \subseteq stabQ'[m]
        /\ r.loc.key \in stabQ'[r.node]
    BY <1>0, <1>14 DEF QueueRebuilt, Runs, TypeOK
  <2> QED BY <1>3, <1>14, <2>1 DEF QueueRebuilt, Gone
<1>15. ASSUME RebuildFlushEnds(n) PROVE PlaceInv'
  <2>1. \A m \in Node : rflush'[m].pc # "run" => RebuildsOf(m)' = {}
    BY <1>1, <1>15 DEF RebuildFlushEnds, NodeInPlace, RebuildsOf
  <2> QED BY <1>2, <1>15, <2>1 DEF RebuildFlushEnds
\* A rebuilt piece is a stray with a task, unless set_new_cluster is about
\* to overwrite the queue.
<1>16. ASSUME NEW r \in rebuilds, StoreRebuilt(n, r) PROVE PlaceInv'
  <2> DEFINE new == [r EXCEPT !.st = "queue"]
  <2>1. /\ new.node = n /\ new.loc = r.loc /\ new.st = "queue"
        /\ rebuilds' = (rebuilds \ {r}) \cup {new}
    BY <1>6, <1>16 DEF StoreRebuilt, Runs, Become, Rebuild
  <2> HIDE DEF new
  <2>2. r.node = n /\ n \in alive /\ r.st = "store"
    BY <1>16 DEF StoreRebuilt, Runs
  <2>3. CallsContinue
    <3>1. \A d \in calls : Continues(d, d)
      BY DEF Continues
    <3> QED BY <1>0, <1>16, <3>1, MarkContinues DEF StoreRebuilt, TypeOK
  <2>4. /\ \A d \in calls' : CallInPlace(d)'
        /\ \A m \in Node, f \in Flusher : FlushContinues(m, f)
    BY <1>16, <2>3, CallsKept DEF StoreRebuilt
  <2>5. \A m \in Node, f \in Flusher, l \in Loc :
            Moving(calls, m, f, l) => Moving(calls', m, f, l)
    BY <1>0, <1>16, MarkMoves DEF StoreRebuilt, TypeOK
  <2>6. ASSUME NEW m \in Node PROVE Untouched(m)
    <3>1. ASSUME NEW l \in Loc, Watched(m), Stray(m, l)', l \notin store[m]
          PROVE  IF install[m].pc = "reset" THEN l.key \in install[m].keys
                                            ELSE Rebuilt(m, l)'
      <4>1. m = n /\ l = r.loc
        BY <1>0, <1>16, <3>1 DEF StoreRebuilt, Stray, TypeOK
      <4>2. Rebuilt(m, l)'
        BY <2>1, <4>1 DEF Rebuilt
      <4>3. HolderAt(LastVersion, l) \notin {m, NoNode}
        BY <1>16, <3>1 DEF StoreRebuilt, Stray, HolderAt, Map
      <4>4. install[m].pc = "reset" => l.key \in install[m].keys
        BY <1>16, <3>1, <4>1, <4>3 DEF CleanStep
      <4> QED BY <4>2, <4>4
    <3>2. \A s \in rebuilds : s.st = "queue" => s \in rebuilds'
      BY <2>1, <2>2
    <3> QED BY <1>16, <2>4, <2>5, <3>1, <3>2 DEF Untouched, StoreRebuilt
  <2>7. ASSUME NEW m \in Node PROVE NodeInPlace(m)'
    <3>1. RebuildsOf(m) = {} => RebuildsOf(m)' = {}
      BY <2>1, <2>2 DEF RebuildsOf
    <3>2. m \notin alive => store'[m] = store[m]
      BY <1>0, <1>16, <2>2 DEF StoreRebuilt, TypeOK
    <3> QED BY <1>1, <1>16, <3>1, <3>2 DEF NodeInPlace, StoreRebuilt
  <2> QED BY <1>16, <2>4, <2>6, <2>7, QuietStep DEF StoreRebuilt
<1> QED
  BY <1>7, <1>8, <1>9, <1>10, <1>11, <1>12, <1>13, <1>14, <1>15, <1>16
  DEF RebuildQueueNext, RebuildQueueFault

\* What a step of another node n has to leave alone at m.
LEMMA OtherAside ==
    ASSUME PlaceInv, NEW m \in Node, UNCHANGED history, m \in alive' <=> m \in alive,
           install'[m] = install[m], view'[m] = view[m], store'[m] = store[m],
           flush'[m] = flush[m], stabQ'[m] = stabQ[m], rflush'[m] = rflush[m],
           \A r \in rebuilds : r.node = m => r \in rebuilds',
           \A r \in rebuilds' : r.node = m => r \in rebuilds,
           \A c \in calls : c.from = m /\ c.by \in Flusher => c \in calls',
           \A c \in calls' : c.from = m /\ c.by \in Flusher => c \in calls
    PROVE  Aside(m)
<1>1. \A f \in Flusher, l \in Loc :
          Moving(calls, m, f, l) => Moving(calls', m, f, l)
  BY DEF Moving
<1>2. \A f \in Flusher : FlushContinues(m, f)
  BY DEF FlushContinues, CallsOf
<1>3. \A l \in Loc : Stray(m, l)' => l \in store[m]
  BY DEF Stray
<1>4. Untouched(m)
  BY <1>1, <1>2, <1>3 DEF Untouched
<1> QED BY <1>4 DEF Aside, RebuildsOf

\* A node whose pieces stay and whose tasks go from one hand to another.
LEMMA TrackedMoved ==
    ASSUME PlaceInv, UNCHANGED history, NEW n \in Node, store'[n] = store[n],
           Watched(n)' => Watched(n), install'[n].keys = install[n].keys,
           install'[n].pc = "reset" <=> install[n].pc = "reset",
           \A l \in Loc : Watched(n) /\ Stray(n, l) /\ Pending(n, l) =>
                              Pending(n, l)'
    PROVE  Tracked(n)'
<1>1. Tracked(n)
  BY DEF PlaceInv
<1>2. \A l \in Loc : Stray(n, l)' => Stray(n, l)
  BY DEF Stray, HolderAt, Map
<1> QED BY <1>1, <1>2 DEF Tracked

\* A flush goes on holding what it holds.
LEMMA FlushingKept ==
    ASSUME NEW n, NEW f, NEW x, Flushing(n, f, x), FlushContinues(n, f),
           flush'[n][f].pc = flush[n][f].pc, flush'[n][f].todo = flush[n][f].todo,
           flush[n][f].failed \subseteq flush'[n][f].failed
    PROVE  Flushing(n, f, x)'
BY DEF Flushing, FlushContinues

LEMMA AbandonAside ==
    ASSUME TypeOK, NEW n \in Node, NEW S, calls' = Abandon(S),
           S \subseteq {c \in calls : c.from = n}
    PROVE  /\ \A c \in calls : c \in S \/ c \in calls'
           /\ \A c \in calls' : c.by \in Flusher => c \in calls \ S
BY DEF Abandon, TypeOK, Call, Flusher

\* The futures of a key are dropped, and the key is tried again.
LEMMA PlaceFailKey ==
    ASSUME PlaceInv, BaseInv', NEW n \in Node, NEW c \in calls,
           Mine(n, c), FailKey(n, c)
    PROVE  PlaceInv'
<1> USE DEF world, maps, stabVars, rebuildVars, aux
<1> DEFINE f == c.by
           S == {d \in CallsOf(n, f) : d.loc.key = c.loc.key}
<1>0. TypeOK
  BY DEF PlaceInv, BaseInv, GateInv
<1>1. f \in Flusher /\ c \in CallsOf(n, f) /\ n \in alive
  BY DEF Mine, CallsOf
<1>2. /\ S \subseteq {d \in calls : d.from = n} /\ S \in SUBSET calls
      /\ calls' = Abandon(S)
  BY DEF FailKey, CallsOf
<1>3. /\ \A d \in calls : d \in S \/ d \in calls'
      /\ \A d \in calls' : d.by \in Flusher => d \in calls \ S
  BY <1>0, <1>2, AbandonAside
<1>4. /\ \A d \in calls' : CallInPlace(d)'
      /\ \A g \in Flusher : FlushContinues(n, g)
  BY <1>0, <1>2, AbandonContinues, CallsKept DEF FailKey
<1>5. /\ \A m \in Node \ {n} : flush'[m] = flush[m]
      /\ \A g \in Flusher : /\ flush'[n][g].pc = flush[n][g].pc
                            /\ flush'[n][g].todo = flush[n][g].todo
                            /\ flush[n][g].failed \subseteq flush'[n][g].failed
      /\ \A g \in Flusher \ {f} : flush'[n][g] = flush[n][g]
      /\ c.loc.key \in flush'[n][f].failed
  <2>1. flush \in [Node -> [Flusher -> FlushState(Key)]]
    BY <1>0 DEF TypeOK
  <2>2. flush' = [flush EXCEPT ![n][f].failed = @ \cup {c.loc.key}]
    BY DEF FailKey
  <2> HIDE DEF f
  <2> QED BY <1>1, <2>1, <2>2 DEF FlushState
<1>6. UNCHANGED <<history, alive, view, install, store, stabQ, rflush, rebuilds>>
  BY DEF FailKey
<1>7. \A g \in Flusher : FlushInPlace(n, g)
  BY DEF PlaceInv
<1>8. flush[n][f].pc = "run"
  BY <1>1, <1>7 DEF FlushInPlace
<1>9. ASSUME NEW m \in Node \ {n} PROVE Aside(m)
  BY <1>2, <1>3, <1>5, <1>6, OtherAside
<1>10. ASSUME NEW g \in Flusher PROVE FlushInPlace(n, g)'
  <2>1. flush'[n][g].pc = "idle" => flush'[n][g].failed = {}
    BY <1>5, <1>7, <1>8 DEF FlushInPlace
  <2> QED BY <1>4, <1>5, <2>1, FlushKept
<1>11. MapInPlace(n)' /\ NodeInPlace(n)'
  <2>1. "cluster" \in Flusher
    BY DEF Flusher
  <2> QED BY <1>5, <1>6, <2>1 DEF PlaceInv, MapInPlace, NodeInPlace, RebuildsOf
<1>12. ASSUME NEW l \in Loc, Pending(n, l) PROVE Pending(n, l)'
  <2>1. CASE l.key \in stabQ[n]
    BY <1>6, <2>1 DEF Pending
  <2>2. CASE Rebuilt(n, l)
    BY <1>6, <2>2 DEF Pending, Rebuilt
  <2>3. ASSUME NEW g \in Flusher, Flushing(n, g, l.key) PROVE Pending(n, l)'
    <3>1. Flushing(n, g, l.key)'
      BY <1>4, <1>5, <2>3, FlushingKept
    <3> QED BY <3>1 DEF Pending
  <2>4. ASSUME NEW g \in Flusher, Moving(calls, n, g, l) PROVE Pending(n, l)'
    <3>1. PICK d \in calls : /\ d.from = n /\ d.by = g /\ d.loc = l
                             /\ d.version = LastVersion
                             /\ d.data \/ d.st = "get"
      BY <2>4 DEF Moving
    <3>2. CASE d \in S
      <4>1. g = f /\ l.key = c.loc.key
        BY <3>1, <3>2 DEF CallsOf
      <4>2. \A e \in CallsOf(n, g) : e.version = LastVersion
        BY <1>7, <3>1 DEF FlushInPlace, CallsOf
      <4>3. \A e \in CallsOf(n, g)' : e.version = LastVersion
        BY <1>4, <4>2 DEF FlushContinues
      <4>4. Flushing(n, g, l.key)'
        BY <1>5, <4>1, <4>3 DEF Flushing
      <4> QED BY <4>4 DEF Pending
    <3>3. CASE d \notin S
      <4>1. Moving(calls', n, g, l)
        BY <1>3, <3>1, <3>3 DEF Moving
      <4>2. Moving(calls, n, g, l)'
        BY <4>1 DEF Moving
      <4> QED BY <4>2 DEF Pending
    <3> QED BY <3>2, <3>3
  <2> QED BY <1>12, <2>1, <2>2, <2>3, <2>4 DEF Pending
<1>13. Tracked(n)'
  <2>1. Watched(n)' => Watched(n)
    BY <1>6 DEF Watched
  <2> QED BY <1>6, <1>12, <2>1, TrackedMoved
<1> HIDE DEF f, S
<1> QED BY <1>4, <1>6, <1>9, <1>10, <1>11, <1>13, StepAt

\* A flush of n that is not the one that steps keeps its part of what is
\* pending.
LEMMA PendingKept ==
    ASSUME NEW n \in Node, NEW f \in Flusher, NEW l \in Loc, Pending(n, l),
           stabQ[n] \subseteq stabQ'[n] \/ Flushing(n, f, l.key)',
           UNCHANGED rebuilds,
           \A g \in Flusher \ {f} :
              flush'[n][g] = flush[n][g] /\ FlushContinues(n, g),
           Flushing(n, f, l.key) => Pending(n, l)',
           \A g \in Flusher : Moving(calls, n, g, l) => Pending(n, l)'
    PROVE  Pending(n, l)'
<1>1. CASE l.key \in stabQ[n]
  BY <1>1 DEF Pending
<1>2. CASE Rebuilt(n, l)
  BY <1>2 DEF Pending, Rebuilt
<1>3. ASSUME NEW g \in Flusher \ {f}, Flushing(n, g, l.key) PROVE Pending(n, l)'
  <2>1. Flushing(n, g, l.key)'
    BY <1>3, FlushingKept
  <2> QED BY <2>1 DEF Pending
<1> QED BY <1>1, <1>2, <1>3 DEF Pending

\* A piece refused under the last map does not exist: what the flush drops
\* was made under an older map.
LEMMA PlaceSendRejected ==
    ASSUME PlaceInv, BaseInv', NEW n \in Node, NEW c \in calls,
           SendRejected(n, c)
    PROVE  PlaceInv'
<1> USE DEF world, maps, stabVars, rebuildVars, aux
<1> DEFINE f == c.by
<1>0. TypeOK
  BY DEF PlaceInv, BaseInv, GateInv
<1>1. f \in Flusher /\ c \in CallsOf(n, f) /\ n \in alive /\ c.st = "rejected"
  BY DEF SendRejected, Mine, CallsOf
<1>2. /\ CallsOf(n, f) \subseteq {d \in calls : d.from = n}
      /\ CallsOf(n, f) \in SUBSET calls /\ calls' = Abandon(CallsOf(n, f))
  BY DEF SendRejected, CallsOf
<1>3. /\ \A d \in calls : d \in CallsOf(n, f) \/ d \in calls'
      /\ \A d \in calls' : d.by \in Flusher => d \in calls \ CallsOf(n, f)
  BY <1>0, <1>2, AbandonAside
<1>4. UNCHANGED <<history, alive, view, store, stabQ, rflush, rebuilds>>
  BY DEF SendRejected
<1>5. /\ \A d \in calls' : CallInPlace(d)'
      /\ \A g \in Flusher : FlushContinues(n, g)
  BY <1>0, <1>2, <1>4, AbandonContinues, CallsKept
<1>6. /\ \A m \in Node \ {n} : flush'[m] = flush[m]
      /\ \A g \in Flusher \ {f} : flush'[n][g] = flush[n][g]
      /\ flush'[n][f] = IdleFlush
  <2>1. flush \in [Node -> [Flusher -> FlushState(Key)]]
    BY <1>0 DEF TypeOK
  <2>2. flush' = [flush EXCEPT ![n][f] = IdleFlush]
    BY DEF SendRejected
  <2> HIDE DEF f
  <2> QED BY <1>1, <2>1, <2>2
<1>7. \A g \in Flusher : FlushInPlace(n, g)
  BY DEF PlaceInv
<1>8. flush[n][f].pc = "run"
  BY <1>1, <1>7 DEF FlushInPlace
<1>9. MapInPlace(n) /\ NodeInPlace(n)
  BY DEF PlaceInv
<1>10. /\ \A m \in Node \ {n} : install'[m] = install[m]
       /\ install'[n].version = install[n].version
       /\ install'[n].keys = install[n].keys
       /\ install'[n].pc = IF f = "cluster" THEN "idle" ELSE install[n].pc
       /\ f = "cluster" => install[n].pc = "wait"
  <2>1. install \in [Node -> InstallState]
    BY <1>0 DEF TypeOK
  <2>2. Returns(n, f)
    BY DEF SendRejected
  <2>3. f = "cluster" => install[n].pc = "wait"
    BY <1>8, <1>9 DEF MapInPlace
  <2> HIDE DEF f
  <2> QED BY <2>1, <2>2, <2>3 DEF Returns, InstallState
<1>11. ASSUME NEW m \in Node \ {n} PROVE Aside(m)
  BY <1>2, <1>3, <1>4, <1>6, <1>10, OtherAside
<1>12. ASSUME NEW g \in Flusher PROVE FlushInPlace(n, g)'
  <2>1. CASE g = f
    BY <1>3, <1>6, <2>1 DEF FlushInPlace, IdleFlush, CallsOf
  <2>2. CASE g # f
    BY <1>5, <1>6, <1>7, <2>2, FlushKept DEF FlushInPlace
  <2> QED BY <2>1, <2>2
<1>13. MapInPlace(n)' /\ NodeInPlace(n)'
  <2>1. f = "tick" \/ f = "cluster"
    BY <1>1 DEF Flusher
  <2>2. flush'[n]["cluster"].pc # "idle" => install'[n].pc = "wait"
    BY <1>6, <1>9, <1>10, <2>1 DEF MapInPlace, IdleFlush, Flusher
  <2>3. MapInPlace(n)'
    BY <1>4, <1>9, <1>10, <2>2 DEF MapInPlace
  <2>4. NodeInPlace(n)'
    BY <1>1, <1>4, <1>9 DEF NodeInPlace, RebuildsOf
  <2> QED BY <2>3, <2>4
<1>14. ASSUME NEW l \in Loc, Pending(n, l) PROVE Pending(n, l)'
  <2>1. c.version # LastVersion
    BY <1>1 DEF PlaceInv, CallInPlace
  <2>2. ~Flushing(n, f, l.key)
    BY <1>1, <1>8, <2>1 DEF Flushing
  <2>3. ASSUME NEW g \in Flusher, Moving(calls, n, g, l) PROVE Pending(n, l)'
    <3>1. PICK d \in calls : /\ d.from = n /\ d.by = g /\ d.loc = l
                             /\ d.version = LastVersion
                             /\ d.data \/ d.st = "get"
      BY <2>3 DEF Moving
    <3>2. d \notin CallsOf(n, f)
      BY <1>1, <1>7, <2>1, <3>1 DEF FlushInPlace
    <3>3. Moving(calls', n, g, l)
      BY <1>3, <3>1, <3>2 DEF Moving
    <3>4. Moving(calls, n, g, l)'
      BY <3>3 DEF Moving
    <3> QED BY <3>4 DEF Pending
  <2> QED BY <1>1, <1>4, <1>5, <1>6, <1>14, <2>2, <2>3, PendingKept
<1>15. Tracked(n)'
  <2>1. Watched(n)' => Watched(n)
    BY <1>4, <1>10 DEF Watched
  <2> QED BY <1>4, <1>10, <1>14, <2>1, TrackedMoved
<1> HIDE DEF f
<1> QED BY <1>4, <1>5, <1>11, <1>12, <1>13, <1>15, StepAt

\* The keys that failed are queued again.
LEMMA PlaceFlushEnds ==
    ASSUME PlaceInv, BaseInv', NEW n \in Node, NEW f \in Flusher,
           FlushEnds(n, f)
    PROVE  PlaceInv'
<1> USE DEF world, maps, stabVars, rebuildVars, aux
<1>0. TypeOK
  BY DEF PlaceInv, BaseInv, GateInv
<1>1. flush[n][f].pc = "run" /\ CallsOf(n, f) = {} /\ n \in alive
  BY DEF FlushEnds
<1>2. UNCHANGED <<history, alive, view, store, calls, rflush, rebuilds>>
  BY DEF FlushEnds
<1>3. /\ \A d \in calls' : CallInPlace(d)'
      /\ \A g \in Flusher : FlushContinues(n, g)
  BY <1>2, SubsetContinues, CallsKept
<1>4. /\ \A m \in Node \ {n} : flush'[m] = flush[m]
      /\ \A g \in Flusher \ {f} : flush'[n][g] = flush[n][g]
      /\ flush'[n][f] = IdleFlush
      /\ \A m \in Node \ {n} : stabQ'[m] = stabQ[m]
      /\ stabQ'[n] = stabQ[n] \cup flush[n][f].failed
  <2>1. flush \in [Node -> [Flusher -> FlushState(Key)]]
    BY <1>0 DEF TypeOK
  <2>2. stabQ \in [Node -> SUBSET Key]
    BY <1>0 DEF TypeOK
  <2> QED BY <2>1, <2>2 DEF FlushEnds
<1>5. MapInPlace(n) /\ NodeInPlace(n) /\ \A g \in Flusher : FlushInPlace(n, g)
  BY DEF PlaceInv
<1>6. /\ \A m \in Node \ {n} : install'[m] = install[m]
      /\ install'[n].version = install[n].version
      /\ install'[n].keys = install[n].keys
      /\ install'[n].pc = IF f = "cluster" THEN "idle" ELSE install[n].pc
      /\ f = "cluster" => install[n].pc = "wait"
  <2>1. install \in [Node -> InstallState]
    BY <1>0 DEF TypeOK
  <2>2. Returns(n, f)
    BY DEF FlushEnds
  <2>3. f = "cluster" => install[n].pc = "wait"
    BY <1>1, <1>5 DEF MapInPlace
  <2> QED BY <2>1, <2>2, <2>3 DEF Returns, InstallState
<1>7. ASSUME NEW m \in Node \ {n} PROVE Aside(m)
  BY <1>2, <1>4, <1>6, OtherAside
<1>8. ASSUME NEW g \in Flusher PROVE FlushInPlace(n, g)'
  <2>1. CASE g = f
    BY <1>1, <1>2, <1>4, <2>1 DEF FlushInPlace, IdleFlush, CallsOf
  <2>2. CASE g # f
    BY <1>3, <1>4, <1>5, <2>2, FlushKept DEF FlushInPlace
  <2> QED BY <2>1, <2>2
<1>9. MapInPlace(n)' /\ NodeInPlace(n)'
  <2>1. f = "tick" \/ f = "cluster"
    BY DEF Flusher
  <2>2. flush'[n]["cluster"].pc # "idle" => install'[n].pc = "wait"
    BY <1>4, <1>5, <1>6, <2>1 DEF MapInPlace, IdleFlush, Flusher
  <2>3. MapInPlace(n)'
    BY <1>2, <1>5, <1>6, <2>2 DEF MapInPlace
  <2>4. NodeInPlace(n)'
    BY <1>1, <1>2, <1>5 DEF NodeInPlace, RebuildsOf
  <2> QED BY <2>3, <2>4
<1>10. ASSUME NEW l \in Loc, Pending(n, l) PROVE Pending(n, l)'
  <2>1. Flushing(n, f, l.key) => Pending(n, l)'
    BY <1>1, <1>4 DEF Flushing, Pending
  <2>2. ASSUME NEW g \in Flusher, Moving(calls, n, g, l) PROVE Pending(n, l)'
    <3>1. Moving(calls, n, g, l)'
      BY <1>2, <2>2 DEF Moving
    <3> QED BY <3>1 DEF Pending
  <2> QED BY <1>2, <1>3, <1>4, <1>10, <2>1, <2>2, PendingKept
<1>11. Tracked(n)'
  <2>1. Watched(n)' => Watched(n)
    BY <1>2, <1>6 DEF Watched
  <2> QED BY <1>2, <1>6, <1>10, <2>1, TrackedMoved
<1> QED BY <1>2, <1>3, <1>7, <1>8, <1>9, <1>11, StepAt

\* The queued keys pass to the flush.
LEMMA PlaceDrain ==
    ASSUME PlaceInv, BaseInv', NEW n \in Node, NEW f \in Flusher, Drain(n, f)
    PROVE  PlaceInv'
<1> USE DEF world, maps, stabVars, rebuildVars, aux
<1>0. TypeOK
  BY DEF PlaceInv, BaseInv, GateInv
<1>1. flush[n][f].pc = "idle" /\ n \in alive
  BY DEF Drain
<1>2. UNCHANGED <<history, alive, view, store, calls, rflush, rebuilds>>
  BY DEF Drain
<1>3. /\ \A d \in calls' : CallInPlace(d)'
      /\ \A g \in Flusher : FlushContinues(n, g)
  BY <1>2, SubsetContinues, CallsKept
<1>4. /\ \A m \in Node \ {n} : flush'[m] = flush[m]
      /\ \A g \in Flusher \ {f} : flush'[n][g] = flush[n][g]
      /\ flush'[n][f] = [pc |-> "drained", todo |-> stabQ[n], failed |-> {}]
      /\ \A m \in Node \ {n} : stabQ'[m] = stabQ[m]
  <2>1. flush \in [Node -> [Flusher -> FlushState(Key)]]
    BY <1>0 DEF TypeOK
  <2>2. stabQ \in [Node -> SUBSET Key]
    BY <1>0 DEF TypeOK
  <2> QED BY <2>1, <2>2 DEF Drain
<1>5. MapInPlace(n) /\ NodeInPlace(n) /\ \A g \in Flusher : FlushInPlace(n, g)
  BY DEF PlaceInv
<1>6. /\ \A m \in Node \ {n} : install'[m] = install[m]
      /\ install'[n].version = install[n].version
      /\ install'[n].keys = install[n].keys
      /\ \/ f = "tick" /\ install'[n].pc = install[n].pc
         \/ f = "cluster" /\ install[n].pc = "flush" /\ install'[n].pc = "wait"
  <2>1. install \in [Node -> InstallState]
    BY <1>0 DEF TypeOK
  <2> QED BY <2>1 DEF Drain, InstallState
<1>7. ASSUME NEW m \in Node \ {n} PROVE Aside(m)
  BY <1>2, <1>4, <1>6, OtherAside
<1>8. ASSUME NEW g \in Flusher PROVE FlushInPlace(n, g)'
  <2>1. CASE g = f
    BY <1>1, <1>2, <1>4, <1>5, <2>1 DEF FlushInPlace, CallsOf
  <2>2. CASE g # f
    BY <1>3, <1>4, <1>5, <2>2, FlushKept DEF FlushInPlace
  <2> QED BY <2>1, <2>2
<1>9. MapInPlace(n)' /\ NodeInPlace(n)'
  <2>1. flush'[n]["cluster"].pc # "idle" => install'[n].pc = "wait"
    BY <1>4, <1>5, <1>6 DEF MapInPlace, Flusher
  <2>2. MapInPlace(n)'
    BY <1>2, <1>5, <1>6, <2>1 DEF MapInPlace
  <2>3. NodeInPlace(n)'
    BY <1>1, <1>2, <1>5 DEF NodeInPlace, RebuildsOf
  <2> QED BY <2>2, <2>3
<1>10. ASSUME NEW l \in Loc, Pending(n, l) PROVE Pending(n, l)'
  <2>1. ASSUME l.key \in stabQ[n] PROVE Pending(n, l)'
    <3>1. Flushing(n, f, l.key)'
      BY <1>4, <2>1 DEF Flushing
    <3> QED BY <3>1 DEF Pending
  <2>2. ~Flushing(n, f, l.key)
    BY <1>1, <1>5 DEF Flushing, FlushInPlace
  <2>3. ASSUME NEW g \in Flusher, Moving(calls, n, g, l) PROVE Pending(n, l)'
    <3>1. Moving(calls, n, g, l)'
      BY <1>2, <2>3 DEF Moving
    <3> QED BY <3>1 DEF Pending
  <2>4. CASE l.key \notin stabQ[n]
    <3>1. CASE Rebuilt(n, l)
      BY <1>2, <3>1 DEF Pending, Rebuilt
    <3>2. ASSUME NEW g \in Flusher \ {f}, Flushing(n, g, l.key)
          PROVE  Pending(n, l)'
      <4>1. Flushing(n, g, l.key)'
        BY <1>3, <1>4, <3>2, FlushingKept
      <4> QED BY <4>1 DEF Pending
    <3> QED BY <1>10, <2>2, <2>3, <2>4, <3>1, <3>2 DEF Pending
  <2> QED BY <2>1, <2>4
<1>11. Tracked(n)'
  <2>1. Watched(n)' => Watched(n)
    BY <1>2, <1>6 DEF Watched
  <2> QED BY <1>2, <1>6, <1>10, <2>1, TrackedMoved
<1> QED BY <1>2, <1>3, <1>7, <1>8, <1>9, <1>11, StepAt

\* A future is made for every stray of a drained key.
LEMMA PlaceReadCluster ==
    ASSUME PlaceInv, BaseInv', NEW n \in Node, NEW f \in Flusher,
           ReadCluster(n, f)
    PROVE  PlaceInv'
<1> USE DEF world, maps, stabVars, rebuildVars, aux
<1> DEFINE T == Tasks(n, f, view[n].stab, flush[n][f].todo)
<1>0. TypeOK
  BY DEF PlaceInv, BaseInv, GateInv
<1>1. flush[n][f].pc = "drained" /\ n \in alive /\ calls' = calls \cup T
  BY DEF ReadCluster
<1>2. UNCHANGED <<history, alive, view, install, store, stabQ, rflush, rebuilds>>
  BY DEF ReadCluster
<1>3. \A d \in T : /\ d.from = n /\ d.by = f /\ d.version = view[n].stab
                  /\ d.to = HolderAt(d.version, d.loc) /\ d.st = "get"
  BY DEF Tasks
<1>4. ASSUME NEW l \in Loc, l.key \in flush[n][f].todo,
             HolderAt(view[n].stab, l) \notin {NoNode, n}
      PROVE  \E d \in T : d.loc = l
  <2> DEFINE d == [from |-> n, by |-> f, to |-> HolderAt(view[n].stab, l),
                   loc |-> l, version |-> view[n].stab, data |-> FALSE,
                   st |-> "get", reput |-> FALSE]
  <2>1. d \in T
    BY <1>4 DEF Tasks
  <2>2. d.loc = l
    OBVIOUS
  <2> HIDE DEF d, T
  <2> QED BY <2>1, <2>2
<1> HIDE DEF T
<1>5. \A d \in calls' : CallInPlace(d)'
  BY <1>1, <1>2, <1>3 DEF PlaceInv, CallInPlace, HolderAt, Map
<1>6. /\ \A m \in Node \ {n} : flush'[m] = flush[m]
      /\ \A g \in Flusher \ {f} : flush'[n][g] = flush[n][g]
      /\ flush'[n][f].pc = "run"
      /\ flush'[n][f].failed = flush[n][f].failed
  <2>1. flush \in [Node -> [Flusher -> FlushState(Key)]]
    BY <1>0 DEF TypeOK
  <2> QED BY <2>1 DEF ReadCluster, FlushState
<1>7. MapInPlace(n) /\ NodeInPlace(n) /\ \A g \in Flusher : FlushInPlace(n, g)
  BY DEF PlaceInv
<1>8. ASSUME NEW m \in Node \ {n} PROVE Aside(m)
  BY <1>1, <1>2, <1>3, <1>6, OtherAside
<1>9. CallsOf(n, f)' = T /\ \A g \in Flusher \ {f} : CallsOf(n, g)' = CallsOf(n, g)
  <2>1. CallsOf(n, f) = {}
    BY <1>1, <1>7 DEF FlushInPlace
  <2> QED BY <1>1, <1>3, <2>1 DEF CallsOf
<1>10. ASSUME NEW g \in Flusher PROVE FlushInPlace(n, g)'
  <2>1. CASE g = f
    BY <1>3, <1>6, <1>9, <2>1 DEF FlushInPlace
  <2>2. CASE g # f
    BY <1>6, <1>7, <1>9, <2>2 DEF FlushInPlace
  <2> QED BY <2>1, <2>2
<1>11. MapInPlace(n)' /\ NodeInPlace(n)'
  <2>1. flush'[n]["cluster"].pc # "idle" => install'[n].pc = "wait"
    BY <1>1, <1>2, <1>6, <1>7 DEF MapInPlace, Flusher
  <2>2. MapInPlace(n)'
    BY <1>2, <1>7, <2>1 DEF MapInPlace
  <2>3. NodeInPlace(n)'
    BY <1>1, <1>2, <1>7 DEF NodeInPlace, RebuildsOf
  <2> QED BY <2>2, <2>3
<1>12. ASSUME NEW l \in Loc, Watched(n), Stray(n, l), Pending(n, l)
       PROVE  Pending(n, l)'
  <2>1. view[n].stab = LastVersion
    BY <1>7, <1>12 DEF MapInPlace, Watched
  <2>2. ASSUME Flushing(n, f, l.key) PROVE Pending(n, l)'
    <3>1. CASE l.key \in flush[n][f].todo
      <4>1. PICK d \in T : d.loc = l
        BY <1>4, <1>12, <2>1, <3>1 DEF Stray
      <4>2. Moving(calls', n, f, l)
        BY <1>1, <1>3, <2>1, <4>1 DEF Moving
      <4>3. Moving(calls, n, f, l)'
        BY <4>2 DEF Moving
      <4> QED BY <4>3 DEF Pending
    <3>2. CASE l.key \in flush[n][f].failed
      <4>1. Flushing(n, f, l.key)'
        BY <1>3, <1>6, <1>9, <2>1, <3>2 DEF Flushing
      <4> QED BY <4>1 DEF Pending
    <3> QED BY <2>2, <3>1, <3>2 DEF Flushing
  <2>3. ASSUME NEW g \in Flusher, Moving(calls, n, g, l) PROVE Pending(n, l)'
    <3>1. Moving(calls', n, g, l)
      BY <1>1, <2>3 DEF Moving
    <3>2. Moving(calls, n, g, l)'
      BY <3>1 DEF Moving
    <3> QED BY <3>2 DEF Pending
  <2>4. \A g \in Flusher \ {f} : FlushContinues(n, g)
    BY <1>9 DEF FlushContinues
  <2> QED BY <1>2, <1>6, <1>12, <2>2, <2>3, <2>4, PendingKept
<1>13. Tracked(n)'
  <2>1. Watched(n)' => Watched(n)
    BY <1>2 DEF Watched
  <2> QED BY <1>2, <1>12, <2>1, TrackedMoved
<1> QED BY <1>2, <1>5, <1>8, <1>10, <1>11, <1>13, StepAt

\* What is read is what will be deleted.
LEMMA PlaceGet ==
    ASSUME PlaceInv, BaseInv', NEW n \in Node, NEW c \in calls, GetPiece(n, c)
    PROVE  PlaceInv'
<1> USE DEF world, maps, stabVars, rebuildVars, aux
<1> DEFINE x == [c EXCEPT !.st = "sent", !.data = (c.loc \in store[n])]
<1>0. TypeOK
  BY DEF PlaceInv, BaseInv, GateInv
<1>1. /\ x.from = c.from /\ x.by = c.by /\ x.to = c.to /\ x.loc = c.loc
      /\ x.version = c.version /\ x.st = "sent"
      /\ x.data = (c.loc \in store[n])
  BY <1>0 DEF TypeOK, Call
<1>2. calls' = (calls \ {c}) \cup {x} /\ c.from = n
  BY DEF GetPiece, Mine
<1> HIDE DEF x
<1>3. UNCHANGED <<history, alive, view, install, flush, store, stabQ, rflush,
                 rebuilds>>
  BY DEF GetPiece
<1>4. CallsContinue
  <2>1. Continues(x, c)
    BY <1>1 DEF Continues
  <2>2. \A d \in calls : Continues(d, d)
    BY DEF Continues
  <2> QED BY <1>2, <2>1, <2>2 DEF CallsContinue
<1>5. /\ \A d \in calls' : CallInPlace(d)'
      /\ \A m \in Node, g \in Flusher : FlushContinues(m, g)
  BY <1>3, <1>4, CallsKept
<1>6. ASSUME NEW m \in Node, NEW g \in Flusher, NEW l \in Loc,
             l \in store[m], Moving(calls, m, g, l)
      PROVE  Moving(calls', m, g, l)
  <2>1. PICK d \in calls : /\ d.from = m /\ d.by = g /\ d.loc = l
                           /\ d.version = LastVersion
                           /\ d.data \/ d.st = "get"
    BY <1>6 DEF Moving
  <2> QED BY <1>1, <1>2, <1>6, <2>1 DEF Moving
<1>7. ASSUME NEW m \in Node PROVE NodeInPlace(m)' /\ Untouched(m)
  <2>1. NodeInPlace(m)'
    BY <1>3 DEF PlaceInv, NodeInPlace, RebuildsOf
  <2>2. Untouched(m)
    BY <1>3, <1>5, <1>6 DEF Untouched, Stray
  <2> QED BY <2>1, <2>2
<1> QED BY <1>3, <1>5, <1>7, QuietStep

\* The copy that was sent is no longer there.
LEMMA PlaceDelete ==
    ASSUME PlaceInv, BaseInv', NEW n \in Node, NEW c \in calls,
           DeletePiece(n, c)
    PROVE  PlaceInv'
<1> USE DEF world, maps, stabVars, rebuildVars, aux
<1>0. TypeOK
  BY DEF PlaceInv, BaseInv, GateInv
<1>1. /\ c.from = n /\ n \in alive /\ c.st = "ok" /\ calls' = calls \ {c}
      /\ c.data => c.loc \notin store'[n]
      /\ \A m \in Node : store'[m] \subseteq store[m]
      /\ \A m \in Node \ {n} : store'[m] = store[m]
  <2>1. store \in [Node -> SUBSET Loc]
    BY <1>0 DEF TypeOK
  <2> QED BY <2>1 DEF DeletePiece, Mine
<1>2. UNCHANGED <<history, alive, view, install, flush, stabQ, rflush, rebuilds>>
  BY DEF DeletePiece
<1>3. CallsContinue
  BY <1>1, SubsetContinues
<1>4. /\ \A d \in calls' : CallInPlace(d)'
      /\ \A m \in Node, g \in Flusher : FlushContinues(m, g)
  BY <1>2, <1>3, CallsKept
<1>5. ASSUME NEW m \in Node, NEW g \in Flusher, NEW l \in Loc,
             l \in store'[m], Moving(calls, m, g, l)
      PROVE  Moving(calls', m, g, l)
  <2>1. PICK d \in calls : /\ d.from = m /\ d.by = g /\ d.loc = l
                           /\ d.version = LastVersion
                           /\ d.data \/ d.st = "get"
    BY <1>5 DEF Moving
  <2> QED BY <1>1, <1>5, <2>1 DEF Moving
<1>6. ASSUME NEW m \in Node PROVE NodeInPlace(m)' /\ Untouched(m)
  <2>1. NodeInPlace(m)
    BY DEF PlaceInv
  <2>2. NodeInPlace(m)'
    BY <1>1, <1>2, <2>1 DEF NodeInPlace, RebuildsOf
  <2>3. Untouched(m)
    BY <1>1, <1>2, <1>4, <1>5 DEF Untouched, Stray
  <2> QED BY <2>2, <2>3
<1> QED BY <1>2, <1>4, <1>6, QuietStep

LEMMA PlaceStabilizer ==
    ASSUME PlaceInv, BaseInv', CleanStep, NEW n \in Node,
           StabilizerNext(n) \/ StabilizerFault(n)
    PROVE  PlaceInv'
\* A copy that is left behind by a move of an older map is not followed.
<1>1. ASSUME NEW c \in calls, DeleteFails(n, c) PROVE PlaceInv'
  <2>1. c.version # LastVersion /\ calls' = calls \ {c}
    BY <1>1 DEF CleanStep, DeleteFails
  <2>2. CallsContinue
    BY <2>1, SubsetContinues
  <2>3. \A m \in Node, f \in Flusher, l \in Loc :
            Moving(calls, m, f, l) => Moving(calls', m, f, l)
    BY <2>1 DEF Moving
  <2>4. UNCHANGED <<history, alive, view, install, flush, store, stabQ,
                   rebuilds, rflush>>
    BY <1>1 DEF DeleteFails, maps, stabVars, rebuildVars
  <2>5. \A m \in Node : rflush'[m].pc # "run" => RebuildsOf(m)' = {}
    BY <2>4 DEF PlaceInv, NodeInPlace, RebuildsOf
  <2> QED BY <2>2, <2>3, <2>4, <2>5, CalmStep
<1>2. ASSUME NEW c \in calls,
             GetFails(n, c) \/ SendFailed(n, c) \/ SendLost(n, c)
      PROVE  PlaceInv'
  <2>1. Mine(n, c) /\ FailKey(n, c)
    BY <1>2 DEF GetFails, SendFailed, SendLost
  <2> QED BY <2>1, PlaceFailKey
<1> QED
  BY <1>1, <1>2, PlaceDrain, PlaceReadCluster, PlaceGet, PlaceDelete,
     PlaceSendRejected, PlaceFlushEnds
  DEF StabilizerNext, FlushNext, StabilizerFault, CallsOf

\* The keys of the strays are read and queued before anything may rely on it.
LEMMA PlaceClusterIn ==
    ASSUME PlaceInv, BaseInv', NEW n \in Node,
           ClusterInNext(n) \/ ClusterInFault(n)
    PROVE  PlaceInv'
<1> USE DEF world, maps, stabVars, rebuildVars, aux
<1>0. TypeOK
  BY DEF PlaceInv, BaseInv, GateInv
<1>1. /\ MapInPlace(n) /\ NodeInPlace(n) /\ Tracked(n) /\ FanOutOrdered(n)
      /\ \A f \in Flusher : FlushInPlace(n, f)
  BY DEF PlaceInv, BaseInv, GateInv
<1>2. /\ install \in [Node -> InstallState] /\ stabQ \in [Node -> SUBSET Key]
      /\ view \in [Node -> [ViewName -> Version]]
  BY <1>0 DEF TypeOK
<1>3. ASSUME UNCHANGED <<history, alive, store, flush, calls, rflush, rebuilds>>,
             \A m \in Node \ {n} : /\ install'[m] = install[m]
                                  /\ view'[m] = view[m] /\ stabQ'[m] = stabQ[m],
             n \in alive, MapInPlace(n)', Tracked(n)'
      PROVE  PlaceInv'
  <2>1. \A d \in calls' : CallInPlace(d)'
    BY <1>3, SubsetContinues, CallsKept
  <2>2. \A m \in Node \ {n} : Aside(m)
    BY <1>3, OtherAside
  <2>3. NodeInPlace(n)'
    BY <1>1, <1>3 DEF NodeInPlace, RebuildsOf
  <2>4. \A f \in Flusher : FlushInPlace(n, f)'
    BY <1>1, <1>3 DEF FlushInPlace, CallsOf
  <2> QED BY <1>3, <2>1, <2>2, <2>3, <2>4, StepAt
\* Back to the fan-out.
<1>4. ASSUME UNCHANGED <<history, alive, store, view, stabQ, flush, calls,
                        rflush, rebuilds>>,
             \A m \in Node \ {n} : install'[m] = install[m],
             n \in alive, install'[n].pc = "io", install[n].pc # "wait"
      PROVE  PlaceInv'
  <2>1. MapInPlace(n)'
    BY <1>1, <1>4 DEF MapInPlace
  <2>2. Tracked(n)'
    BY <1>4 DEF Tracked, Watched
  <2> QED BY <1>3, <1>4, <2>1, <2>2
<1>5. FanOut[1] = "io"
  BY DEF FanOut
<1>6. ASSUME NEW v \in Version, BeginInstall(n, v) PROVE PlaceInv'
  <2>1. /\ install'[n].pc = "io"
        /\ \A m \in Node \ {n} : install'[m] = install[m]
    BY <1>2, <1>5, <1>6 DEF BeginInstall
  <2> QED BY <1>4, <1>6, <2>1 DEF BeginInstall
<1>7. ASSUME Reapply(n) PROVE PlaceInv'
  <2>1. /\ install'[n].pc = "io"
        /\ \A m \in Node \ {n} : install'[m] = install[m]
    BY <1>2, <1>5, <1>7 DEF Reapply, InstallState
  <2> QED BY <1>4, <1>7, <2>1 DEF Reapply
<1>8. ASSUME KeysFails(n) PROVE PlaceInv'
  <2>1. /\ install'[n].pc = "io"
        /\ \A m \in Node \ {n} : install'[m] = install[m]
    BY <1>2, <1>5, <1>8 DEF KeysFails, InstallState
  <2> QED BY <1>4, <1>8, <2>1 DEF KeysFails
<1>9. ASSUME NEW i \in 1..Len(FanOut), SetNewCluster(n, i) PROVE PlaceInv'
  <2>1. /\ FanOut = <<"io", "peer", "rebuild", "stab">>
        /\ i \in {1, 2, 3, 4} /\ Len(FanOut) = 4
    BY FanOutType DEF FanOut
  <2>2. /\ install'[n].version = install[n].version
        /\ install[n].pc = FanOut[i] /\ n \in alive
        /\ install'[n].pc = IF i < 4 THEN FanOut[i + 1] ELSE "keys"
        /\ \A m \in Node \ {n} : install'[m] = install[m] /\ view'[m] = view[m]
    BY <1>2, <1>9, <2>1 DEF SetNewCluster, InstallState
  <2>3. /\ view'[n].peer = IF i = 2 THEN install[n].version ELSE view[n].peer
        /\ view'[n].stab = IF i = 4 THEN install[n].version ELSE view[n].stab
    BY <1>2, <1>9, <2>1 DEF SetNewCluster, ViewName
  <2>4. UNCHANGED <<history, alive, store, stabQ, flush, calls, rflush, rebuilds>>
    BY <1>9 DEF SetNewCluster
  <2>5. MapInPlace(n)'
    BY <1>1, <2>1, <2>2, <2>3, <2>4 DEF MapInPlace, FanOutOrdered
  <2>6. Tracked(n)'
    BY <2>1, <2>2 DEF Tracked, Watched
  <2> QED BY <1>3, <2>2, <2>4, <2>5, <2>6
<1>10. ASSUME ReadKeys(n) PROVE PlaceInv'
  <2>1. /\ install'[n].version = install[n].version /\ install[n].pc = "keys"
        /\ install'[n].pc = "reset" /\ n \in alive
        /\ install'[n].keys = {l.key : l \in store[n]}
        /\ \A m \in Node \ {n} : install'[m] = install[m]
    BY <1>2, <1>10 DEF ReadKeys, InstallState
  <2>2. UNCHANGED <<history, alive, view, store, stabQ, flush, calls, rflush,
                   rebuilds>>
    BY <1>10 DEF ReadKeys
  <2>3. MapInPlace(n)'
    BY <1>1, <2>1, <2>2 DEF MapInPlace
  <2>4. Tracked(n)'
    BY <2>1, <2>2 DEF Tracked, Stray
  <2> QED BY <1>3, <2>1, <2>2, <2>3, <2>4
<1>11. ASSUME ResetQueue(n) PROVE PlaceInv'
  <2>1. /\ install'[n].version = install[n].version /\ install[n].pc = "reset"
        /\ install'[n].pc = "flush" /\ n \in alive
        /\ stabQ'[n] = install[n].keys
        /\ \A m \in Node \ {n} : /\ install'[m] = install[m]
                                /\ stabQ'[m] = stabQ[m]
    BY <1>2, <1>11 DEF ResetQueue, InstallState
  <2>2. UNCHANGED <<history, alive, view, store, flush, calls, rflush, rebuilds>>
    BY <1>11 DEF ResetQueue
  <2>3. MapInPlace(n)'
    BY <1>1, <2>1, <2>2 DEF MapInPlace
  <2>4. Tracked(n)'
    <3>1. ASSUME Watched(n)', NEW l \in Loc, Stray(n, l)' PROVE Pending(n, l)'
      <4>1. Watched(n) /\ Stray(n, l)
        BY <2>1, <2>2, <3>1 DEF Watched, Stray, HolderAt, Map
      <4>2. l.key \in stabQ'[n]
        BY <1>1, <2>1, <4>1 DEF Tracked
      <4> QED BY <4>2 DEF Pending
    <3> QED BY <2>1, <3>1 DEF Tracked
  <2> QED BY <1>3, <2>1, <2>2, <2>3, <2>4
<1> QED
  BY <1>6, <1>7, <1>8, <1>9, <1>10, <1>11 DEF ClusterInNext, ClusterInFault

\* A node that stops has nothing under way.
LEMMA PlaceStops ==
    ASSUME PlaceInv, BaseInv', NEW n \in Node, Crash(n) \/ Shutdown(n)
    PROVE  PlaceInv'
<1> USE DEF world, maps, stabVars, rebuildVars, aux
<1> DEFINE S == {c \in calls : c.from = n}
<1>0. TypeOK
  BY DEF PlaceInv, BaseInv, GateInv
<1>1. /\ alive' = alive \ {n} /\ calls' = Abandon(S)
      /\ rebuilds' = rebuilds \ RebuildsOf(n) /\ UNCHANGED history
  BY DEF Crash, Shutdown
<1>2. /\ \A d \in calls : d \in S \/ d \in calls'
      /\ \A d \in calls' : d.by \in Flusher => d \in calls \ S
  BY <1>0, <1>1, AbandonAside
<1>3. \A d \in calls' : CallInPlace(d)'
  BY <1>0, <1>1, AbandonContinues, CallsKept
<1>4. /\ \A m \in Node \ {n} :
             /\ install'[m] = install[m] /\ view'[m] = view[m]
             /\ store'[m] = store[m] /\ flush'[m] = flush[m]
             /\ stabQ'[m] = stabQ[m] /\ rflush'[m] = rflush[m]
      /\ rflush'[n].pc = "idle"
      /\ \A f \in Flusher : flush'[n][f] = IdleFlush
      /\ \/ install'[n].pc = "idle" /\ store'[n] = {}
         \/ /\ install'[n].pc = "stopped" /\ install'[n].version = 0
            /\ view'[n].stab = 0 /\ view'[n].peer = 0
  <2>1. CASE Crash(n)
    BY <1>0, <2>1 DEF Crash, TypeOK, InstallState, IdleFlush
  <2>2. CASE Shutdown(n)
    BY <1>0, <2>2 DEF Shutdown, TypeOK, IdleFlush, ViewName
  <2> QED BY <2>1, <2>2
<1>5. ASSUME NEW m \in Node \ {n} PROVE Aside(m)
  <2>1. /\ \A r \in rebuilds : r.node = m => r \in rebuilds'
        /\ \A r \in rebuilds' : r.node = m => r \in rebuilds
    BY <1>1 DEF RebuildsOf
  <2>2. m \in alive' <=> m \in alive
    BY <1>1
  <2> QED BY <1>1, <1>2, <1>4, <2>1, <2>2, OtherAside
<1>6. MapInPlace(n)' /\ NodeInPlace(n)'
  <2>1. "cluster" \in Flusher
    BY DEF Flusher
  <2>2. MapInPlace(n)'
    BY <1>1, <1>4, <2>1 DEF MapInPlace, IdleFlush
  <2>3. NodeInPlace(n)'
    BY <1>1, <1>4 DEF NodeInPlace, RebuildsOf
  <2> QED BY <2>2, <2>3
<1>7. Tracked(n)'
  BY <1>1 DEF Tracked, Watched
<1>8. ASSUME NEW f \in Flusher PROVE FlushInPlace(n, f)'
  BY <1>2, <1>4 DEF FlushInPlace, CallsOf, IdleFlush
<1> HIDE DEF S
<1> QED BY <1>1, <1>3, <1>5, <1>6, <1>7, <1>8, StepAt

\* A node starts again without a map; the map of version 0 places nothing.
LEMMA PlaceBoot ==
    ASSUME PlaceInv, BaseInv', NEW n \in Node, Boot(n)
    PROVE  PlaceInv'
<1> USE DEF world, maps, stabVars, rebuildVars, aux
<1>0. TypeOK
  BY DEF PlaceInv, BaseInv, GateInv
<1>1. /\ MapInPlace(n) /\ NodeInPlace(n) /\ install[n].pc = "stopped"
      /\ \A f \in Flusher : FlushInPlace(n, f)
  BY DEF PlaceInv, Boot
<1>2. /\ alive' = alive \cup {n} /\ calls' \in SUBSET calls
      /\ \A c \in calls : c.by \in Flusher => c \in calls'
  BY DEF Boot, Flusher
<1>3. UNCHANGED <<history, view, store, stabQ, flush, rflush, rebuilds>>
  BY DEF Boot
<1>4. /\ install'[n].pc = "idle" /\ install'[n].version = 0
      /\ view[n].stab = 0 /\ view[n].peer = 0
      /\ \A m \in Node \ {n} : install'[m] = install[m]
  BY <1>0, <1>1 DEF Boot, TypeOK, InstallState, MapInPlace
<1>5. \A d \in calls' : CallInPlace(d)'
  BY <1>2, <1>3, SubsetContinues, CallsKept
<1>6. ASSUME NEW m \in Node \ {n} PROVE Aside(m)
  BY <1>2, <1>3, <1>4, OtherAside
<1>7. MapInPlace(n)'
  BY <1>1, <1>3, <1>4 DEF MapInPlace
<1>8. NodeInPlace(n)'
  BY <1>1, <1>2, <1>3 DEF NodeInPlace, RebuildsOf
<1>9. Tracked(n)'
  <2> SUFFICES ASSUME LastVersion = 0, NEW l \in Loc, Stray(n, l)' PROVE FALSE
    BY <1>4 DEF Tracked, Watched
  <2>1. history[0] = EmptyMap
    BY <1>0, HistoryAssumption DEF TypeOK
  <2>2. l.key \in Key
    BY DEF Loc
  <2>3. HolderAt(0, l)' = NoNode
    BY <1>3, <2>1, <2>2 DEF HolderAt, Map, Holder, EmptyMap
  <2> QED BY <2>3 DEF Stray
<1>10. ASSUME NEW f \in Flusher PROVE FlushInPlace(n, f)'
  BY <1>1, <1>2, <1>3 DEF FlushInPlace, CallsOf
<1> QED BY <1>3, <1>5, <1>6, <1>7, <1>8, <1>9, <1>10, StepAt

------------------------------------------------------------------------------
(* -- The theorems -- *)

LEMMA RebuildsStep == TypeOK /\ RebuildsInPlace /\ [Next]_vars => RebuildsInPlace'
<1> SUFFICES ASSUME TypeOK, RebuildsInPlace, [Next]_vars PROVE RebuildsInPlace'
  OBVIOUS
<1> USE DEF world, maps, stabVars, rebuildVars, aux
<1>1. \A r \in rebuilds : r \in Rebuild
  BY DEF TypeOK
<1>2. ASSUME rebuilds' \in SUBSET rebuilds PROVE RebuildsInPlace'
  BY <1>2 DEF RebuildsInPlace
<1>3. ASSUME NEW r \in rebuilds, NEW new, Become(r, new),
             new.st \in {"store", "queue"} => new.wait = {}
      PROVE  RebuildsInPlace'
  BY <1>3 DEF RebuildsInPlace, Become
<1>4. ASSUME NEW n \in Node, RebuildQueueNext(n) \/ RebuildQueueFault(n)
      PROVE  RebuildsInPlace'
  <2>1. ASSUME ReadRebuildCluster(n) PROVE RebuildsInPlace'
    <3>1. \A r \in rebuilds' : r \in rebuilds \/ r.st = "check"
      BY <2>1 DEF ReadRebuildCluster
    <3> QED BY <3>1 DEF RebuildsInPlace
  <2>2. ASSUME NEW r \in rebuilds, PieceExists(n, r) PROVE RebuildsInPlace'
    <3>1. [r EXCEPT !.st = "scan",
                    !.wait = ScanAsks(r.version, r.loc.key)].st = "scan"
      BY <1>1 DEF Rebuild
    <3>2. CASE Gone(r)
      BY <1>2, <3>2 DEF Gone
    <3>3. CASE Become(r, [r EXCEPT !.st = "scan",
                                   !.wait = ScanAsks(r.version, r.loc.key)])
      BY <1>3, <3>1, <3>3
    <3> QED BY <2>2, <3>2, <3>3 DEF PieceExists
  <2>3. ASSUME NEW r \in rebuilds, AnyPieces(n, r) PROVE RebuildsInPlace'
    <3>1. PICK a, found :
             /\ a \in r.wait
             /\ \/ Become(r, [r EXCEPT !.st = "store", !.wait = {}, !.found = {}])
                \/ Become(r, [r EXCEPT !.wait = @ \ {a}, !.found = found])
      BY <2>3 DEF AnyPieces
    <3>2. [r EXCEPT !.st = "store", !.wait = {}, !.found = {}].wait = {}
      BY <1>1 DEF Rebuild
    <3>3. [r EXCEPT !.wait = @ \ {a}, !.found = found].st = r.st
      BY <1>1 DEF Rebuild
    <3>4. r.st \notin {"store", "queue"}
      BY <3>1 DEF RebuildsInPlace
    <3>5. PICK new : Become(r, new) /\ (new.wait = {} \/ new.st = r.st)
      BY <3>1, <3>2, <3>3
    <3> QED BY <1>3, <3>4, <3>5
  <2>4. ASSUME NEW r \in rebuilds, NoReply(n, r) \/ AskLost(n, r)
        PROVE  RebuildsInPlace'
    <3>1. PICK a \in r.wait : Become(r, [r EXCEPT !.wait = @ \ {a}])
      BY <2>4 DEF NoReply, AskLost
    <3>2. [r EXCEPT !.wait = @ \ {a}].st = r.st
      BY <1>1 DEF Rebuild
    <3>3. r.st \notin {"store", "queue"}
      BY <3>1 DEF RebuildsInPlace
    <3>4. PICK new : Become(r, new) /\ new.st = r.st
      BY <3>1, <3>2
    <3> QED BY <1>3, <3>3, <3>4
  <2>5. ASSUME NEW r \in rebuilds, Broadcast(n, r) PROVE RebuildsInPlace'
    <3>1. [r EXCEPT !.st = "bcast", !.found = {},
                    !.wait = {0} \X Map(r.version).members].st = "bcast"
      BY <1>1 DEF Rebuild
    <3>2. PICK new : Become(r, new) /\ new.st = "bcast"
      BY <2>5, <3>1 DEF Broadcast
    <3> QED BY <1>3, <3>2
  <2>6. ASSUME NEW r \in rebuilds, StoreRebuilt(n, r) PROVE RebuildsInPlace'
    <3>1. r.wait = {} /\ [r EXCEPT !.st = "queue"].wait = r.wait
      BY <1>1, <2>6 DEF StoreRebuilt, RebuildsInPlace, Rebuild
    <3>2. PICK new : Become(r, new) /\ new.wait = {}
      BY <2>6, <3>1 DEF StoreRebuilt
    <3> QED BY <1>3, <3>2
  <2>7. ASSUME DrainRebuilds(n) \/ RebuildFlushEnds(n) PROVE RebuildsInPlace'
    BY <1>2, <2>7 DEF DrainRebuilds, RebuildFlushEnds
  <2>8. ASSUME NEW r \in rebuilds,
               RebuildFails(n, r) \/ RebuildIoFails(n, r) \/ QueueRebuilt(n, r)
        PROVE  RebuildsInPlace'
    BY <1>2, <2>8 DEF RebuildFails, RebuildIoFails, QueueRebuilt, Gone
  <2> QED
    BY <1>4, <2>1, <2>2, <2>3, <2>4, <2>5, <2>6, <2>7, <2>8
    DEF RebuildQueueNext, RebuildQueueFault
<1>5. ASSUME NEW n \in Node, ClusterInNext(n) \/ ClusterInFault(n)
      PROVE  RebuildsInPlace'
  BY <1>2, <1>5 DEF ClusterInNext, ClusterInFault, BeginInstall, Reapply,
                    SetNewCluster, ReadKeys, KeysFails, ResetQueue
<1>6. ASSUME NEW n \in Node, PeerInNext(n) \/ PeerInFault(n)
      PROVE  RebuildsInPlace'
  BY <1>2, <1>6 DEF PeerInNext, PeerInFault, RejectPiece, PutPiece, PutFails,
                    QueueTask, QueueRebuild
<1>7. ASSUME NEW n \in Node, StabilizerNext(n) \/ StabilizerFault(n)
      PROVE  RebuildsInPlace'
  BY <1>2, <1>7 DEF StabilizerNext, StabilizerFault, FlushNext, Drain,
                    ReadCluster, GetPiece, DeletePiece, DeleteFails, GetFails,
                    SendFailed, SendLost, FailKey, SendRejected, FlushEnds
<1>8. ASSUME NEW n \in Node, IOFrontNext(n) \/ IOFrontFault(n)
      PROVE  RebuildsInPlace'
  BY <1>2, <1>8 DEF IOFrontNext, IOFrontFault, CreateBegins, SendPieces,
                    CreateReturns, CountOk, CountNotOk, CreateLost
<1>9. ASSUME NEW n \in Node, Crash(n) \/ Shutdown(n) \/ Boot(n)
      PROVE  RebuildsInPlace'
  BY <1>2, <1>9 DEF Crash, Shutdown, Boot
<1>10. ASSUME NEW c \in calls, LoseAbandoned(c) PROVE RebuildsInPlace'
  BY <1>2, <1>10 DEF LoseAbandoned
<1>11. CASE UNCHANGED vars
  BY <1>2, <1>11 DEF vars
<1> QED
  BY <1>4, <1>5, <1>6, <1>7, <1>8, <1>9, <1>10, <1>11
  DEF Next, NodeNext, FaultNext

LEMMA PlaceStep == PlaceInv /\ [Next]_vars /\ [CleanStep]_vars => PlaceInv'
<1> SUFFICES ASSUME PlaceInv, [Next]_vars, [CleanStep]_vars PROVE PlaceInv'
  OBVIOUS
<1> USE DEF world, maps, stabVars, rebuildVars, aux
<1>1. BaseInv'
  BY GateStep, RebuildsStep DEF PlaceInv, BaseInv, GateInv
<1>2. ASSUME calls' \in SUBSET calls,
             \A c \in calls : c.by \in Flusher => c \in calls',
             UNCHANGED <<history, alive, view, install, flush, store, stabQ,
                         rebuilds, rflush>>
      PROVE  PlaceInv'
  <2>1. \A n \in Node, f \in Flusher, l \in Loc :
            Moving(calls, n, f, l) => Moving(calls', n, f, l)
    BY <1>2 DEF Moving
  <2>2. \A n \in Node : rflush'[n].pc # "run" => RebuildsOf(n)' = {}
    BY <1>2 DEF PlaceInv, NodeInPlace, RebuildsOf
  <2>3. CallsContinue
    BY <1>2, SubsetContinues
  <2> QED BY <1>1, <1>2, <2>1, <2>2, <2>3, CalmStep
<1>3. CASE UNCHANGED vars
  BY <1>2, <1>3 DEF vars
<1>4. ASSUME NEW c \in calls, LoseAbandoned(c) PROVE PlaceInv'
  BY <1>2, <1>4 DEF LoseAbandoned, Flusher
<1>5. ASSUME CleanStep, NEW n \in Node, NodeNext(n) \/ FaultNext(n)
      PROVE  PlaceInv'
  BY <1>1, <1>5, PlaceClusterIn, PlacePeerIn, PlaceStabilizer,
     PlaceRebuildQueue, PlaceIOFront, PlaceStops, PlaceBoot
  DEF NodeNext, FaultNext
<1> QED BY <1>3, <1>4, <1>5 DEF Next

LEMMA PlaceInit == Init => PlaceInv
<1> SUFFICES ASSUME Init PROVE PlaceInv
  OBVIOUS
<1> DEFINE v(n) == IF n \in Map(Start).members \ Late THEN Start ELSE 0
<1>1. BaseInv
  BY GateInit DEF Init, BaseInv, RebuildsInPlace
<1>2. ASSUME NEW n \in Node
      PROVE  /\ view[n].stab = v(n) /\ view[n].peer = v(n)
             /\ install[n].version = v(n) /\ install[n].pc = "idle"
             /\ rflush[n] = IdleFlush /\ calls = {} /\ rebuilds = {}
             /\ \A f \in Flusher : flush[n][f] = IdleFlush
             /\ \A l \in store[n] : HolderAt(Start, l) = n
             /\ n \notin alive => store[n] = {}
  BY DEF Init, ViewName
<1>3. ASSUME NEW n \in Node PROVE MapInPlace(n) /\ NodeInPlace(n)
  <2>1. "cluster" \in Flusher
    BY DEF Flusher
  <2> HIDE DEF v
  <2> QED BY <1>2, <2>1 DEF MapInPlace, NodeInPlace, RebuildsOf, IdleFlush
<1>4. ASSUME NEW n \in Node PROVE Tracked(n)
  <2> SUFFICES ASSUME Watched(n), NEW l \in Loc, Stray(n, l) PROVE FALSE
    BY DEF Tracked
  <2>1. LastVersion = Start
    BY <1>2, VersionAssumption DEF Watched, Version
  <2> QED BY <1>2, <2>1 DEF Stray
<1>5. ASSUME NEW n \in Node, NEW f \in Flusher PROVE FlushInPlace(n, f)
  BY <1>2 DEF FlushInPlace, CallsOf, IdleFlush
<1>6. calls = {}
  BY DEF Init
<1> QED BY <1>1, <1>3, <1>4, <1>5, <1>6 DEF PlaceInv

\* When nothing is under way, no live node has a piece that the last map
\* gives to another node.
NoStray ==
    Quiescent => \A n \in alive : \A l \in Loc : ~Stray(n, l)

LEMMA PlaceNoStray == PlaceInv => NoStray
<1> SUFFICES ASSUME PlaceInv, Quiescent, NEW n \in alive, NEW l \in Loc,
                    Stray(n, l)
             PROVE  FALSE
  BY DEF NoStray
<1>1. n \in Node
  BY DEF PlaceInv, BaseInv, GateInv, TypeOK
<1>2. Quiet(n) /\ install[n].version = LastVersion /\ calls = {}
  BY DEF Quiescent
<1>3. Pending(n, l)
  BY <1>1, <1>2 DEF PlaceInv, Tracked, Watched, Quiet
<1>4. ~Rebuilt(n, l)
  BY <1>1, <1>2 DEF PlaceInv, NodeInPlace, RebuildsOf, Rebuilt, Quiet
<1>5. \A f \in Flusher : ~Flushing(n, f, l.key)
  BY <1>1, <1>2 DEF PlaceInv, FlushInPlace, Flushing, Quiet
<1>6. \A f \in Flusher : ~Moving(calls, n, f, l)
  BY <1>2 DEF Moving
<1> QED BY <1>2, <1>3, <1>4, <1>5, <1>6 DEF Pending, Quiet

\* Whatever moves, fails, stops and restarts: once nothing is under way
\* under the last map, no copy is left behind where it does not belong
\* (stabilizer.rs, cluster_in.rs), unless one of the three windows was hit.
THEOREM NoStrayIsLeft == Spec /\ [][CleanStep]_vars => []NoStray
BY PlaceInit, PlaceStep, PlaceNoStray, PTL DEF Spec

\* Every key has a holder under the last map: the cluster is not left empty.
LastMapPlaces == \A h \in Histories, k \in Key : h[LastVersion].ids[k] # << >>

\* Of the pieces whose loss is not explained, none is misplaced.
UnexposedPlaced ==
    Quiescent => \A l \in written \ exposed, n \in alive :
                    l \in store[n] <=> n = HolderAt(LastVersion, l)

LEMMA PlacedFromInvariants ==
    ASSUME LastMapPlaces
    PROVE  PlaceInv /\ LossInv => UnexposedPlaced
<1> SUFFICES ASSUME PlaceInv, LossInv, Quiescent,
                    NEW l \in written \ exposed, NEW n \in alive
             PROVE  l \in store[n] <=> n = HolderAt(LastVersion, l)
  BY DEF UnexposedPlaced
<1>0. TypeOK
  BY DEF PlaceInv, BaseInv, GateInv
<1>1. n \in Node /\ l \in Loc /\ history \in Histories /\ l.key \in Key
  BY <1>0 DEF TypeOK, Loc
<1>2. HolderAt(LastVersion, l) # NoNode
  <2>1. IsClusterMap(history[LastVersion])
    BY <1>1, HistoryAssumption, VersionAssumption DEF Version
  <2>2. history[LastVersion].ids[l.key] # << >>
    BY <1>1 DEF LastMapPlaces
  <2> QED BY <1>1, <2>1, <2>2, HolderType, NoNodeAssumption DEF HolderAt, Map
<1>3. PICK m \in Node : l \in store[m]
  BY DEF LossInv, SafeCopy
<1>4. m \in alive
  BY <1>3 DEF PlaceInv, NodeInPlace, Quiescent
<1>5. \A x \in alive : l \in store[x] => HolderAt(LastVersion, l) = x
  BY <1>1, <1>2, PlaceNoStray DEF NoStray, Stray
<1> QED BY <1>3, <1>4, <1>5

\* ... and every piece whose loss is not explained is at the node that the
\* last map wants it, and nowhere else.
THEOREM UnexposedIsPlaced ==
    ASSUME LastMapPlaces
    PROVE  Spec /\ [][CleanStep]_vars => []UnexposedPlaced
<1>1. PlaceInv /\ LossInv => UnexposedPlaced
  BY PlacedFromInvariants
<1> QED
  BY <1>1, PlaceInit, PlaceStep, LossInit, LossStep, PTL DEF Spec

\* Without a loss all the pieces ever stored are in their places.
THEOREM PlacedUnlessWindow ==
    ASSUME LastMapPlaces
    PROVE  Spec /\ [][CleanStep]_vars => [](exposed = {} => QuiescentPlaced)
<1>1. UnexposedPlaced => (exposed = {} => QuiescentPlaced)
  BY DEF UnexposedPlaced, QuiescentPlaced
<1> QED
  BY <1>1, UnexposedIsPlaced, PTL

=============================================================================
