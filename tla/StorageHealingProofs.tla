------------------------- MODULE StorageHealingProofs -------------------------
(***************************************************************************)
(* That the pieces of Storage which are missing come back: once nothing is *)
(* under way under the last map, a piece that is not at its holder belongs *)
(* to a key of which only that holder has anything.  Every other node that *)
(* has a piece of the key has asked the holder, and the holder has rebuilt *)
(* the piece, as long as no step hits one of the windows of the code that  *)
(* are named: three by CleanStep (StoragePlacementProofs) and four by      *)
(* HealStep.  The theorems hold for every set of nodes and keys, every     *)
(* history of maps and every number of faults.                             *)
(***************************************************************************)
EXTENDS StoragePlacementProofs

------------------------------------------------------------------------------
(* -- The invariant -- *)

\* The nodes of the last map.
Survivor == Map(LastVersion).members

\* One of them has died for good: the cluster is never quiescent again.
Crippled == \E m \in Survivor : m \notin alive /\ install[m].pc # "stopped"

\* A node that stays has the piece.
Kept(l) == \E m \in Survivor : l \in store[m]

\* Node n has been asked to rebuild l, and is going to.
Rebuilding(n, l) ==
    \/ l \in rebuildQ[n]
    \/ rflush[n].pc = "drained" /\ l \in rflush[n].todo
    \/ rflush[n].pc = "run" /\ l \in rflush[n].failed
    \/ \E r \in rebuilds : r.node = n /\ r.loc = l /\ r.st # "queue"

\* Nobody has to ask for l any more.
Answered(l) == Kept(l) \/ Rebuilding(HolderAt(LastVersion, l), l)

\* Among the calls cs, one that has stored a piece of key x at n and has not
\* queued the key yet.
Received(cs, n, x) == \E c \in cs : c.to = n /\ c.st = "put" /\ c.loc.key = x

\* ... or a rebuild that has.
RebuiltKey(n, x) ==
    \E r \in rebuilds : r.node = n /\ r.st = "queue" /\ r.loc.key = x

\* The stabilizer of n is going to look at key x.
Due(n, x) ==
    \/ x \in stabQ[n]
    \/ Received(calls, n, x)
    \/ RebuiltKey(n, x)
    \/ \E f \in Flusher : Flushing(n, f, x)

\* Among the calls cs, a future of flush f of n whose message about l has not
\* been handled, or will be sent again.
Asking(cs, n, f, l) ==
    \E c \in cs : /\ c.from = n /\ c.by = f /\ c.loc = l
                  /\ c.version = LastVersion
                  /\ c.st \in {"get", "sent", "failed"}

Asked(n, l) == Due(n, l.key) \/ \E f \in Flusher : Asking(calls, n, f, l)

\* Node n has a piece of the key of l, and the last map gives l to another.
Sibling(n, l) == \E s \in store[n] : s.key = l.key
Elsewhere(n, l) == HolderAt(LastVersion, l) \notin {n, NoNode}

\* A node that works under the last map sees to it that the other pieces of
\* the keys it has are where they belong.
Repairing(n) ==
    Watched(n) => \A l \in Loc : Sibling(n, l) /\ Elsewhere(n, l) =>
                     \/ install[n].pc = "reset" /\ l.key \in install[n].keys
                     \/ Asked(n, l)
                     \/ Answered(l)

HealInv == Crippled \/ \A n \in Node : Repairing(n)

\* The nodes that stay have all pieces of key k that n would ask others for.
AsksNothing(n, k) == \A l \in LocsOf(k) : Elsewhere(n, l) => Kept(l)

\* The step does not hit one of the windows.
HealStep ==
    \* set_new_cluster overwrites the queue, in which a key with a piece
    \* missing has been put since it has read the keys (run lost_task)
    /\ \A n \in Node : ResetQueue(n) /\ Watched(n) =>
          \A l \in store[n] : \/ l.key \notin stabQ[n] \ install[n].keys
                             \/ AsksNothing(n, l.key)
    \* the handler of send_piece is cancelled between put_piece and
    \* queue_task, while a piece of the key is missing
    /\ \A c \in calls : LoseAbandoned(c) /\ c.st = "put" /\ Watched(c.to) =>
                           AsksNothing(c.to, c.loc.key)
    /\ (\E n \in Node : Watched(n)) =>
          \* a node is shut down with acknowledged requests to rebuild, which
          \* its queue does not keep
          /\ \A n \in Node : Shutdown(n) => \A l \in Loc : ~Rebuilding(n, l)
          \* a node that stays deletes the only copy of the nodes that stay,
          \* by a move under an older map (run late_ack)
          /\ \A n \in Survivor, c \in calls : DeletePiece(n, c) /\ c.data =>
                \E m \in Survivor \ {n} : c.loc \in store[m]

------------------------------------------------------------------------------
(* -- What a step leaves alone -- *)

\* What is asked for at n goes on being asked for, or is answered.
Stays(n) ==
    /\ Watched(n)' => Watched(n)
    /\ install'[n].keys = install[n].keys
    /\ install'[n].pc = "reset" <=> install[n].pc = "reset"
    /\ \A l \in Loc : Sibling(n, l)' => Sibling(n, l) \/ Due(n, l.key)'
    /\ \A l \in Loc : Watched(n) /\ Elsewhere(n, l) /\ Asked(n, l) =>
                         Asked(n, l)' \/ Answered(l)'

\* An answer is not taken back.
AnswersStay ==
    (\E n \in Node : Watched(n)) =>
        \A l \in Loc : /\ HolderAt(LastVersion, l) \in Survivor
                       /\ Answered(l)
                       => Answered(l)'

LEMMA SurvivorType == TypeOK => IsClusterMap(Map(LastVersion)) /\ Survivor \subseteq Node
<1> SUFFICES ASSUME TypeOK
             PROVE  IsClusterMap(Map(LastVersion)) /\ Survivor \subseteq Node
  OBVIOUS
<1>1. IsClusterMap(history[LastVersion])
  BY HistoryAssumption, VersionAssumption DEF TypeOK, Version
<1> QED BY <1>1 DEF Survivor, Map, IsClusterMap

\* The last map gives a piece to a node that stays.
LEMMA HolderSurvives ==
    ASSUME TypeOK, NEW l \in Loc, HolderAt(LastVersion, l) # NoNode
    PROVE  HolderAt(LastVersion, l) \in Survivor
<1> DEFINE m == Map(LastVersion)
           ids == m.ids[l.key]
<1>1. IsClusterMap(m)
  BY SurvivorType
<1> HIDE DEF m
<1>2. l.key \in Key /\ l.index \in Index
  BY DEF Loc
<1>3. ids \in Seq(Node) /\ ids # << >>
  BY <1>1, <1>2 DEF IsClusterMap, HolderAt, Holder, m
<1>4. (l.index % Len(ids)) + 1 \in 1..Len(ids)
  <2>1. Len(ids) \in Nat /\ Len(ids) # 0 /\ l.index \in Nat
    BY <1>2, <1>3, SizeAssumption DEF Index
  <2> HIDE DEF ids
  <2> QED BY <2>1
<1>5. ids[(l.index % Len(ids)) + 1] \in m.members
  BY <1>1, <1>2, <1>4 DEF IsClusterMap
<1>6. HolderAt(LastVersion, l) = ids[(l.index % Len(ids)) + 1]
  BY <1>3 DEF HolderAt, Holder, m
<1> QED BY <1>5, <1>6 DEF Survivor, m

LEMMA RepairKept ==
    ASSUME TypeOK, UNCHANGED history, AnswersStay,
           NEW n \in Node, Repairing(n), Stays(n)
    PROVE  Repairing(n)'
<1> SUFFICES ASSUME Watched(n)', NEW l \in Loc, Sibling(n, l)', Elsewhere(n, l)'
             PROVE  \/ install'[n].pc = "reset" /\ l.key \in install'[n].keys
                    \/ Asked(n, l)' \/ Answered(l)'
  BY DEF Repairing
<1>1. Watched(n) /\ Elsewhere(n, l)
  BY DEF Stays, Elsewhere, HolderAt, Map
<1>2. HolderAt(LastVersion, l) \in Survivor
  BY <1>1, HolderSurvives DEF Elsewhere
<1>3. CASE ~Sibling(n, l)
  BY <1>3 DEF Stays, Asked
<1>4. CASE Sibling(n, l)
  <2>1. CASE install[n].pc = "reset" /\ l.key \in install[n].keys
    BY <2>1 DEF Stays
  <2>2. CASE Asked(n, l)
    BY <1>1, <2>2 DEF Stays
  <2>3. CASE Answered(l)
    BY <1>1, <1>2, <2>3 DEF AnswersStay
  <2> QED BY <1>1, <1>4, <2>1, <2>2, <2>3 DEF Repairing
<1> QED BY <1>3, <1>4

\* A request is answered at the holder.
LEMMA AnswersKept ==
    ASSUME TypeOK, UNCHANGED history,
           \A m \in Node : store[m] \subseteq store'[m],
           \A m \in Node, l \in Loc :
              Rebuilding(m, l) => Rebuilding(m, l)' \/ l \in store'[m]
    PROVE  AnswersStay
<1> SUFFICES ASSUME NEW l \in Loc, HolderAt(LastVersion, l) \in Survivor,
                    Answered(l)
             PROVE  Answered(l)'
  BY DEF AnswersStay
<1>1. Survivor' = Survivor /\ HolderAt(LastVersion, l)' = HolderAt(LastVersion, l)
  BY DEF Survivor, HolderAt, Map
<1>2. Survivor \subseteq Node
  BY SurvivorType
<1>3. CASE Kept(l)
  BY <1>1, <1>2, <1>3 DEF Kept, Answered
<1>4. CASE Rebuilding(HolderAt(LastVersion, l), l)
  <2>0. PICK g \in Survivor : g = HolderAt(LastVersion, l)
    OBVIOUS
  <2>1. Rebuilding(g, l)' \/ l \in store'[g]
    BY <1>2, <1>4, <2>0
  <2>2. CASE l \in store'[g]
    BY <1>1, <2>0, <2>2 DEF Kept, Answered
  <2>3. CASE Rebuilding(g, l)'
    BY <1>1, <2>0, <2>3 DEF Answered
  <2> QED BY <2>1, <2>2, <2>3
<1> QED BY <1>3, <1>4 DEF Answered

\* A step that takes nothing from a queue or a flush and deletes nothing: a
\* message is answered, a rebuild goes on, a new piece is due.
LEMMA GrowStep ==
    ASSUME TypeOK, ~Crippled, HealInv,
           UNCHANGED <<history, alive, install, flush>>,
           \A n \in Node : stabQ[n] \subseteq stabQ'[n],
           \A n \in Node : store[n] \subseteq store'[n],
           \A n \in Node : \A l \in store'[n] : l \in store[n] \/ Due(n, l.key)',
           \A n \in Node, f \in Flusher : FlushContinues(n, f),
           \A n \in Node, x \in Key : Received(calls, n, x) =>
              \/ Received(calls', n, x) \/ x \in stabQ'[n]
              \/ Watched(n) => AsksNothing(n, x),
           \A r \in rebuilds : r.st = "queue" =>
              r \in rebuilds' \/ r.loc.key \in stabQ'[r.node],
           \A n \in Node, f \in Flusher, l \in Loc :
              Asking(calls, n, f, l) => Asking(calls', n, f, l) \/ Answered(l)',
           \A m \in Node, l \in Loc :
              Rebuilding(m, l) => Rebuilding(m, l)' \/ l \in store'[m]
    PROVE  HealInv'
<1>1. AnswersStay
  BY AnswersKept
<1>2. ASSUME NEW n \in Node PROVE Stays(n)
  <2>1. Watched(n)' => Watched(n)
    BY DEF Watched
  <2>2. ASSUME NEW l \in Loc, Sibling(n, l)'
        PROVE  Sibling(n, l) \/ Due(n, l.key)'
    BY <2>2 DEF Sibling
  <2>3. ASSUME NEW l \in Loc, Watched(n), Elsewhere(n, l), Asked(n, l)
        PROVE  Asked(n, l)' \/ Answered(l)'
    <3>0. l.key \in Key
      BY DEF Loc
    <3>1. CASE l.key \in stabQ[n]
      <4>1. l.key \in stabQ'[n]
        BY <3>1
      <4> QED BY <4>1 DEF Asked, Due
    <3>2. CASE Received(calls, n, l.key)
      <4>1. CASE Received(calls, n, l.key)' \/ l.key \in stabQ'[n]
        BY <4>1 DEF Asked, Due
      <4>2. CASE AsksNothing(n, l.key)
        <5>1. Answered(l)
          BY <2>3, <4>2 DEF AsksNothing, LocsOf, Answered
        <5>2. HolderAt(LastVersion, l) \in Survivor
          BY <2>3, HolderSurvives DEF Elsewhere
        <5> QED BY <1>1, <2>3, <5>1, <5>2 DEF AnswersStay
      <4>3. \/ Received(calls, n, l.key)' \/ l.key \in stabQ'[n]
            \/ AsksNothing(n, l.key)
        BY <2>3, <3>0, <3>2 DEF Received
      <4> QED BY <4>1, <4>2, <4>3
    <3>3. CASE RebuiltKey(n, l.key)
      <4>1. RebuiltKey(n, l.key)' \/ l.key \in stabQ'[n]
        BY <3>3 DEF RebuiltKey
      <4> QED BY <4>1 DEF Asked, Due
    <3>4. ASSUME NEW f \in Flusher, Flushing(n, f, l.key) PROVE Asked(n, l)'
      <4>1. Flushing(n, f, l.key)'
        BY <3>4, FlushingKept
      <4> QED BY <4>1 DEF Asked, Due
    <3>5. ASSUME NEW f \in Flusher, Asking(calls, n, f, l)
          PROVE  Asked(n, l)' \/ Answered(l)'
      <4>1. Asking(calls, n, f, l)' \/ Answered(l)'
        BY <3>5 DEF Asking
      <4> QED BY <4>1 DEF Asked
    <3> QED BY <2>3, <3>1, <3>2, <3>3, <3>4, <3>5 DEF Asked, Due
  <2> QED BY <2>1, <2>2, <2>3 DEF Stays
<1>3. \A n \in Node : Repairing(n)'
  BY <1>1, <1>2, RepairKept DEF HealInv
<1> QED BY <1>3 DEF HealInv

\* What a step of another node has to leave alone at m.
LEMMA OtherStays ==
    ASSUME NEW m \in Node, UNCHANGED history, m \in alive' => m \in alive,
           install'[m] = install[m], store'[m] = store[m],
           flush'[m] = flush[m], stabQ'[m] = stabQ[m],
           \A r \in rebuilds : r.node = m => r \in rebuilds',
           \A x \in Key : Received(calls, m, x) => Received(calls', m, x),
           \A c \in calls : c.from = m /\ c.by \in Flusher => c \in calls',
           \A c \in calls' : c.from = m /\ c.by \in Flusher => c \in calls
    PROVE  Stays(m)
<1>1. ASSUME NEW l \in Loc, Asked(m, l) PROVE Asked(m, l)'
  <2>0. l.key \in Key
    BY DEF Loc
  <2>1. CASE Received(calls, m, l.key)
    <3>1. Received(calls, m, l.key)'
      BY <2>0, <2>1 DEF Received
    <3> QED BY <3>1 DEF Asked, Due
  <2>2. CASE l.key \in stabQ[m] \/ RebuiltKey(m, l.key)
    <3>1. l.key \in stabQ'[m] \/ RebuiltKey(m, l.key)'
      BY <2>2 DEF RebuiltKey
    <3> QED BY <3>1 DEF Asked, Due
  <2>3. ASSUME NEW f \in Flusher, Flushing(m, f, l.key) PROVE Asked(m, l)'
    <3>1. FlushContinues(m, f)
      BY DEF FlushContinues, CallsOf
    <3>2. Flushing(m, f, l.key)'
      BY <2>3, <3>1, FlushingKept
    <3> QED BY <3>2 DEF Asked, Due
  <2>4. ASSUME NEW f \in Flusher, Asking(calls, m, f, l) PROVE Asked(m, l)'
    <3>1. Asking(calls, m, f, l)'
      BY <2>4 DEF Asking
    <3> QED BY <3>1 DEF Asked
  <2> QED BY <1>1, <2>1, <2>2, <2>3, <2>4 DEF Asked, Due
<1>2. Watched(m)' => Watched(m)
  BY DEF Watched
<1>3. \A l \in Loc : Sibling(m, l)' => Sibling(m, l)
  BY DEF Sibling
<1> QED BY <1>1, <1>2, <1>3 DEF Stays

------------------------------------------------------------------------------
(* -- What becomes of the calls -- *)

LEMMA AdvanceAsks ==
    ASSUME TypeOK, NEW c \in calls, NEW st \in SendStatus,
           NEW n, NEW f \in Flusher, NEW l, Asking(calls, n, f, l)
    PROVE  \/ Asking(Advance(c, st), n, f, l)
           \/ /\ c.loc = l /\ c.version = LastVersion /\ st # "failed"
              /\ c.st \in {"get", "sent", "failed"} /\ c.by = f /\ c.from = n
<1>1. PICK d \in calls : /\ d.from = n /\ d.by = f /\ d.loc = l
                         /\ d.version = LastVersion
                         /\ d.st \in {"get", "sent", "failed"}
  BY DEF Asking
<1>2. CASE d # c
  BY <1>1, <1>2 DEF Asking, Advance
<1>3. CASE d = c /\ st = "failed"
  <2> DEFINE e == [c EXCEPT !.st = st]
  <2>1. c \in Call
    BY DEF TypeOK
  <2>2. /\ e.from = n /\ e.by = f /\ e.loc = l /\ e.version = LastVersion
        /\ e.st = "failed"
    BY <1>1, <1>3, <2>1 DEF Call
  <2>3. e \in Advance(c, st)
    BY <1>1, <1>3 DEF Advance, Flusher
  <2> HIDE DEF e
  <2> QED BY <2>2, <2>3 DEF Asking
<1> QED BY <1>1, <1>2, <1>3

LEMMA AdvanceReceives ==
    ASSUME NEW c \in calls, NEW st, NEW n, NEW x, Received(calls, n, x)
    PROVE  \/ Received(Advance(c, st), n, x)
           \/ c.to = n /\ c.st = "put" /\ c.loc.key = x
BY DEF Received, Advance

LEMMA MarkAsks ==
    ASSUME NEW cs \in SUBSET Call, NEW m, NEW x, NEW n, NEW f, NEW l,
           Asking(cs, n, f, l)
    PROVE  Asking(MarkReput(cs, m, x), n, f, l)
<1>1. PICK d \in cs : /\ d.from = n /\ d.by = f /\ d.loc = l
                      /\ d.version = LastVersion
                      /\ d.st \in {"get", "sent", "failed"}
  BY DEF Asking
<1> DEFINE e == IF /\ d.from = m /\ d.loc = x /\ d.data
                   /\ d.by \in Flusher /\ d.st \in {"sent", "put", "ok"}
                THEN [d EXCEPT !.reput = TRUE] ELSE d
<1>2. e \in MarkReput(cs, m, x)
  BY DEF MarkReput
<1>3. /\ e.from = n /\ e.by = f /\ e.loc = l /\ e.version = LastVersion
      /\ e.st = d.st
  <2>1. d \in Call
    OBVIOUS
  <2> QED BY <1>1, <2>1 DEF Call
<1> HIDE DEF e
<1> QED BY <1>1, <1>2, <1>3 DEF Asking

LEMMA MarkReceives ==
    ASSUME NEW cs \in SUBSET Call, NEW m, NEW l, NEW n, NEW x,
           Received(cs, n, x)
    PROVE  Received(MarkReput(cs, m, l), n, x)
<1>1. PICK d \in cs : d.to = n /\ d.st = "put" /\ d.loc.key = x
  BY DEF Received
<1> DEFINE e == IF /\ d.from = m /\ d.loc = l /\ d.data
                   /\ d.by \in Flusher /\ d.st \in {"sent", "put", "ok"}
                THEN [d EXCEPT !.reput = TRUE] ELSE d
<1>2. e \in MarkReput(cs, m, l)
  BY DEF MarkReput
<1>3. e.to = n /\ e.st = "put" /\ e.loc.key = x
  <2>1. d \in Call
    OBVIOUS
  <2> QED BY <1>1, <2>1 DEF Call
<1> HIDE DEF e
<1> QED BY <1>2, <1>3 DEF Received

\* The receiver goes on with a request that the sender has given up.
LEMMA AbandonReceives ==
    ASSUME TypeOK, NEW S \in SUBSET calls, NEW n, NEW x, Received(calls, n, x)
    PROVE  Received(Abandon(S), n, x)
<1>1. PICK d \in calls : d.to = n /\ d.st = "put" /\ d.loc.key = x
  BY DEF Received
<1>2. CASE d \notin S
  BY <1>1, <1>2 DEF Received, Abandon
<1>3. CASE d \in S
  <2> DEFINE e == [d EXCEPT !.by = "gone"]
  <2>1. d \in Call
    BY DEF TypeOK
  <2>2. e.to = n /\ e.st = "put" /\ e.loc.key = x
    BY <1>1, <2>1 DEF Call
  <2>3. e \in Abandon(S)
    BY <1>1, <1>3 DEF Abandon
  <2> HIDE DEF e
  <2> QED BY <2>2, <2>3 DEF Received
<1> QED BY <1>2, <1>3

------------------------------------------------------------------------------
(* -- The steps, service by service -- *)

\* What the proofs of the steps start from.
HealBase == PlaceInv /\ HealInv /\ ~Crippled

\* A message is handled; a piece that is put is due, and a piece that is
\* asked for is put or its rebuild is queued.
LEMMA HealPeerIn ==
    ASSUME HealBase, NEW n \in Node, PeerInNext(n) \/ PeerInFault(n)
    PROVE  HealInv'
<1> USE DEF world, maps, stabVars, rebuildVars, aux
<1>0. TypeOK /\ ~Crippled /\ HealInv /\ PlaceInv
  BY DEF HealBase, PlaceInv, BaseInv, GateInv
\* The receiver of a message about l under the last map is its holder.
<1>1. ASSUME NEW c \in calls, c.version = LastVersion, c.to = n, n \in alive,
             c.st = "sent"
      PROVE  /\ n \in Survivor /\ n = HolderAt(LastVersion, c.loc)
             /\ c.loc \in Loc /\ Accepts(c)
  <2>1. c \in Call
    BY <1>0 DEF TypeOK
  <2>2. n = HolderAt(LastVersion, c.loc)
    BY <1>0, <1>1 DEF PlaceInv, CallInPlace
  <2>3. n \in Survivor
    BY <1>0, <2>1, <2>2, NoNodeAssumption, HolderSurvives DEF Call
  <2>4. Accepts(c)
    <3>1. view[n].peer \in Version
      BY <1>0 DEF TypeOK, ViewName
    <3> QED BY <1>1, <3>1, VersionAssumption DEF Accepts, Version
  <2> QED BY <2>1, <2>2, <2>3, <2>4 DEF Call
<1>2. ASSUME NEW c \in calls, NEW st \in {"rejected", "failed", "ok"},
             c.to = n, n \in alive,
             calls' = Advance(c, st), st = "rejected" => ~Accepts(c),
             c.st = "sent" \/ c.loc.key \in stabQ'[n],
             c.st = "sent" /\ st = "ok" => c.loc \in rebuildQ'[n],
             c.st \in {"sent", "put"},
             UNCHANGED <<history, alive, view, install, flush, store, rebuilds,
                         rflush>>,
             \A m \in Node : stabQ[m] \subseteq stabQ'[m],
             \A m \in Node : rebuildQ[m] \subseteq rebuildQ'[m]
      PROVE  HealInv'
  <2>0. st \in SendStatus
    BY DEF SendStatus
  <2>1. \A m \in Node, f \in Flusher : FlushContinues(m, f)
    <3>1. CallsContinue
      BY <1>0, <1>2, <2>0, AdvanceContinues DEF CallsContinue
    <3> QED BY <1>0, <1>2, <3>1, CallsKept
  <2>2. ASSUME NEW m \in Node, NEW x \in Key, Received(calls, m, x)
        PROVE  Received(calls', m, x) \/ x \in stabQ'[m]
    BY <1>2, <2>2, AdvanceReceives
  <2>3. ASSUME NEW m \in Node, NEW f \in Flusher, NEW l \in Loc,
               Asking(calls, m, f, l)
        PROVE  Asking(calls', m, f, l) \/ Answered(l)'
    <3>1. CASE c.loc = l /\ c.version = LastVersion /\ c.st = "sent" /\ st # "failed"
      <4>1. n = HolderAt(LastVersion, l) /\ Accepts(c)
        BY <1>1, <1>2, <3>1
      <4>2. l \in rebuildQ'[n]
        BY <1>2, <3>1, <4>1
      <4>3. HolderAt(LastVersion, l)' = n
        BY <1>2, <4>1 DEF HolderAt, Map
      <4> QED BY <4>2, <4>3 DEF Answered, Rebuilding
    <3>2. CASE Asking(Advance(c, st), m, f, l)
      BY <1>2, <3>2
    <3> QED BY <1>0, <1>2, <2>0, <2>3, <3>1, <3>2, AdvanceAsks
  <2>4. \A m \in Node, l \in Loc : Rebuilding(m, l) => Rebuilding(m, l)'
    BY <1>2 DEF Rebuilding
  <2> QED BY <1>0, <1>2, <2>1, <2>2, <2>3, <2>4, GrowStep
<1>3. ASSUME NEW c \in calls, RejectPiece(n, c) PROVE HealInv'
  BY <1>2, <1>3 DEF RejectPiece, Arrived
<1>4. ASSUME NEW c \in calls, PutFails(n, c) PROVE HealInv'
  BY <1>2, <1>4 DEF PutFails, Arrived
<1>5. ASSUME NEW c \in calls, QueueTask(n, c) PROVE HealInv'
  <2>1. /\ \A m \in Node : stabQ[m] \subseteq stabQ'[m]
        /\ c.loc.key \in stabQ'[n]
    BY <1>0, <1>5 DEF QueueTask, TypeOK
  <2> QED BY <1>2, <1>5, <2>1 DEF QueueTask
<1>6. ASSUME NEW c \in calls, QueueRebuild(n, c) PROVE HealInv'
  <2>1. /\ \A m \in Node : rebuildQ[m] \subseteq rebuildQ'[m]
        /\ c.loc \in rebuildQ'[n]
    BY <1>0, <1>6 DEF QueueRebuild, TypeOK
  <2> QED BY <1>2, <1>6, <2>1 DEF QueueRebuild, Arrived
<1>7. ASSUME NEW c \in calls, PutPiece(n, c) PROVE HealInv'
  <2>0. /\ calls' = MarkReput(Advance(c, "put"), n, c.loc)
        /\ c.to = n /\ n \in alive /\ c.st = "sent" /\ Accepts(c) /\ c \in Call
    BY <1>0, <1>7 DEF PutPiece, Arrived, TypeOK
  <2>1. Advance(c, "put") \in SUBSET Call /\ "put" \in SendStatus
    BY <1>0, AdvanceType DEF TypeOK, SendStatus
  <2>2. UNCHANGED <<history, alive, view, install, flush, stabQ, rebuilds,
                   rebuildQ, rflush>>
    BY <1>7 DEF PutPiece
  <2>3. /\ \A m \in Node : store[m] \subseteq store'[m]
        /\ c.loc \in store'[n]
        /\ \A m \in Node : \A l \in store'[m] :
              l \in store[m] \/ (m = n /\ l = c.loc)
    BY <1>0, <1>7 DEF PutPiece, TypeOK
  <2>4. \A m \in Node, f \in Flusher : FlushContinues(m, f)
    <3>1. \A d \in Advance(c, "put") : \E b \in calls : Continues(d, b)
      BY <1>0, <2>1, AdvanceContinues
    <3>2. CallsContinue
      BY <2>0, <2>1, <3>1, MarkContinues
    <3> QED BY <1>0, <2>2, <3>2, CallsKept
  <2>5. Received(calls', n, c.loc.key)
    <3> DEFINE e == [c EXCEPT !.st = "put"]
    <3>1. e.to = n /\ e.st = "put" /\ e.loc = c.loc
      BY <2>0 DEF Call
    <3>2. e \in Advance(c, "put")
      BY DEF Advance
    <3> HIDE DEF e
    <3>3. Received(Advance(c, "put"), n, c.loc.key)
      BY <3>1, <3>2 DEF Received
    <3> QED BY <2>0, <2>1, <3>3, MarkReceives
  <2>6. ASSUME NEW m \in Node, NEW l \in store'[m]
        PROVE  l \in store[m] \/ Due(m, l.key)'
    BY <2>3, <2>5 DEF Due, Received
  <2>7. ASSUME NEW m \in Node, NEW x \in Key, Received(calls, m, x)
        PROVE  Received(calls', m, x)
    <3>1. Received(Advance(c, "put"), m, x)
      BY <2>0, <2>7, AdvanceReceives
    <3> QED BY <2>0, <2>1, <3>1, MarkReceives
  <2>8. ASSUME NEW m \in Node, NEW f \in Flusher, NEW l \in Loc,
               Asking(calls, m, f, l)
        PROVE  Asking(calls', m, f, l) \/ Answered(l)'
    <3>1. CASE c.loc = l /\ c.version = LastVersion
      <4>1. n \in Survivor' /\ l \in store'[n]
        BY <1>1, <2>0, <2>2, <2>3, <3>1 DEF Survivor, Map
      <4> QED BY <4>1 DEF Answered, Kept
    <3>2. CASE Asking(Advance(c, "put"), m, f, l)
      BY <2>0, <2>1, <3>2, MarkAsks
    <3> QED BY <1>0, <2>1, <2>8, <3>1, <3>2, AdvanceAsks
  <2>9. \A m \in Node, l \in Loc : Rebuilding(m, l) => Rebuilding(m, l)'
    BY <2>2 DEF Rebuilding
  <2> QED BY <1>0, <2>2, <2>3, <2>4, <2>6, <2>7, <2>8, <2>9, GrowStep
<1> QED
  BY <1>3, <1>4, <1>5, <1>6, <1>7 DEF PeerInNext, PeerInFault

\* A step at the calls that belong to no flush.
LEMMA CreateStep ==
    ASSUME HealBase, CallsContinue,
           UNCHANGED <<history, alive, install, flush, stabQ, store, rebuilds,
                       rebuildQ, rflush>>,
           \A c \in calls : c.by \in Flusher => c \in calls',
           \A n \in Node, x \in Key : Received(calls, n, x) =>
              Received(calls', n, x) \/ (Watched(n) => AsksNothing(n, x))
    PROVE  HealInv'
<1>0. TypeOK /\ ~Crippled /\ HealInv /\ PlaceInv
  BY DEF HealBase, PlaceInv, BaseInv, GateInv
<1>1. \A n \in Node, f \in Flusher : FlushContinues(n, f)
  BY <1>0, CallsKept
<1>2. \A n \in Node, f \in Flusher, l \in Loc :
          Asking(calls, n, f, l) => Asking(calls', n, f, l)
  BY DEF Asking
<1>3. \A m \in Node, l \in Loc : Rebuilding(m, l) => Rebuilding(m, l)'
  BY DEF Rebuilding
<1> QED BY <1>0, <1>1, <1>2, <1>3, GrowStep

LEMMA HealIOFront ==
    ASSUME HealBase, NEW n \in Node, IOFrontNext(n) \/ IOFrontFault(n)
    PROVE  HealInv'
<1> USE DEF world, maps, stabVars, rebuildVars, aux
<1>0. TypeOK /\ PlaceInv
  BY DEF HealBase, PlaceInv, BaseInv, GateInv
<1>1. ASSUME NEW k \in Key, CreateBegins(n, k) \/ CreateReturns(n, k)
      PROVE  HealInv'
  BY <1>1, SubsetContinues, CreateStep DEF CreateBegins, CreateReturns
<1>2. ASSUME NEW k \in Key, SendPieces(n, k) PROVE HealInv'
  <2>0. ~Crippled /\ HealInv
    BY DEF HealBase
  <2>1. /\ \A d \in calls' : d \in calls \/ d.by = "create"
        /\ calls \subseteq calls'
    BY <1>2 DEF SendPieces
  <2>2. \A m \in Node, f \in Flusher : FlushContinues(m, f)
    BY <2>1 DEF FlushContinues, CallsOf, Flusher
  <2>3. /\ \A m \in Node, x \in Key :
              Received(calls, m, x) => Received(calls', m, x)
        /\ \A m \in Node, f \in Flusher, l \in Loc :
              Asking(calls, m, f, l) => Asking(calls', m, f, l)
    BY <2>1 DEF Received, Asking
  <2>4. UNCHANGED <<history, alive, install, flush, stabQ, store, rebuilds,
                   rebuildQ, rflush>>
    BY <1>2 DEF SendPieces
  <2>5. \A m \in Node, l \in Loc : Rebuilding(m, l) => Rebuilding(m, l)'
    BY <2>4 DEF Rebuilding
  <2> QED BY <1>0, <2>0, <2>2, <2>3, <2>4, <2>5, GrowStep
<1>3. ASSUME NEW c \in calls, CountOk(n, c) PROVE HealInv'
  <2>1. CallsContinue
    BY <1>3, SubsetContinues DEF CountOk
  <2>2. \A m \in Node, x \in Key :
            Received(calls, m, x) => Received(calls', m, x)
    BY <1>3 DEF CountOk, Received
  <2> QED BY <1>3, <2>1, <2>2, CreateStep DEF CountOk, Sending, Flusher
<1>4. ASSUME NEW c \in calls, CountNotOk(n, c) \/ CreateLost(n, c)
      PROVE  HealInv'
  <2>1. calls' = Abandon({c}) /\ c.by \notin Flusher
    BY <1>4 DEF CountNotOk, CreateLost, Sending, Flusher
  <2>2. CallsContinue
    BY <1>0, <2>1, AbandonContinues
  <2>3. \A m \in Node, x \in Key :
            Received(calls, m, x) => Received(calls', m, x)
    BY <1>0, <2>1, AbandonReceives
  <2>4. \A d \in calls : d.by \in Flusher => d \in calls'
    BY <2>1 DEF Abandon
  <2> QED BY <1>4, <2>2, <2>3, <2>4, CreateStep DEF CountNotOk, CreateLost
<1> QED BY <1>1, <1>2, <1>3, <1>4 DEF IOFrontNext, IOFrontFault

LEMMA HealLose ==
    ASSUME HealBase, HealStep, NEW c \in calls, LoseAbandoned(c)
    PROVE  HealInv'
<1>1. c.by \notin Flusher /\ calls' = calls \ {c}
  BY DEF LoseAbandoned, Flusher
<1>2. CallsContinue
  BY SubsetContinues DEF LoseAbandoned
<1>3. ASSUME NEW m \in Node, NEW x \in Key, Received(calls, m, x), Watched(m)
      PROVE  Received(calls', m, x) \/ AsksNothing(m, x)
  <2>1. PICK d \in calls : d.to = m /\ d.st = "put" /\ d.loc.key = x
    BY <1>3 DEF Received
  <2>2. CASE d # c
    BY <1>1, <2>1, <2>2 DEF Received
  <2>3. CASE d = c
    BY <1>3, <2>1, <2>3 DEF HealStep
  <2> QED BY <2>2, <2>3
<1> QED
  BY <1>1, <1>2, <1>3, CreateStep
  DEF LoseAbandoned, world, maps, stabVars, rebuildVars, aux

\* A rebuild ends with its piece in the store, or is tried again.
LEMMA RebuildStep ==
    ASSUME HealBase,
           UNCHANGED <<history, alive, install, flush, store, calls>>,
           \A m \in Node : stabQ[m] \subseteq stabQ'[m],
           \A r \in rebuilds : r.st = "queue" =>
              r \in rebuilds' \/ r.loc.key \in stabQ'[r.node],
           \A m \in Node, l \in Loc :
              Rebuilding(m, l) => Rebuilding(m, l)' \/ l \in store'[m]
    PROVE  HealInv'
<1>0. TypeOK /\ ~Crippled /\ HealInv /\ PlaceInv
  BY DEF HealBase, PlaceInv, BaseInv, GateInv
<1>1. \A n \in Node, f \in Flusher : FlushContinues(n, f)
  BY DEF FlushContinues, CallsOf
<1>2. /\ \A n \in Node, x \in Key :
            Received(calls, n, x) => Received(calls', n, x)
      /\ \A n \in Node, f \in Flusher, l \in Loc :
            Asking(calls, n, f, l) => Asking(calls', n, f, l)
  OBVIOUS
<1> QED BY <1>0, <1>1, <1>2, GrowStep

LEMMA HealRebuildQueue ==
    ASSUME HealBase, NEW n \in Node,
           RebuildQueueNext(n) \/ RebuildQueueFault(n)
    PROVE  HealInv'
<1> USE DEF world, maps, stabVars, rebuildVars, aux
<1>0. TypeOK /\ ~Crippled /\ HealInv /\ PlaceInv
  BY DEF HealBase, PlaceInv, BaseInv, GateInv
<1>1. /\ rflush \in [Node -> FlushState(Loc)]
      /\ rebuildQ \in [Node -> SUBSET Loc]
      /\ stabQ \in [Node -> SUBSET Key] /\ store \in [Node -> SUBSET Loc]
  BY <1>0 DEF TypeOK
<1>2. \A r \in rebuilds : /\ r \in Rebuild
                          /\ rflush[r.node].pc = "run"
                          /\ r.wait # {} => r.st # "queue"
  <2>1. \A r \in rebuilds : r \in Rebuild
    BY <1>0 DEF TypeOK
  <2>2. \A r \in rebuilds : r \in RebuildsOf(r.node) /\ r.node \in Node
    BY <2>1 DEF RebuildsOf, Rebuild
  <2>3. \A r \in rebuilds : rflush[r.node].pc = "run"
    BY <1>0, <2>2 DEF PlaceInv, NodeInPlace
  <2>4. \A r \in rebuilds : r.wait # {} => r.st # "queue"
    BY <1>0 DEF PlaceInv, BaseInv, RebuildsInPlace
  <2> QED BY <2>1, <2>3, <2>4
<1>3. ASSUME DrainRebuilds(n) PROVE HealInv'
  <2>1. /\ rflush[n].pc = "idle" /\ rflush'[n].pc = "drained"
        /\ rflush'[n].todo = rebuildQ[n]
        /\ \A m \in Node \ {n} : /\ rflush'[m] = rflush[m]
                                /\ rebuildQ'[m] = rebuildQ[m]
    BY <1>1, <1>3 DEF DrainRebuilds
  <2>2. UNCHANGED <<history, alive, install, flush, store, calls, stabQ,
                   rebuilds>>
    BY <1>3 DEF DrainRebuilds
  <2>3. \A m \in Node, l \in Loc : Rebuilding(m, l) => Rebuilding(m, l)'
    BY <2>1, <2>2 DEF Rebuilding
  <2> QED BY <2>2, <2>3, RebuildStep
<1>4. ASSUME ReadRebuildCluster(n) PROVE HealInv'
  <2>1. /\ rflush[n].pc = "drained" /\ rflush'[n].pc = "run"
        /\ \A m \in Node \ {n} : rflush'[m] = rflush[m]
    BY <1>1, <1>4 DEF ReadRebuildCluster, FlushState
  <2>2. UNCHANGED <<history, alive, install, flush, store, calls, stabQ,
                   rebuildQ>> /\ rebuilds \subseteq rebuilds'
    BY <1>4 DEF ReadRebuildCluster
  <2>3. ASSUME NEW l \in rflush[n].todo
        PROVE  \E r \in rebuilds' : r.node = n /\ r.loc = l /\ r.st # "queue"
    <3> DEFINE r == [node |-> n, loc |-> l, version |-> view[n].rebuild,
                     st |-> "check", wait |-> {}, found |-> {}]
    <3>1. r \in rebuilds'
      BY <1>4 DEF ReadRebuildCluster
    <3>2. r.node = n /\ r.loc = l /\ r.st = "check"
      OBVIOUS
    <3> HIDE DEF r
    <3> QED BY <3>1, <3>2
  <2>4. ASSUME NEW m \in Node, NEW l \in Loc, Rebuilding(m, l)
        PROVE  Rebuilding(m, l)'
    <3>1. CASE l \in rebuildQ[m]
      BY <2>2, <3>1 DEF Rebuilding
    <3>2. CASE rflush[m].pc = "drained" /\ l \in rflush[m].todo
      BY <2>1, <2>3, <3>2 DEF Rebuilding
    <3>3. CASE rflush[m].pc = "run" /\ l \in rflush[m].failed
      BY <2>1, <3>3 DEF Rebuilding
    <3>4. CASE \E r \in rebuilds : r.node = m /\ r.loc = l /\ r.st # "queue"
      BY <2>2, <3>4 DEF Rebuilding
    <3> QED BY <2>4, <3>1, <3>2, <3>3, <3>4 DEF Rebuilding
  <2> QED BY <2>2, <2>4, RebuildStep
\* The running flush, one rebuild at a time.
<1>5. ASSUME NEW r \in rebuilds,
             \A s \in rebuilds : s = r \/ s \in rebuilds',
             r.st # "queue" =>
                Rebuilding(r.node, r.loc)' \/ r.loc \in store'[r.node],
             r.st # "queue" \/ r.loc.key \in stabQ'[r.node],
             \A m \in Node : /\ rflush'[m].pc = rflush[m].pc
                             /\ rflush'[m].todo = rflush[m].todo
                             /\ rflush[m].failed \subseteq rflush'[m].failed
                             /\ stabQ[m] \subseteq stabQ'[m],
             UNCHANGED <<history, alive, install, flush, store, calls, rebuildQ>>
      PROVE  HealInv'
  <2>1. \A m \in Node, l \in Loc :
            Rebuilding(m, l) => Rebuilding(m, l)' \/ l \in store'[m]
    BY <1>5 DEF Rebuilding
  <2> QED BY <1>5, <2>1, RebuildStep
<1>6. ASSUME NEW r \in rebuilds, NEW new, Become(r, new), r.st # "queue",
             new.node = r.node, new.loc = r.loc, new.st # "queue",
             UNCHANGED <<history, alive, install, flush, store, calls,
                         rebuildQ, stabQ, rflush>>
      PROVE  HealInv'
  <2>1. Rebuilding(r.node, r.loc)'
    BY <1>6 DEF Become, Rebuilding
  <2> QED BY <1>5, <1>6, <2>1 DEF Become
<1>7. ASSUME NEW r \in rebuilds, PieceExists(n, r) PROVE HealInv'
  <2> DEFINE new == [r EXCEPT !.st = "scan",
                             !.wait = ScanAsks(r.version, r.loc.key)]
  <2>1. new.node = r.node /\ new.loc = r.loc /\ new.st = "scan"
    BY <1>2 DEF Rebuild
  <2> HIDE DEF new
  <2>2. CASE r.loc \in store[n] /\ Gone(r)
    BY <1>5, <1>7, <2>2 DEF PieceExists, Runs, Gone
  <2>3. CASE Become(r, new)
    BY <1>6, <1>7, <2>1, <2>3 DEF PieceExists
  <2> QED BY <1>7, <2>2, <2>3 DEF PieceExists, new
<1>8. ASSUME NEW r \in rebuilds, AnyPieces(n, r) PROVE HealInv'
  <2>1. r.wait # {} /\ r.st # "queue"
    BY <1>2, <1>8 DEF AnyPieces
  <2>2. PICK a, found :
           \/ Become(r, [r EXCEPT !.st = "store", !.wait = {}, !.found = {}])
           \/ Become(r, [r EXCEPT !.wait = @ \ {a}, !.found = found])
    BY <1>8 DEF AnyPieces
  <2> DEFINE e1 == [r EXCEPT !.st = "store", !.wait = {}, !.found = {}]
             e2 == [r EXCEPT !.wait = @ \ {a}, !.found = found]
  <2>3. /\ e1.node = r.node /\ e1.loc = r.loc /\ e1.st = "store"
        /\ e2.node = r.node /\ e2.loc = r.loc /\ e2.st = r.st
    BY <1>2 DEF Rebuild
  <2>4. Become(r, e1) \/ Become(r, e2)
    BY <2>2
  <2>5. UNCHANGED <<history, alive, install, flush, store, calls, rebuildQ,
                   stabQ, rflush>>
    BY <1>8 DEF AnyPieces
  <2> HIDE DEF e1, e2
  <2> QED BY <1>6, <2>1, <2>3, <2>4, <2>5
<1>9. ASSUME NEW r \in rebuilds, NoReply(n, r) \/ AskLost(n, r) PROVE HealInv'
  <2>1. PICK a \in r.wait : Become(r, [r EXCEPT !.wait = @ \ {a}])
    BY <1>9 DEF NoReply, AskLost
  <2> DEFINE new == [r EXCEPT !.wait = @ \ {a}]
  <2>2. new.node = r.node /\ new.loc = r.loc /\ new.st = r.st
    BY <1>2 DEF Rebuild
  <2>3. Become(r, new) /\ r.st # "queue"
    BY <1>2, <2>1
  <2>4. UNCHANGED <<history, alive, install, flush, store, calls, rebuildQ,
                   stabQ, rflush>>
    BY <1>9 DEF NoReply, AskLost
  <2> HIDE DEF new
  <2> QED BY <1>6, <2>2, <2>3, <2>4
<1>10. ASSUME NEW r \in rebuilds, Broadcast(n, r) PROVE HealInv'
  <2> DEFINE new == [r EXCEPT !.st = "bcast", !.found = {},
                             !.wait = {0} \X Map(r.version).members]
  <2>1. new.node = r.node /\ new.loc = r.loc /\ new.st = "bcast"
    BY <1>2 DEF Rebuild
  <2>2. Become(r, new)
    BY <1>10 DEF Broadcast
  <2> HIDE DEF new
  <2> QED BY <1>6, <1>10, <2>1, <2>2 DEF Broadcast
<1>11. ASSUME NEW r \in rebuilds, RebuildFails(n, r) \/ RebuildIoFails(n, r)
       PROVE  HealInv'
  <2>1. /\ rflush' = [rflush EXCEPT ![n].failed = @ \cup {r.loc}]
        /\ r.node = n /\ Gone(r) /\ r.st # "queue"
        /\ UNCHANGED <<history, alive, install, flush, store, calls, rebuildQ,
                       stabQ>>
    BY <1>11 DEF RebuildFails, RebuildIoFails, Runs
  <2>2. /\ \A m \in Node : /\ rflush'[m].pc = rflush[m].pc
                           /\ rflush'[m].todo = rflush[m].todo
                           /\ rflush[m].failed \subseteq rflush'[m].failed
        /\ r.loc \in rflush'[n].failed
    BY <1>1, <2>1 DEF FlushState
  <2>3. Rebuilding(r.node, r.loc)'
    BY <1>2, <2>1, <2>2 DEF Rebuilding
  <2> QED BY <1>5, <2>1, <2>2, <2>3 DEF Gone
<1>12. ASSUME NEW r \in rebuilds, QueueRebuilt(n, r) PROVE HealInv'
  <2>1. /\ \A m \in Node : stabQ[m] \subseteq stabQ'[m]
        /\ r.loc.key \in stabQ'[r.node] /\ r.st = "queue"
    BY <1>1, <1>12 DEF QueueRebuilt, Runs
  <2> QED BY <1>5, <1>12, <2>1 DEF QueueRebuilt, Gone
<1>13. ASSUME RebuildFlushEnds(n) PROVE HealInv'
  <2>1. /\ rflush[n].pc = "run"
        /\ \A m \in Node : rebuildQ[m] \subseteq rebuildQ'[m]
        /\ rflush[n].failed \subseteq rebuildQ'[n]
        /\ \A m \in Node \ {n} : rflush'[m] = rflush[m]
    BY <1>1, <1>13 DEF RebuildFlushEnds
  <2>2. UNCHANGED <<history, alive, install, flush, store, calls, stabQ,
                   rebuilds>>
    BY <1>13 DEF RebuildFlushEnds
  <2>3. \A m \in Node, l \in Loc : Rebuilding(m, l) => Rebuilding(m, l)'
    BY <2>1, <2>2 DEF Rebuilding
  <2> QED BY <2>2, <2>3, RebuildStep
<1>14. ASSUME NEW r \in rebuilds, StoreRebuilt(n, r) PROVE HealInv'
  <2> DEFINE new == [r EXCEPT !.st = "queue"]
  <2>1. /\ new.node = n /\ new.loc = r.loc /\ new.st = "queue"
        /\ rebuilds' = (rebuilds \ {r}) \cup {new}
        /\ r.node = n /\ r.st = "store"
    BY <1>2, <1>14 DEF StoreRebuilt, Runs, Become, Rebuild
  <2> HIDE DEF new
  <2>2. /\ UNCHANGED <<history, alive, install, flush, stabQ, rebuildQ, rflush>>
        /\ calls' = MarkReput(calls, n, r.loc) /\ calls \in SUBSET Call
    BY <1>0, <1>14 DEF StoreRebuilt, TypeOK
  <2>3. /\ \A m \in Node : store[m] \subseteq store'[m]
        /\ r.loc \in store'[n]
        /\ \A m \in Node : \A l \in store'[m] :
              l \in store[m] \/ (m = n /\ l = r.loc)
    BY <1>1, <1>14 DEF StoreRebuilt
  <2>4. \A m \in Node, f \in Flusher : FlushContinues(m, f)
    <3>1. \A d \in calls : Continues(d, d)
      BY DEF Continues
    <3>2. CallsContinue
      BY <2>2, <3>1, MarkContinues
    <3> QED BY <1>0, <2>2, <3>2, CallsKept
  <2>5. \A m \in Node : \A l \in store'[m] : l \in store[m] \/ Due(m, l.key)'
    BY <2>1, <2>3 DEF Due, RebuiltKey
  <2>6. /\ \A m \in Node, x \in Key :
              Received(calls, m, x) => Received(calls', m, x)
        /\ \A m \in Node, f \in Flusher, l \in Loc :
              Asking(calls, m, f, l) => Asking(calls', m, f, l)
    BY <2>2, MarkReceives, MarkAsks
  <2>7. \A m \in Node, l \in Loc :
            Rebuilding(m, l) => Rebuilding(m, l)' \/ l \in store'[m]
    BY <2>1, <2>2, <2>3 DEF Rebuilding
  <2>8. \A s \in rebuilds : s.st = "queue" => s \in rebuilds'
    BY <2>1
  <2> QED BY <1>0, <2>2, <2>3, <2>4, <2>5, <2>6, <2>7, <2>8, GrowStep
<1> QED
  BY <1>3, <1>4, <1>7, <1>8, <1>9, <1>10, <1>11, <1>12, <1>13, <1>14
  DEF RebuildQueueNext, RebuildQueueFault

\* A step of one node, that leaves the stores alone.
LEMMA FlusherStep ==
    ASSUME HealBase, NEW n \in Node,
           UNCHANGED <<history, alive, store, rebuildQ, rflush, rebuilds>>,
           \A m \in Node \ {n} : /\ install'[m] = install[m]
                                /\ flush'[m] = flush[m] /\ stabQ'[m] = stabQ[m],
           \A m \in Node, x \in Key :
              Received(calls, m, x) => Received(calls', m, x),
           \A c \in calls : c.by \in Flusher /\ c.from # n => c \in calls',
           \A c \in calls' : c.by \in Flusher /\ c.from # n => c \in calls,
           Watched(n)' => Watched(n), install'[n].keys = install[n].keys,
           install'[n].pc = "reset" <=> install[n].pc = "reset",
           \A l \in Loc : l.key \in stabQ[n] => Asked(n, l)',
           \A l \in Loc, f \in Flusher :
              /\ Watched(n) /\ Elsewhere(n, l)
              /\ Flushing(n, f, l.key) \/ Asking(calls, n, f, l)
              => Asked(n, l)'
    PROVE  HealInv'
<1>0. TypeOK /\ HealInv /\ ~Crippled
  BY DEF HealBase, PlaceInv, BaseInv, GateInv
<1>1. AnswersStay
  <2>1. \A m \in Node, l \in Loc : Rebuilding(m, l) => Rebuilding(m, l)'
    BY DEF Rebuilding
  <2> QED BY <1>0, <2>1, AnswersKept
<1>2. ASSUME NEW m \in Node \ {n} PROVE Stays(m)
  BY OtherStays
<1>3. ASSUME NEW l \in Loc, Watched(n), Elsewhere(n, l), Asked(n, l)
      PROVE  Asked(n, l)'
  <2>0. l.key \in Key
    BY DEF Loc
  <2>1. CASE Received(calls, n, l.key)
    <3>1. Received(calls, n, l.key)'
      BY <2>0, <2>1 DEF Received
    <3> QED BY <3>1 DEF Asked, Due
  <2>2. CASE RebuiltKey(n, l.key)
    <3>1. RebuiltKey(n, l.key)'
      BY <2>2 DEF RebuiltKey
    <3> QED BY <3>1 DEF Asked, Due
  <2>3. CASE l.key \in stabQ[n] \/ \E f \in Flusher : Flushing(n, f, l.key)
    BY <1>3, <2>3
  <2>4. CASE \E f \in Flusher : Asking(calls, n, f, l)
    BY <1>3, <2>4
  <2> QED BY <1>3, <2>1, <2>2, <2>3, <2>4 DEF Asked, Due
<1>4. Stays(n)
  <2>1. \A l \in Loc : Sibling(n, l)' => Sibling(n, l)
    BY DEF Sibling
  <2> QED BY <1>3, <2>1 DEF Stays
<1>5. \A m \in Node : Repairing(m)'
  BY <1>0, <1>1, <1>2, <1>4, RepairKept DEF HealInv
<1> QED BY <1>5 DEF HealInv

\* The key of a failed future is tried again.
LEMMA HealFailKey ==
    ASSUME HealBase, NEW n \in Node, NEW c \in calls, Mine(n, c), FailKey(n, c)
    PROVE  HealInv'
<1> USE DEF world, maps, stabVars, rebuildVars, aux
<1> DEFINE f == c.by
           S == {d \in CallsOf(n, f) : d.loc.key = c.loc.key}
<1>0. TypeOK /\ PlaceInv
  BY DEF HealBase, PlaceInv, BaseInv, GateInv
<1>1. f \in Flusher /\ c \in CallsOf(n, f) /\ n \in alive
  BY DEF Mine, CallsOf
<1>2. /\ S \subseteq {d \in calls : d.from = n} /\ S \in SUBSET calls
      /\ calls' = Abandon(S)
  BY DEF FailKey, CallsOf
<1>3. /\ \A d \in calls : d \in S \/ d \in calls'
      /\ \A d \in calls' : d.by \in Flusher => d \in calls \ S
  BY <1>0, <1>2, AbandonAside
<1>4. \A g \in Flusher : FlushContinues(n, g)
  BY <1>0, <1>2, AbandonContinues, CallsKept DEF FailKey
<1>5. /\ \A m \in Node \ {n} : flush'[m] = flush[m]
      /\ \A g \in Flusher : /\ flush'[n][g].pc = flush[n][g].pc
                            /\ flush'[n][g].todo = flush[n][g].todo
                            /\ flush[n][g].failed \subseteq flush'[n][g].failed
      /\ c.loc.key \in flush'[n][f].failed
  <2>1. flush \in [Node -> [Flusher -> FlushState(Key)]]
    BY <1>0 DEF TypeOK
  <2>2. flush' = [flush EXCEPT ![n][f].failed = @ \cup {c.loc.key}]
    BY DEF FailKey
  <2> HIDE DEF f
  <2> QED BY <1>1, <2>1, <2>2 DEF FlushState
<1>6. UNCHANGED <<history, alive, install, store, stabQ, rebuildQ, rflush,
                 rebuilds>>
  BY DEF FailKey
<1>7. \A g \in Flusher : FlushInPlace(n, g)
  BY <1>0 DEF PlaceInv
<1>8. \A m \in Node, x \in Key :
          Received(calls, m, x) => Received(calls', m, x)
  BY <1>0, <1>2, AbandonReceives
<1>9. ASSUME NEW l \in Loc, NEW g \in Flusher, Flushing(n, g, l.key)
      PROVE  Asked(n, l)'
  <2>1. Flushing(n, g, l.key)'
    BY <1>4, <1>5, <1>9, FlushingKept
  <2> QED BY <2>1 DEF Asked, Due
<1>10. ASSUME NEW l \in Loc, NEW g \in Flusher, Asking(calls, n, g, l)
       PROVE  Asked(n, l)'
  <2>1. PICK d \in calls : /\ d.from = n /\ d.by = g /\ d.loc = l
                           /\ d.version = LastVersion
                           /\ d.st \in {"get", "sent", "failed"}
    BY <1>10 DEF Asking
  <2>2. CASE d \in S
    <3>1. g = f /\ l.key = c.loc.key
      BY <2>1, <2>2 DEF CallsOf
    <3>2. \A e \in CallsOf(n, g) : e.version = LastVersion
      BY <1>7, <2>1 DEF FlushInPlace, CallsOf
    <3>3. \A e \in CallsOf(n, g)' : e.version = LastVersion
      BY <1>4, <3>2 DEF FlushContinues
    <3>4. Flushing(n, g, l.key)'
      BY <1>5, <3>1, <3>3 DEF Flushing
    <3> QED BY <3>4 DEF Asked, Due
  <2>3. CASE d \notin S
    <3>1. Asking(calls', n, g, l)
      BY <1>3, <2>1, <2>3 DEF Asking
    <3>2. Asking(calls, n, g, l)'
      BY <3>1 DEF Asking
    <3> QED BY <3>2 DEF Asked
  <2> QED BY <2>2, <2>3
<1>11. \A l \in Loc : l.key \in stabQ[n] => Asked(n, l)'
  BY <1>6 DEF Asked, Due
<1>12. Watched(n)' => Watched(n)
  BY <1>6 DEF Watched
<1>13. /\ \A d \in calls : d.by \in Flusher /\ d.from # n => d \in calls'
       /\ \A d \in calls' : d.by \in Flusher /\ d.from # n => d \in calls
  BY <1>2, <1>3
<1> HIDE DEF f, S
<1> QED BY <1>5, <1>6, <1>8, <1>9, <1>10, <1>11, <1>12, <1>13, FlusherStep

\* What a refused flush drops was asked for under an older map.
LEMMA HealSendRejected ==
    ASSUME HealBase, NEW n \in Node, NEW c \in calls, SendRejected(n, c)
    PROVE  HealInv'
<1> USE DEF world, maps, stabVars, rebuildVars, aux
<1> DEFINE f == c.by
<1>0. TypeOK /\ PlaceInv
  BY DEF HealBase, PlaceInv, BaseInv, GateInv
<1>1. f \in Flusher /\ c \in CallsOf(n, f) /\ n \in alive /\ c.st = "rejected"
  BY DEF SendRejected, Mine, CallsOf
<1>2. /\ CallsOf(n, f) \subseteq {d \in calls : d.from = n}
      /\ CallsOf(n, f) \in SUBSET calls /\ calls' = Abandon(CallsOf(n, f))
  BY DEF SendRejected, CallsOf
<1>3. /\ \A d \in calls : d \in CallsOf(n, f) \/ d \in calls'
      /\ \A d \in calls' : d.by \in Flusher => d \in calls \ CallsOf(n, f)
  BY <1>0, <1>2, AbandonAside
<1>4. UNCHANGED <<history, alive, store, stabQ, rebuildQ, rflush, rebuilds>>
  BY DEF SendRejected
<1>5. \A g \in Flusher : FlushContinues(n, g)
  BY <1>0, <1>2, <1>4, AbandonContinues, CallsKept
<1>6. /\ \A m \in Node \ {n} : flush'[m] = flush[m]
      /\ \A g \in Flusher \ {f} : flush'[n][g] = flush[n][g]
  <2>1. flush \in [Node -> [Flusher -> FlushState(Key)]]
    BY <1>0 DEF TypeOK
  <2>2. flush' = [flush EXCEPT ![n][f] = IdleFlush]
    BY DEF SendRejected
  <2> HIDE DEF f
  <2> QED BY <1>1, <2>1, <2>2
<1>7. \A g \in Flusher : FlushInPlace(n, g)
  BY <1>0 DEF PlaceInv
<1>8. flush[n][f].pc = "run"
  BY <1>1, <1>7 DEF FlushInPlace
<1>9. /\ \A m \in Node \ {n} : install'[m] = install[m]
      /\ install'[n].version = install[n].version
      /\ install'[n].keys = install[n].keys
      /\ install'[n].pc = IF f = "cluster" THEN "idle" ELSE install[n].pc
      /\ f = "cluster" => install[n].pc = "wait"
  <2>1. install \in [Node -> InstallState]
    BY <1>0 DEF TypeOK
  <2>2. Returns(n, f)
    BY DEF SendRejected
  <2>3. f = "cluster" => install[n].pc = "wait"
    BY <1>0, <1>8 DEF PlaceInv, MapInPlace
  <2> HIDE DEF f
  <2> QED BY <2>1, <2>2, <2>3 DEF Returns, InstallState
<1>10. c.version # LastVersion
  BY <1>0, <1>1 DEF PlaceInv, CallInPlace
<1>11. ASSUME NEW l \in Loc, NEW g \in Flusher, Flushing(n, g, l.key)
       PROVE  Asked(n, l)'
  <2>1. g # f
    BY <1>1, <1>8, <1>10, <1>11 DEF Flushing
  <2>2. Flushing(n, g, l.key)'
    BY <1>5, <1>6, <1>11, <2>1, FlushingKept
  <2> QED BY <2>2 DEF Asked, Due
<1>12. ASSUME NEW l \in Loc, NEW g \in Flusher, Asking(calls, n, g, l)
       PROVE  Asked(n, l)'
  <2>1. PICK d \in calls : /\ d.from = n /\ d.by = g /\ d.loc = l
                           /\ d.version = LastVersion
                           /\ d.st \in {"get", "sent", "failed"}
    BY <1>12 DEF Asking
  <2>2. d \notin CallsOf(n, f)
    BY <1>1, <1>7, <1>10, <2>1 DEF FlushInPlace
  <2>3. Asking(calls', n, g, l)
    BY <1>3, <2>1, <2>2 DEF Asking
  <2>4. Asking(calls, n, g, l)'
    BY <2>3 DEF Asking
  <2> QED BY <2>4 DEF Asked
<1>13. \A m \in Node, x \in Key :
           Received(calls, m, x) => Received(calls', m, x)
  BY <1>0, <1>2, AbandonReceives
<1>14. \A l \in Loc : l.key \in stabQ[n] => Asked(n, l)'
  BY <1>4 DEF Asked, Due
<1>15. /\ Watched(n)' => Watched(n)
       /\ install'[n].pc = "reset" <=> install[n].pc = "reset"
  BY <1>4, <1>9 DEF Watched
<1>16. /\ \A d \in calls : d.by \in Flusher /\ d.from # n => d \in calls'
       /\ \A d \in calls' : d.by \in Flusher /\ d.from # n => d \in calls
  BY <1>2, <1>3
<1> HIDE DEF f
<1> QED
  BY <1>4, <1>6, <1>9, <1>11, <1>12, <1>13, <1>14, <1>15, <1>16, FlusherStep

\* The keys that failed are queued again.
LEMMA HealFlushEnds ==
    ASSUME HealBase, NEW n \in Node, NEW f \in Flusher, FlushEnds(n, f)
    PROVE  HealInv'
<1> USE DEF world, maps, stabVars, rebuildVars, aux
<1>0. TypeOK /\ PlaceInv
  BY DEF HealBase, PlaceInv, BaseInv, GateInv
<1>1. flush[n][f].pc = "run" /\ n \in alive
  BY DEF FlushEnds
<1>2. UNCHANGED <<history, alive, store, calls, rebuildQ, rflush, rebuilds>>
  BY DEF FlushEnds
<1>3. \A g \in Flusher : FlushContinues(n, g)
  BY <1>2 DEF FlushContinues, CallsOf
<1>4. /\ \A m \in Node \ {n} : flush'[m] = flush[m]
      /\ \A g \in Flusher \ {f} : flush'[n][g] = flush[n][g]
      /\ \A m \in Node \ {n} : stabQ'[m] = stabQ[m]
      /\ stabQ'[n] = stabQ[n] \cup flush[n][f].failed
  <2>1. flush \in [Node -> [Flusher -> FlushState(Key)]]
    BY <1>0 DEF TypeOK
  <2>2. stabQ \in [Node -> SUBSET Key]
    BY <1>0 DEF TypeOK
  <2> QED BY <2>1, <2>2 DEF FlushEnds
<1>5. /\ \A m \in Node \ {n} : install'[m] = install[m]
      /\ install'[n].version = install[n].version
      /\ install'[n].keys = install[n].keys
      /\ install'[n].pc = IF f = "cluster" THEN "idle" ELSE install[n].pc
      /\ f = "cluster" => install[n].pc = "wait"
  <2>1. install \in [Node -> InstallState]
    BY <1>0 DEF TypeOK
  <2>2. Returns(n, f)
    BY DEF FlushEnds
  <2>3. f = "cluster" => install[n].pc = "wait"
    BY <1>0, <1>1 DEF PlaceInv, MapInPlace
  <2> QED BY <2>1, <2>2, <2>3 DEF Returns, InstallState
<1>6. ASSUME NEW l \in Loc, NEW g \in Flusher, Flushing(n, g, l.key)
      PROVE  Asked(n, l)'
  <2>1. CASE g = f
    <3>1. l.key \in stabQ'[n]
      BY <1>1, <1>4, <1>6, <2>1 DEF Flushing
    <3> QED BY <3>1 DEF Asked, Due
  <2>2. CASE g # f
    <3>1. Flushing(n, g, l.key)'
      BY <1>3, <1>4, <1>6, <2>2, FlushingKept
    <3> QED BY <3>1 DEF Asked, Due
  <2> QED BY <2>1, <2>2
<1>7. ASSUME NEW l \in Loc, NEW g \in Flusher, Asking(calls, n, g, l)
      PROVE  Asked(n, l)'
  <2>1. Asking(calls, n, g, l)'
    BY <1>2, <1>7 DEF Asking
  <2> QED BY <2>1 DEF Asked
<1>8. \A l \in Loc : l.key \in stabQ[n] => Asked(n, l)'
  BY <1>4 DEF Asked, Due
<1>9. /\ Watched(n)' => Watched(n)
      /\ install'[n].pc = "reset" <=> install[n].pc = "reset"
  BY <1>2, <1>5 DEF Watched
<1> QED BY <1>2, <1>4, <1>5, <1>6, <1>7, <1>8, <1>9, FlusherStep

\* The queued keys pass to the flush.
LEMMA HealDrain ==
    ASSUME HealBase, NEW n \in Node, NEW f \in Flusher, Drain(n, f)
    PROVE  HealInv'
<1> USE DEF world, maps, stabVars, rebuildVars, aux
<1>0. TypeOK /\ PlaceInv
  BY DEF HealBase, PlaceInv, BaseInv, GateInv
<1>1. flush[n][f].pc = "idle" /\ n \in alive
  BY DEF Drain
<1>2. UNCHANGED <<history, alive, store, calls, rebuildQ, rflush, rebuilds>>
  BY DEF Drain
<1>3. \A g \in Flusher : FlushContinues(n, g)
  BY <1>2 DEF FlushContinues, CallsOf
<1>4. /\ \A m \in Node \ {n} : flush'[m] = flush[m]
      /\ \A g \in Flusher \ {f} : flush'[n][g] = flush[n][g]
      /\ flush'[n][f] = [pc |-> "drained", todo |-> stabQ[n], failed |-> {}]
      /\ \A m \in Node \ {n} : stabQ'[m] = stabQ[m]
  <2>1. flush \in [Node -> [Flusher -> FlushState(Key)]]
    BY <1>0 DEF TypeOK
  <2>2. stabQ \in [Node -> SUBSET Key]
    BY <1>0 DEF TypeOK
  <2> QED BY <2>1, <2>2 DEF Drain
<1>5. /\ \A m \in Node \ {n} : install'[m] = install[m]
      /\ install'[n].version = install[n].version
      /\ install'[n].keys = install[n].keys
      /\ \/ f = "tick" /\ install'[n].pc = install[n].pc
         \/ f = "cluster" /\ install[n].pc = "flush" /\ install'[n].pc = "wait"
  <2>1. install \in [Node -> InstallState]
    BY <1>0 DEF TypeOK
  <2> QED BY <2>1 DEF Drain, InstallState
<1>6. ASSUME NEW l \in Loc, NEW g \in Flusher, Flushing(n, g, l.key)
      PROVE  Asked(n, l)'
  <2>1. g # f
    BY <1>0, <1>1, <1>6 DEF Flushing, PlaceInv, FlushInPlace
  <2>2. Flushing(n, g, l.key)'
    BY <1>3, <1>4, <1>6, <2>1, FlushingKept
  <2> QED BY <2>2 DEF Asked, Due
<1>7. ASSUME NEW l \in Loc, NEW g \in Flusher, Asking(calls, n, g, l)
      PROVE  Asked(n, l)'
  <2>1. Asking(calls, n, g, l)'
    BY <1>2, <1>7 DEF Asking
  <2> QED BY <2>1 DEF Asked
<1>8. ASSUME NEW l \in Loc, l.key \in stabQ[n] PROVE Asked(n, l)'
  <2>1. Flushing(n, f, l.key)'
    BY <1>4, <1>8 DEF Flushing
  <2> QED BY <2>1 DEF Asked, Due
<1>9. /\ Watched(n)' => Watched(n)
      /\ install'[n].pc = "reset" <=> install[n].pc = "reset"
  BY <1>2, <1>5 DEF Watched
<1> QED BY <1>2, <1>4, <1>5, <1>6, <1>7, <1>8, <1>9, FlusherStep

\* A future is made for every piece of a drained key that is elsewhere.
LEMMA HealReadCluster ==
    ASSUME HealBase, NEW n \in Node, NEW f \in Flusher, ReadCluster(n, f)
    PROVE  HealInv'
<1> USE DEF world, maps, stabVars, rebuildVars, aux
<1> DEFINE T == Tasks(n, f, view[n].stab, flush[n][f].todo)
<1>0. TypeOK /\ PlaceInv
  BY DEF HealBase, PlaceInv, BaseInv, GateInv
<1>1. flush[n][f].pc = "drained" /\ n \in alive /\ calls' = calls \cup T
  BY DEF ReadCluster
<1>2. UNCHANGED <<history, alive, view, install, store, stabQ, rebuildQ, rflush,
                 rebuilds>>
  BY DEF ReadCluster
<1>3. \A d \in T : /\ d.from = n /\ d.by = f /\ d.version = view[n].stab
                  /\ d.st = "get"
  BY DEF Tasks
<1>4. ASSUME NEW l \in Loc, l.key \in flush[n][f].todo,
             HolderAt(view[n].stab, l) \notin {NoNode, n}
      PROVE  \E d \in T : d.loc = l
  <2> DEFINE d == [from |-> n, by |-> f, to |-> HolderAt(view[n].stab, l),
                   loc |-> l, version |-> view[n].stab, data |-> FALSE,
                   st |-> "get", reput |-> FALSE]
  <2>1. d \in T
    BY <1>4 DEF Tasks
  <2>2. d.loc = l
    OBVIOUS
  <2> HIDE DEF d, T
  <2> QED BY <2>1, <2>2
<1> HIDE DEF T
<1>5. /\ \A m \in Node \ {n} : flush'[m] = flush[m]
      /\ \A g \in Flusher \ {f} : flush'[n][g] = flush[n][g]
      /\ flush'[n][f].failed = flush[n][f].failed
  <2>1. flush \in [Node -> [Flusher -> FlushState(Key)]]
    BY <1>0 DEF TypeOK
  <2> QED BY <2>1 DEF ReadCluster, FlushState
<1>6. CallsOf(n, f)' = T /\ \A g \in Flusher \ {f} : CallsOf(n, g)' = CallsOf(n, g)
  <2>1. CallsOf(n, f) = {}
    BY <1>0, <1>1 DEF PlaceInv, FlushInPlace
  <2> QED BY <1>1, <1>3, <2>1 DEF CallsOf
<1>7. ASSUME NEW l \in Loc, NEW g \in Flusher, Watched(n), Elsewhere(n, l),
             Flushing(n, g, l.key)
      PROVE  Asked(n, l)'
  <2>0. view[n].stab = LastVersion
    BY <1>0, <1>7 DEF PlaceInv, MapInPlace, Watched
  <2>1. CASE g # f
    <3>1. FlushContinues(n, g)
      BY <1>6, <2>1 DEF FlushContinues
    <3>2. Flushing(n, g, l.key)'
      BY <1>5, <1>7, <2>1, <3>1, FlushingKept
    <3> QED BY <3>2 DEF Asked, Due
  <2>2. CASE g = f /\ l.key \in flush[n][f].todo
    <3>1. PICK d \in T : d.loc = l
      BY <1>4, <1>7, <2>0, <2>2 DEF Elsewhere
    <3>2. Asking(calls', n, f, l)
      BY <1>1, <1>3, <2>0, <3>1 DEF Asking
    <3>3. Asking(calls, n, f, l)'
      BY <3>2 DEF Asking
    <3> QED BY <3>3 DEF Asked
  <2>3. CASE g = f /\ l.key \in flush[n][f].failed
    <3>1. Flushing(n, f, l.key)'
      BY <1>3, <1>5, <1>6, <2>0, <2>3 DEF Flushing
    <3> QED BY <3>1 DEF Asked, Due
  <2> QED BY <1>7, <2>1, <2>2, <2>3 DEF Flushing
<1>8. ASSUME NEW l \in Loc, NEW g \in Flusher, Asking(calls, n, g, l)
      PROVE  Asked(n, l)'
  <2>1. Asking(calls', n, g, l)
    BY <1>1, <1>8 DEF Asking
  <2>2. Asking(calls, n, g, l)'
    BY <2>1 DEF Asking
  <2> QED BY <2>2 DEF Asked
<1>9. \A l \in Loc : l.key \in stabQ[n] => Asked(n, l)'
  BY <1>2 DEF Asked, Due
<1>10. Watched(n)' => Watched(n)
  BY <1>2 DEF Watched
<1>11. \A m \in Node, x \in Key :
           Received(calls, m, x) => Received(calls', m, x)
  BY <1>1 DEF Received
<1>12. /\ \A d \in calls : d \in calls'
       /\ \A d \in calls' : d.by \in Flusher /\ d.from # n => d \in calls
  BY <1>1, <1>3
<1> QED BY <1>2, <1>5, <1>7, <1>8, <1>9, <1>10, <1>11, <1>12, FlusherStep

LEMMA HealGet ==
    ASSUME HealBase, NEW n \in Node, NEW c \in calls, GetPiece(n, c)
    PROVE  HealInv'
<1> USE DEF world, maps, stabVars, rebuildVars, aux
<1> DEFINE x == [c EXCEPT !.st = "sent", !.data = (c.loc \in store[n])]
<1>0. TypeOK /\ ~Crippled /\ HealInv /\ PlaceInv
  BY DEF HealBase, PlaceInv, BaseInv, GateInv
<1>1. /\ x.from = c.from /\ x.by = c.by /\ x.to = c.to /\ x.loc = c.loc
      /\ x.version = c.version /\ x.st = "sent"
  BY <1>0 DEF TypeOK, Call
<1>2. calls' = (calls \ {c}) \cup {x} /\ c.st = "get"
  BY DEF GetPiece
<1> HIDE DEF x
<1>3. UNCHANGED <<history, alive, install, flush, store, stabQ, rebuildQ, rflush,
                 rebuilds>>
  BY DEF GetPiece
<1>4. \A m \in Node, g \in Flusher : FlushContinues(m, g)
  <2>1. \A d \in calls : Continues(d, d)
    BY DEF Continues
  <2>2. Continues(x, c)
    BY <1>1 DEF Continues
  <2>3. CallsContinue
    BY <1>2, <2>1, <2>2 DEF CallsContinue
  <2> QED BY <1>0, <1>3, <2>3, CallsKept
<1>5. \A m \in Node, y \in Key :
          Received(calls, m, y) => Received(calls', m, y)
  BY <1>2 DEF Received
<1>6. \A m \in Node, g \in Flusher, l \in Loc :
          Asking(calls, m, g, l) => Asking(calls', m, g, l)
  BY <1>1, <1>2 DEF Asking
<1>7. \A m \in Node, l \in Loc : Rebuilding(m, l) => Rebuilding(m, l)'
  BY <1>3 DEF Rebuilding
<1> QED BY <1>0, <1>3, <1>4, <1>5, <1>6, <1>7, GrowStep

\* The copy that is deleted is not the last one where it counts.
LEMMA HealDelete ==
    ASSUME HealBase, HealStep, NEW n \in Node, NEW c \in calls,
           DeletePiece(n, c)
    PROVE  HealInv'
<1> USE DEF world, maps, stabVars, rebuildVars, aux
<1>0. TypeOK /\ ~Crippled /\ HealInv /\ PlaceInv
  BY DEF HealBase, PlaceInv, BaseInv, GateInv
<1>1. /\ calls' = calls \ {c} /\ c.st = "ok"
      /\ \A m \in Node : store'[m] \subseteq store[m]
      /\ \A m \in Node \ {n} : store'[m] = store[m]
      /\ \A l \in store[n] : l \in store'[n] \/ (c.data /\ l = c.loc)
  <2>1. store \in [Node -> SUBSET Loc]
    BY <1>0 DEF TypeOK
  <2> QED BY <2>1 DEF DeletePiece
<1>2. UNCHANGED <<history, alive, install, flush, stabQ, rebuildQ, rflush,
                 rebuilds>>
  BY DEF DeletePiece
<1>3. AnswersStay
  <2> SUFFICES ASSUME \E m \in Node : Watched(m), NEW l \in Loc,
                      HolderAt(LastVersion, l) \in Survivor, Answered(l)
               PROVE  Answered(l)'
    BY DEF AnswersStay
  <2>1. /\ Survivor' = Survivor /\ Survivor \subseteq Node
        /\ HolderAt(LastVersion, l)' = HolderAt(LastVersion, l)
    BY <1>0, <1>2, SurvivorType DEF Survivor, HolderAt, Map
  <2>2. CASE Rebuilding(HolderAt(LastVersion, l), l)
    BY <1>2, <2>1, <2>2 DEF Answered, Rebuilding
  <2>3. CASE Kept(l)
    <3>1. PICK m \in Survivor : l \in store[m]
      BY <2>3 DEF Kept
    <3>2. CASE m = n /\ c.data /\ l = c.loc
      <4>1. PICK g \in Survivor \ {n} : c.loc \in store[g]
        BY <3>1, <3>2 DEF HealStep
      <4>2. l \in store'[g]
        BY <1>1, <2>1, <3>2, <4>1
      <4> QED BY <2>1, <4>2 DEF Answered, Kept
    <3>3. CASE l \in store'[m]
      BY <2>1, <3>1, <3>3 DEF Answered, Kept
    <3> QED BY <1>1, <2>1, <3>1, <3>2, <3>3
  <2> QED BY <2>2, <2>3 DEF Answered
<1>4. ASSUME NEW m \in Node PROVE Stays(m)
  <2>1. \A g \in Flusher : FlushContinues(m, g)
    BY <1>1 DEF FlushContinues, CallsOf
  <2>2. ASSUME NEW l \in Loc, Asked(m, l) PROVE Asked(m, l)'
    <3>1. CASE l.key \in stabQ[m] \/ RebuiltKey(m, l.key)
      <4>1. l.key \in stabQ'[m] \/ RebuiltKey(m, l.key)'
        BY <1>2, <3>1 DEF RebuiltKey
      <4> QED BY <4>1 DEF Asked, Due
    <3>2. CASE Received(calls, m, l.key)
      <4>1. Received(calls, m, l.key)'
        BY <1>1, <3>2 DEF Received
      <4> QED BY <4>1 DEF Asked, Due
    <3>3. ASSUME NEW g \in Flusher, Flushing(m, g, l.key) PROVE Asked(m, l)'
      <4>1. Flushing(m, g, l.key)'
        BY <1>2, <2>1, <3>3, FlushingKept
      <4> QED BY <4>1 DEF Asked, Due
    <3>4. ASSUME NEW g \in Flusher, Asking(calls, m, g, l) PROVE Asked(m, l)'
      <4>1. Asking(calls, m, g, l)'
        BY <1>1, <3>4 DEF Asking
      <4> QED BY <4>1 DEF Asked
    <3> QED BY <2>2, <3>1, <3>2, <3>3, <3>4 DEF Asked, Due
  <2>3. \A l \in Loc : Sibling(m, l)' => Sibling(m, l)
    BY <1>1 DEF Sibling
  <2>4. Watched(m)' => Watched(m)
    BY <1>2 DEF Watched
  <2> QED BY <1>2, <2>2, <2>3, <2>4 DEF Stays
<1>5. \A m \in Node : Repairing(m)'
  BY <1>0, <1>2, <1>3, <1>4, RepairKept DEF HealInv
<1> QED BY <1>5 DEF HealInv

LEMMA HealStabilizer ==
    ASSUME HealBase, HealStep, NEW n \in Node,
           StabilizerNext(n) \/ StabilizerFault(n)
    PROVE  HealInv'
<1>1. ASSUME NEW c \in calls, DeleteFails(n, c) PROVE HealInv'
  <2>0. TypeOK /\ ~Crippled /\ HealInv /\ PlaceInv
    BY DEF HealBase, PlaceInv, BaseInv, GateInv
  <2>1. c.st = "ok" /\ calls' = calls \ {c}
    BY <1>1 DEF DeleteFails
  <2>2. UNCHANGED <<history, alive, install, flush, store, stabQ, rebuildQ,
                   rflush, rebuilds>>
    BY <1>1 DEF DeleteFails, maps, stabVars, rebuildVars
  <2>3. \A m \in Node, f \in Flusher : FlushContinues(m, f)
    BY <2>0, <2>1, <2>2, SubsetContinues, CallsKept
  <2>4. /\ \A m \in Node, x \in Key :
              Received(calls, m, x) => Received(calls', m, x)
        /\ \A m \in Node, f \in Flusher, l \in Loc :
              Asking(calls, m, f, l) => Asking(calls', m, f, l)
    BY <2>1 DEF Received, Asking
  <2>5. \A m \in Node, l \in Loc : Rebuilding(m, l) => Rebuilding(m, l)'
    BY <2>2 DEF Rebuilding
  <2> QED BY <2>0, <2>2, <2>3, <2>4, <2>5, GrowStep
<1>2. ASSUME NEW c \in calls,
             GetFails(n, c) \/ SendFailed(n, c) \/ SendLost(n, c)
      PROVE  HealInv'
  <2>1. Mine(n, c) /\ FailKey(n, c)
    BY <1>2 DEF GetFails, SendFailed, SendLost
  <2> QED BY <2>1, HealFailKey
<1> QED
  BY <1>1, <1>2, HealDrain, HealReadCluster, HealGet, HealDelete,
     HealSendRejected, HealFlushEnds
  DEF StabilizerNext, FlushNext, StabilizerFault, CallsOf

\* A step of one node: what it does at the others is nothing.
LEMMA StepOfOne ==
    ASSUME HealBase, UNCHANGED history, AnswersStay, NEW n \in Node,
           Repairing(n)', \A m \in Node \ {n} : Stays(m)
    PROVE  HealInv'
<1>0. TypeOK /\ ~Crippled /\ HealInv
  BY DEF HealBase, PlaceInv, BaseInv, GateInv
<1>1. \A m \in Node \ {n} : Repairing(m)'
  BY <1>0, RepairKept DEF HealInv
<1> QED BY <1>1 DEF HealInv

\* The keys of what the node has are read and queued before anything may
\* rely on it.
LEMMA HealClusterIn ==
    ASSUME HealBase, HealStep, NEW n \in Node,
           ClusterInNext(n) \/ ClusterInFault(n)
    PROVE  HealInv'
<1> USE DEF world, maps, stabVars, rebuildVars, aux
<1>0. TypeOK /\ ~Crippled /\ HealInv /\ PlaceInv
  BY DEF HealBase, PlaceInv, BaseInv, GateInv
<1>1. install \in [Node -> InstallState] /\ stabQ \in [Node -> SUBSET Key]
  BY <1>0 DEF TypeOK
<1>2. UNCHANGED <<history, alive, store, flush, calls, rebuildQ, rflush,
                 rebuilds>>
  BY DEF ClusterInNext, ClusterInFault, BeginInstall, Reapply, SetNewCluster,
         ReadKeys, KeysFails, ResetQueue
<1>3. AnswersStay
  <2>1. \A m \in Node, l \in Loc : Rebuilding(m, l) => Rebuilding(m, l)'
    BY <1>2 DEF Rebuilding
  <2> QED BY <1>0, <1>2, <2>1, AnswersKept
<1>4. ASSUME \A m \in Node \ {n} : install'[m] = install[m] /\ stabQ'[m] = stabQ[m],
             Repairing(n)'
      PROVE  HealInv'
  <2>1. \A m \in Node \ {n} : Stays(m)
    BY <1>2, <1>4, OtherStays
  <2> QED BY <1>2, <1>3, <1>4, <2>1, StepOfOne
<1>5. ASSUME install'[n].pc \notin {"reset", "flush", "wait", "idle"},
             \A m \in Node \ {n} : install'[m] = install[m], UNCHANGED stabQ
      PROVE  HealInv'
  <2>1. Repairing(n)'
    BY <1>5 DEF Repairing, Watched
  <2> QED BY <1>4, <1>5, <2>1
<1>6. FanOut[1] = "io"
  BY DEF FanOut
<1>7. ASSUME NEW v \in Version, BeginInstall(n, v) PROVE HealInv'
  BY <1>1, <1>5, <1>6, <1>7 DEF BeginInstall
<1>8. ASSUME Reapply(n) \/ KeysFails(n) PROVE HealInv'
  <2>1. install' = [install EXCEPT ![n].pc = "io"] /\ UNCHANGED stabQ
    BY <1>6, <1>8 DEF Reapply, KeysFails
  <2>2. /\ install'[n].pc = "io"
        /\ \A m \in Node \ {n} : install'[m] = install[m]
    BY <1>1, <2>1 DEF InstallState
  <2> QED BY <1>5, <2>1, <2>2
<1>9. ASSUME NEW i \in 1..Len(FanOut), SetNewCluster(n, i) PROVE HealInv'
  <2>1. /\ FanOut = <<"io", "peer", "rebuild", "stab">>
        /\ i \in {1, 2, 3, 4} /\ Len(FanOut) = 4
    BY FanOutType DEF FanOut
  <2>2. /\ install'[n].pc = IF i < 4 THEN FanOut[i + 1] ELSE "keys"
        /\ \A m \in Node \ {n} : install'[m] = install[m]
        /\ UNCHANGED stabQ
    BY <1>1, <1>9, <2>1 DEF SetNewCluster, InstallState
  <2>3. install'[n].pc \in {"peer", "rebuild", "stab", "keys"}
    BY <2>1, <2>2
  <2> QED BY <1>5, <2>2, <2>3
<1>10. ASSUME ReadKeys(n) PROVE HealInv'
  <2>1. /\ install'[n].pc = "reset"
        /\ install'[n].keys = {l.key : l \in store[n]}
        /\ \A m \in Node \ {n} : install'[m] = install[m]
        /\ UNCHANGED stabQ
    BY <1>1, <1>10 DEF ReadKeys, InstallState
  <2>2. Repairing(n)'
    BY <1>2, <2>1 DEF Repairing, Sibling
  <2> QED BY <1>4, <2>1, <2>2
<1>11. ASSUME ResetQueue(n) PROVE HealInv'
  <2>1. /\ install'[n].version = install[n].version
        /\ install[n].pc = "reset" /\ install'[n].pc = "flush"
        /\ stabQ'[n] = install[n].keys
        /\ \A m \in Node \ {n} : install'[m] = install[m] /\ stabQ'[m] = stabQ[m]
    BY <1>1, <1>11 DEF ResetQueue, InstallState
  <2>2. ASSUME NEW l \in Loc, Watched(n)', Sibling(n, l)', Elsewhere(n, l)'
        PROVE  Asked(n, l)' \/ Answered(l)'
    <3>1. Watched(n) /\ Sibling(n, l) /\ Elsewhere(n, l)
      BY <1>2, <2>1, <2>2 DEF Watched, Sibling, Elsewhere, HolderAt, Map
    <3>2. HolderAt(LastVersion, l) \in Survivor
      BY <1>0, <3>1, HolderSurvives DEF Elsewhere
    <3>3. CASE l.key \in install[n].keys
      <4>1. l.key \in stabQ'[n]
        BY <2>1, <3>3
      <4> QED BY <4>1 DEF Asked, Due
    <3>4. CASE l.key \in stabQ[n]
      <4>1. CASE AsksNothing(n, l.key)
        <5>1. Answered(l)
          BY <3>1, <4>1 DEF AsksNothing, LocsOf, Answered
        <5> QED BY <1>3, <3>1, <3>2, <5>1 DEF AnswersStay
      <4>2. l.key \in install[n].keys \/ AsksNothing(n, l.key)
        BY <1>11, <3>1, <3>4 DEF Sibling, HealStep
      <4> QED BY <3>3, <4>1, <4>2
    <3>5. CASE Received(calls, n, l.key) \/ RebuiltKey(n, l.key)
      <4>1. Received(calls, n, l.key)' \/ RebuiltKey(n, l.key)'
        BY <1>2, <3>5 DEF Received, RebuiltKey
      <4> QED BY <4>1 DEF Asked, Due
    <3>6. ASSUME NEW f \in Flusher, Flushing(n, f, l.key) PROVE Asked(n, l)'
      <4>1. Flushing(n, f, l.key)'
        BY <1>2, <3>6 DEF Flushing, CallsOf
      <4> QED BY <4>1 DEF Asked, Due
    <3>7. ASSUME NEW f \in Flusher, Asking(calls, n, f, l) PROVE Asked(n, l)'
      <4>1. Asking(calls, n, f, l)'
        BY <1>2, <3>7 DEF Asking
      <4> QED BY <4>1 DEF Asked
    <3>8. CASE Answered(l)
      BY <1>3, <3>1, <3>2, <3>8 DEF AnswersStay
    <3>9. \/ l.key \in install[n].keys
          \/ Asked(n, l) \/ Answered(l)
      BY <1>0, <3>1 DEF HealInv, Repairing
    <3> QED
      BY <3>3, <3>4, <3>5, <3>6, <3>7, <3>8, <3>9 DEF Asked, Due
  <2>3. Repairing(n)'
    BY <2>2 DEF Repairing
  <2> QED BY <1>4, <2>1, <2>3
<1> QED
  BY <1>7, <1>8, <1>9, <1>10, <1>11 DEF ClusterInNext, ClusterInFault

\* A node that stops for good is one of the nodes that stay, or nobody that
\* stays has lost anything; one that is shut down keeps its pieces.
LEMMA HealStops ==
    ASSUME HealBase, HealStep, NEW n \in Node, Crash(n) \/ Shutdown(n)
    PROVE  HealInv'
<1> USE DEF world, maps, stabVars, rebuildVars, aux
<1> DEFINE S == {c \in calls : c.from = n}
<1>0. TypeOK /\ ~Crippled /\ HealInv /\ PlaceInv
  BY DEF HealBase, PlaceInv, BaseInv, GateInv
<1>1. /\ alive' = alive \ {n} /\ calls' = Abandon(S)
      /\ rebuilds' = rebuilds \ RebuildsOf(n) /\ UNCHANGED history
  BY DEF Crash, Shutdown
<1>2. /\ \A d \in calls : d \in S \/ d \in calls'
      /\ \A d \in calls' : d.by \in Flusher => d \in calls \ S
  BY <1>0, <1>1, AbandonAside
<1>3. /\ \A m \in Node \ {n} :
             /\ install'[m] = install[m] /\ store'[m] = store[m]
             /\ flush'[m] = flush[m] /\ stabQ'[m] = stabQ[m]
             /\ rebuildQ'[m] = rebuildQ[m] /\ rflush'[m] = rflush[m]
      /\ Crash(n) => install'[n].pc = "idle"
      /\ Shutdown(n) => store'[n] = store[n]
  <2>1. CASE Crash(n)
    <3>1. ~Shutdown(n)
      <4>1. install'[n].pc = "idle"
        BY <1>0, <2>1 DEF Crash, TypeOK, InstallState
      <4> QED BY <1>0, <4>1 DEF Shutdown, TypeOK
    <3> QED BY <1>0, <2>1, <3>1 DEF Crash, TypeOK, InstallState
  <2>2. CASE Shutdown(n)
    <3>1. ~Crash(n)
      <4>1. install'[n].pc = "stopped"
        BY <1>0, <2>2 DEF Shutdown, TypeOK
      <4> QED BY <1>0, <4>1 DEF Crash, TypeOK, InstallState
    <3> QED BY <1>0, <2>2, <3>1 DEF Shutdown, TypeOK
  <2> QED BY <2>1, <2>2
<1>4. ASSUME NEW m \in Node \ {n} PROVE Stays(m)
  <2>1. \A x \in Key : Received(calls, m, x) => Received(calls', m, x)
    BY <1>0, <1>1, AbandonReceives
  <2>2. \A r \in rebuilds : r.node = m => r \in rebuilds'
    BY <1>1 DEF RebuildsOf
  <2> QED BY <1>1, <1>2, <1>3, <2>1, <2>2, OtherStays
<1>5. Repairing(n)'
  BY <1>1 DEF Repairing, Watched
<1>6. \A m \in Node \ {n}, l \in Loc : Rebuilding(m, l) => Rebuilding(m, l)'
  <2>1. \A r \in rebuilds : r.node # n => r \in rebuilds'
    BY <1>1 DEF RebuildsOf
  <2> QED BY <1>3, <2>1 DEF Rebuilding
<1>7. ASSUME NEW l \in Loc, HolderAt(LastVersion, l) \in Survivor, Answered(l),
             n \notin Survivor
             \/ (store'[n] = store[n] /\ ~Rebuilding(n, l))
      PROVE  Answered(l)'
  <2>1. /\ Survivor' = Survivor /\ Survivor \subseteq Node
        /\ HolderAt(LastVersion, l)' = HolderAt(LastVersion, l)
    BY <1>0, <1>1, SurvivorType DEF Survivor, HolderAt, Map
  <2>2. CASE Kept(l)
    BY <1>3, <1>7, <2>1, <2>2 DEF Answered, Kept
  <2>3. CASE Rebuilding(HolderAt(LastVersion, l), l)
    <3>1. PICK g \in Survivor : g = HolderAt(LastVersion, l)
      BY <1>7
    <3>2. Rebuilding(g, l) /\ g # n
      BY <1>7, <2>3, <3>1
    <3>3. Rebuilding(g, l)'
      BY <1>6, <2>1, <3>2
    <3> QED BY <2>1, <3>1, <3>3 DEF Answered
  <2> QED BY <1>7, <2>2, <2>3 DEF Answered
<1>8. CASE Crash(n) /\ n \in Survivor
  <2>1. Survivor' = Survivor
    BY <1>1 DEF Survivor, Map
  <2>2. Crippled'
    BY <1>1, <1>3, <1>8, <2>1 DEF Crippled
  <2> QED BY <2>2 DEF HealInv
<1>9. CASE Crash(n) /\ n \notin Survivor
  <2>1. AnswersStay
    BY <1>7, <1>9 DEF AnswersStay
  <2> HIDE DEF S
  <2> QED BY <1>1, <1>4, <1>5, <2>1, StepOfOne
<1>10. CASE Shutdown(n)
  <2>1. (\E m \in Node : Watched(m)) => \A l \in Loc : ~Rebuilding(n, l)
    BY <1>10 DEF HealStep
  <2>2. AnswersStay
    BY <1>3, <1>7, <1>10, <2>1 DEF AnswersStay
  <2> HIDE DEF S
  <2> QED BY <1>1, <1>4, <1>5, <2>2, StepOfOne
<1> QED BY <1>8, <1>9, <1>10

\* A node starts again without a map; the map of version 0 places nothing.
LEMMA HealBoot ==
    ASSUME HealBase, NEW n \in Node, Boot(n)
    PROVE  HealInv'
<1> USE DEF world, maps, stabVars, rebuildVars, aux
<1>0. TypeOK /\ PlaceInv
  BY DEF HealBase, PlaceInv, BaseInv, GateInv
<1>1. /\ alive' = alive \cup {n} /\ install[n].pc = "stopped"
      /\ UNCHANGED <<history, store, stabQ, flush, rebuildQ, rflush, rebuilds>>
  BY DEF Boot
<1>2. /\ install'[n].version = 0
      /\ \A m \in Node \ {n} : install'[m] = install[m]
  <2>1. install[n].version = 0
    BY <1>0, <1>1 DEF PlaceInv, MapInPlace
  <2> QED BY <1>0, <2>1 DEF Boot, TypeOK, InstallState
<1>3. /\ \A c \in calls : c.by \in Flusher => c \in calls'
      /\ \A c \in calls : c.to # n => c \in calls'
      /\ \A c \in calls' : c \in calls
  BY DEF Boot, Flusher
<1>4. AnswersStay
  <2>1. \A m \in Node, l \in Loc : Rebuilding(m, l) => Rebuilding(m, l)'
    BY <1>1 DEF Rebuilding
  <2> QED BY <1>0, <1>1, <2>1, AnswersKept
<1>5. ASSUME NEW m \in Node \ {n} PROVE Stays(m)
  <2>1. \A x \in Key : Received(calls, m, x) => Received(calls', m, x)
    BY <1>3 DEF Received
  <2> QED BY <1>1, <1>2, <1>3, <2>1, OtherStays
<1>6. Repairing(n)'
  <2> SUFFICES ASSUME LastVersion = 0, NEW l \in Loc, Elsewhere(n, l)'
               PROVE  FALSE
    BY <1>2 DEF Repairing, Watched
  <2>1. history[0] = EmptyMap
    BY <1>0, HistoryAssumption DEF TypeOK
  <2>2. l.key \in Key
    BY DEF Loc
  <2>3. HolderAt(0, l)' = NoNode
    BY <1>1, <2>1, <2>2 DEF HolderAt, Map, Holder, EmptyMap
  <2> QED BY <2>3 DEF Elsewhere
<1> QED BY <1>1, <1>4, <1>5, <1>6, StepOfOne

\* A node that died stays dead.
LEMMA CrippledStays == TypeOK /\ Crippled /\ [Next]_vars => Crippled'
<1> SUFFICES ASSUME TypeOK, Crippled, [Next]_vars PROVE Crippled'
  OBVIOUS
<1> USE DEF world, maps, stabVars, rebuildVars, aux
<1>1. PICK m \in Survivor : m \notin alive /\ install[m].pc # "stopped"
  BY DEF Crippled
<1>2. m \in Node
  BY SurvivorType
<1>3. install \in [Node -> InstallState]
  BY DEF TypeOK
<1>4. ASSUME UNCHANGED history, alive' \subseteq alive, install'[m] = install[m]
      PROVE  Crippled'
  BY <1>1, <1>4 DEF Crippled, Survivor, Map
<1>5. ASSUME NEW n \in Node, ClusterInNext(n) \/ ClusterInFault(n)
      PROVE  Crippled'
  BY <1>1, <1>2, <1>3, <1>4, <1>5
  DEF ClusterInNext, ClusterInFault, BeginInstall, Reapply, SetNewCluster,
      ReadKeys, KeysFails, ResetQueue
<1>6. ASSUME NEW n \in Node, PeerInNext(n) \/ PeerInFault(n) PROVE Crippled'
  BY <1>4, <1>6 DEF PeerInNext, PeerInFault, RejectPiece, PutPiece, PutFails,
                    QueueTask, QueueRebuild
<1>7. ASSUME NEW n \in Node, StabilizerNext(n) \/ StabilizerFault(n)
      PROVE  Crippled'
  <2>1. ASSUME NEW f \in Flusher, Drain(n, f) \/ FlushEnds(n, f) PROVE Crippled'
    <3>1. m # n /\ UNCHANGED <<history, alive>>
      BY <1>1, <2>1 DEF Drain, FlushEnds
    <3>2. install'[m] = install[m]
      BY <1>2, <1>3, <2>1, <3>1 DEF Drain, FlushEnds, Returns
    <3> QED BY <1>4, <3>1, <3>2
  <2>2. ASSUME NEW c \in calls, SendRejected(n, c) PROVE Crippled'
    <3>1. m # n /\ UNCHANGED <<history, alive>>
      BY <1>1, <2>2 DEF SendRejected, Mine
    <3>2. install'[m] = install[m]
      BY <1>2, <1>3, <2>2, <3>1 DEF SendRejected, Returns
    <3> QED BY <1>4, <3>1, <3>2
  <2> QED
    BY <1>4, <1>7, <2>1, <2>2
    DEF StabilizerNext, StabilizerFault, FlushNext, ReadCluster, GetPiece,
        DeletePiece, DeleteFails, GetFails, SendFailed, SendLost, FailKey,
        CallsOf
<1>8. ASSUME NEW n \in Node, RebuildQueueNext(n) \/ RebuildQueueFault(n)
      PROVE  Crippled'
  BY <1>4, <1>8 DEF RebuildQueueNext, RebuildQueueFault, DrainRebuilds,
                    ReadRebuildCluster, PieceExists, AnyPieces, NoReply,
                    Broadcast, RebuildFails, StoreRebuilt, QueueRebuilt,
                    RebuildFlushEnds, AskLost, RebuildIoFails
<1>9. ASSUME NEW n \in Node, IOFrontNext(n) \/ IOFrontFault(n) PROVE Crippled'
  BY <1>4, <1>9 DEF IOFrontNext, IOFrontFault, CreateBegins, SendPieces,
                     CreateReturns, CountOk, CountNotOk, CreateLost
<1>10. ASSUME NEW n \in Node, Crash(n) \/ Shutdown(n) PROVE Crippled'
  <2>1. m # n /\ UNCHANGED history /\ alive' \subseteq alive
    BY <1>1, <1>10 DEF Crash, Shutdown
  <2>2. install'[m] = install[m]
    BY <1>2, <1>3, <1>10, <2>1 DEF Crash, Shutdown
  <2> QED BY <1>4, <2>1, <2>2
<1>11. ASSUME NEW n \in Node, Boot(n) PROVE Crippled'
  <2>1. m # n /\ UNCHANGED history /\ alive' = alive \cup {n}
    BY <1>1, <1>11 DEF Boot
  <2>2. install'[m] = install[m]
    BY <1>2, <1>3, <1>11, <2>1 DEF Boot
  <2> QED BY <1>1, <2>1, <2>2 DEF Crippled, Survivor, Map
<1>12. ASSUME NEW c \in calls, LoseAbandoned(c) PROVE Crippled'
  BY <1>4, <1>12 DEF LoseAbandoned
<1>13. CASE UNCHANGED vars
  BY <1>4, <1>13 DEF vars
<1> QED
  BY <1>5, <1>6, <1>7, <1>8, <1>9, <1>10, <1>11, <1>12, <1>13
  DEF Next, NodeNext, FaultNext

------------------------------------------------------------------------------
(* -- The theorems -- *)

LEMMA HealNext ==
    PlaceInv /\ HealInv /\ [Next]_vars /\ [HealStep]_vars => HealInv'
<1> SUFFICES ASSUME PlaceInv, HealInv, [Next]_vars, [HealStep]_vars
             PROVE  HealInv'
  OBVIOUS
<1> USE DEF world, maps, stabVars, rebuildVars, aux
<1>0. TypeOK
  BY DEF PlaceInv, BaseInv, GateInv
<1>1. CASE Crippled
  BY <1>0, <1>1, CrippledStays DEF HealInv
<1>2. CASE ~Crippled
  <2>0. HealBase
    BY <1>2 DEF HealBase
  <2>1. CASE UNCHANGED vars
    BY <2>0, <2>1, SubsetContinues, CreateStep DEF vars
  <2>2. ASSUME HealStep, NEW c \in calls, LoseAbandoned(c) PROVE HealInv'
    BY <2>0, <2>2, HealLose
  <2>3. ASSUME HealStep, NEW n \in Node, NodeNext(n) \/ FaultNext(n)
        PROVE  HealInv'
    BY <2>0, <2>3, HealClusterIn, HealPeerIn, HealStabilizer,
       HealRebuildQueue, HealIOFront, HealStops, HealBoot
    DEF NodeNext, FaultNext
  <2> QED BY <2>1, <2>2, <2>3 DEF Next
<1> QED BY <1>1, <1>2

LEMMA HealInit == Init => HealInv
<1> SUFFICES ASSUME Init, ~Crippled, NEW n \in Node, Watched(n),
                    NEW l \in Loc, Sibling(n, l), Elsewhere(n, l)
             PROVE  Kept(l)
  BY DEF HealInv, Repairing, Answered
<1> DEFINE v(m) == IF m \in Map(Start).members \ Late THEN Start ELSE 0
<1>0. TypeOK
  BY InitType
<1>1. /\ install = [m \in Node |-> [pc |-> "idle", version |-> v(m), keys |-> {}]]
      /\ alive = Node \ Down
      /\ store = [m \in Node |-> {x \in Loc : /\ x.key \in Settled /\ m \notin Down
                                            /\ HolderAt(Start, x) = m}]
  BY DEF Init
<1>2. LastVersion = Start
  <2>1. LastVersion = v(n)
    BY <1>1 DEF Watched
  <2>2. Start \in 0..LastVersion /\ LastVersion \in Nat
    BY VersionAssumption DEF Version
  <2>3. v(n) = Start \/ v(n) = 0
    OBVIOUS
  <2> HIDE DEF v
  <2> QED BY <2>1, <2>2, <2>3
<1>3. l.key \in Settled
  <2>1. \A x \in store[n] : x.key \in Settled
    BY <1>1
  <2> QED BY <2>1 DEF Sibling
<1>4. PICK g \in Survivor : g = HolderAt(Start, l)
  BY <1>0, <1>2, HolderSurvives DEF Elsewhere
<1>5. g \in Node /\ install[g].pc = "idle"
  BY <1>0, <1>1, SurvivorType
<1>6. g \in alive
  BY <1>5 DEF Crippled
<1>7. l \in store[g]
  BY <1>1, <1>3, <1>4, <1>5, <1>6
<1> QED BY <1>7 DEF Kept

\* Outside the first step of the fan-out io_front has the map the node has
\* installed; a node that is shut down has none.
IoInPlace(n) ==
    /\ n \in alive /\ install[n].pc # "io" => view[n].io = install[n].version
    /\ install[n].pc = "stopped" => view[n].io = 0

IoInv == \A n \in Node : IoInPlace(n)

LEMMA IoStep == PlaceInv /\ IoInv /\ [Next]_vars => IoInv'
<1> SUFFICES ASSUME PlaceInv, IoInv, [Next]_vars, NEW m \in Node
             PROVE  IoInPlace(m)'
  BY DEF IoInv
<1> USE DEF world, maps, stabVars, rebuildVars, aux
<1>0. TypeOK
  BY DEF PlaceInv, BaseInv, GateInv
<1>1. /\ install \in [Node -> InstallState]
      /\ view \in [Node -> [ViewName -> Version]]
  BY <1>0 DEF TypeOK
<1> USE DEF IoInv
<1>2. ASSUME m \in alive' => m \in alive, UNCHANGED <<view, install>>
      PROVE  IoInPlace(m)'
  BY <1>2 DEF IoInPlace
<1>3. ASSUME NEW n \in Node, ClusterInNext(n) \/ ClusterInFault(n)
      PROVE  IoInPlace(m)'
  <2>0. n \in alive /\ UNCHANGED alive
    BY <1>3 DEF ClusterInNext, ClusterInFault, BeginInstall, Reapply,
                SetNewCluster, ReadKeys, KeysFails, ResetQueue
  <2>1. ASSUME NEW v \in Version, BeginInstall(n, v) PROVE IoInPlace(m)'
    <3>1. /\ install'[n].pc = "io" /\ UNCHANGED view
          /\ \A x \in Node \ {n} : install'[x] = install[x]
      BY <1>1, <2>1 DEF BeginInstall, FanOut
    <3> QED BY <2>0, <3>1 DEF IoInPlace
  <2>2. ASSUME Reapply(n) \/ KeysFails(n) PROVE IoInPlace(m)'
    <3>1. install' = [install EXCEPT ![n].pc = "io"] /\ UNCHANGED view
      BY <2>2 DEF Reapply, KeysFails, FanOut
    <3>2. /\ install'[n].pc = "io"
          /\ \A x \in Node \ {n} : install'[x] = install[x]
      BY <1>1, <3>1 DEF InstallState
    <3> QED BY <2>0, <3>1, <3>2 DEF IoInPlace
  <2>3. ASSUME ReadKeys(n) \/ ResetQueue(n) PROVE IoInPlace(m)'
    <3>1. /\ install[n].pc \in {"keys", "reset"} /\ UNCHANGED view
          /\ install'[n].pc \in {"reset", "flush"}
          /\ install'[n].version = install[n].version
          /\ \A x \in Node \ {n} : install'[x] = install[x]
      BY <1>1, <2>3 DEF ReadKeys, ResetQueue, InstallState
    <3> QED BY <2>0, <3>1 DEF IoInPlace
  <2>4. ASSUME NEW i \in 1..Len(FanOut), SetNewCluster(n, i)
        PROVE  IoInPlace(m)'
    <3>1. /\ FanOut = <<"io", "peer", "rebuild", "stab">>
          /\ i \in {1, 2, 3, 4} /\ Len(FanOut) = 4
      BY FanOutType DEF FanOut
    <3>2. /\ install[n].pc = FanOut[i]
          /\ install'[n].version = install[n].version
          /\ install'[n].pc = IF i < 4 THEN FanOut[i + 1] ELSE "keys"
          /\ \A x \in Node \ {n} : install'[x] = install[x] /\ view'[x] = view[x]
      BY <1>1, <2>4, <3>1 DEF SetNewCluster, InstallState
    <3>3. view'[n].io = IF i = 1 THEN install[n].version ELSE view[n].io
      BY <1>1, <2>4, <3>1 DEF SetNewCluster, ViewName
    <3>4. i # 1 => install[n].pc # "io"
      BY <3>1, <3>2
    <3>5. install'[n].pc # "stopped"
      BY <3>1, <3>2
    <3> QED BY <2>0, <3>2, <3>3, <3>4, <3>5 DEF IoInPlace
  <2> QED
    BY <1>3, <2>1, <2>2, <2>3, <2>4 DEF ClusterInNext, ClusterInFault
<1>4. ASSUME NEW n \in Node, PeerInNext(n) \/ PeerInFault(n)
      PROVE  IoInPlace(m)'
  BY <1>2, <1>4 DEF PeerInNext, PeerInFault, RejectPiece, PutPiece, PutFails,
                    QueueTask, QueueRebuild
<1>5. ASSUME NEW n \in Node, StabilizerNext(n) \/ StabilizerFault(n)
      PROVE  IoInPlace(m)'
  <2>1. ASSUME UNCHANGED <<alive, view>>, n \in alive,
               install[n].pc # "stopped",
               UNCHANGED install
               \/ \E x \in {"wait", "idle"} :
                     /\ install' = [install EXCEPT ![n].pc = x]
                     /\ install[n].pc # "io"
        PROVE  IoInPlace(m)'
    <3>1. CASE UNCHANGED install
      BY <1>2, <2>1, <3>1
    <3>2. ASSUME NEW x \in {"wait", "idle"}, install[n].pc # "io",
                 install' = [install EXCEPT ![n].pc = x]
          PROVE  IoInPlace(m)'
      <4>1. /\ install'[n].pc = x /\ install'[n].version = install[n].version
            /\ \A y \in Node \ {n} : install'[y] = install[y]
        BY <1>1, <3>2 DEF InstallState
      <4> QED BY <2>1, <3>2, <4>1 DEF IoInPlace
    <3> QED BY <2>1, <3>1, <3>2
  <2>2. MapInPlace(n) /\ \A f \in Flusher : FlushInPlace(n, f)
    BY DEF PlaceInv
  <2>3. ASSUME NEW f \in Flusher, FlushEnds(n, f) PROVE IoInPlace(m)'
    <3>1. /\ n \in alive /\ install[n].pc # "stopped" /\ UNCHANGED <<alive, view>>
          /\ f = "cluster" => install[n].pc = "wait"
      BY <2>2, <2>3 DEF FlushEnds, MapInPlace
    <3> QED BY <2>1, <2>3, <3>1 DEF FlushEnds, Returns
  <2>4. ASSUME NEW c \in calls, SendRejected(n, c) PROVE IoInPlace(m)'
    <3>1. /\ n \in alive /\ install[n].pc # "stopped" /\ UNCHANGED <<alive, view>>
          /\ c.by \in Flusher /\ c \in CallsOf(n, c.by)
      BY <2>2, <2>4 DEF SendRejected, Mine, MapInPlace, CallsOf
    <3>2. c.by = "cluster" => install[n].pc = "wait"
      BY <2>2, <3>1 DEF MapInPlace, FlushInPlace
    <3> QED BY <2>1, <2>4, <3>1, <3>2 DEF SendRejected, Returns
  <2>5. ASSUME NEW f \in Flusher, Drain(n, f) PROVE IoInPlace(m)'
    <3>1. n \in alive /\ install[n].pc # "stopped" /\ UNCHANGED <<alive, view>>
      BY <2>2, <2>5 DEF Drain, MapInPlace
    <3> QED BY <2>1, <2>5, <3>1 DEF Drain
  <2> QED
    BY <1>2, <1>5, <2>3, <2>4, <2>5
    DEF StabilizerNext, StabilizerFault, FlushNext, ReadCluster, GetPiece,
        DeletePiece, DeleteFails, GetFails, SendFailed, SendLost, FailKey,
        CallsOf
<1>6. ASSUME NEW n \in Node, RebuildQueueNext(n) \/ RebuildQueueFault(n)
      PROVE  IoInPlace(m)'
  BY <1>2, <1>6 DEF RebuildQueueNext, RebuildQueueFault, DrainRebuilds,
                    ReadRebuildCluster, PieceExists, AnyPieces, NoReply,
                    Broadcast, RebuildFails, StoreRebuilt, QueueRebuilt,
                    RebuildFlushEnds, AskLost, RebuildIoFails
<1>7. ASSUME NEW n \in Node, IOFrontNext(n) \/ IOFrontFault(n)
      PROVE  IoInPlace(m)'
  BY <1>2, <1>7 DEF IOFrontNext, IOFrontFault, CreateBegins, SendPieces,
                    CreateReturns, CountOk, CountNotOk, CreateLost
<1>8. ASSUME NEW n \in Node, Crash(n) PROVE IoInPlace(m)'
  <2>1. /\ alive' = alive \ {n} /\ UNCHANGED view /\ install'[n].pc = "idle"
        /\ \A x \in Node \ {n} : install'[x] = install[x]
    BY <1>1, <1>8 DEF Crash, InstallState
  <2> QED BY <2>1 DEF IoInPlace
<1>9. ASSUME NEW n \in Node, Shutdown(n) PROVE IoInPlace(m)'
  <2>1. /\ alive' = alive \ {n} /\ view'[n].io = 0
        /\ \A x \in Node \ {n} : install'[x] = install[x] /\ view'[x] = view[x]
    BY <1>1, <1>9 DEF Shutdown, ViewName
  <2> QED BY <2>1 DEF IoInPlace
<1>10. ASSUME NEW n \in Node, Boot(n) PROVE IoInPlace(m)'
  <2>1. install[n].pc = "stopped" /\ install[n].version = 0
    BY <1>10 DEF Boot, PlaceInv, MapInPlace
  <2>2. /\ alive' = alive \cup {n} /\ UNCHANGED view
        /\ install'[n].pc = "idle" /\ install'[n].version = 0
        /\ \A x \in Node \ {n} : install'[x] = install[x]
    BY <1>1, <1>10, <2>1 DEF Boot, InstallState
  <2> QED BY <2>1, <2>2 DEF IoInPlace
<1>11. ASSUME NEW c \in calls, LoseAbandoned(c) PROVE IoInPlace(m)'
  BY <1>2, <1>11 DEF LoseAbandoned
<1>12. CASE UNCHANGED vars
  BY <1>2, <1>12 DEF vars
<1> QED
  BY <1>3, <1>4, <1>5, <1>6, <1>7, <1>8, <1>9, <1>10, <1>11, <1>12
  DEF Next, NodeNext, FaultNext

LEMMA IoInit == Init => IoInv
BY DEF Init, IoInv, IoInPlace, ViewName

\* When nothing is under way and a piece is not at its holder, nobody but that
\* holder has a piece of its key: everybody else would have asked for it.
MissingOnlyAlone ==
    Quiescent => \A l \in Loc, n \in Node :
        LET g == HolderAt(LastVersion, l)
        IN  g # NoNode /\ l \notin store[g] /\ Sibling(n, l) => n = g

LEMMA AloneFromInvariants == PlaceInv /\ HealInv => MissingOnlyAlone
<1> SUFFICES ASSUME PlaceInv, HealInv, Quiescent, NEW l \in Loc, NEW n \in Node,
                    HolderAt(LastVersion, l) # NoNode,
                    l \notin store[HolderAt(LastVersion, l)],
                    Sibling(n, l), n # HolderAt(LastVersion, l)
             PROVE  FALSE
  BY DEF MissingOnlyAlone
<1>0. TypeOK
  BY DEF PlaceInv, BaseInv, GateInv
<1>1. PICK g \in Survivor : g = HolderAt(LastVersion, l)
  BY <1>0, HolderSurvives
<1>2. Survivor \subseteq alive /\ Survivor \subseteq Node
  BY <1>0, SurvivorType DEF Quiescent, Survivor
<1>3. ~Crippled
  BY <1>2 DEF Crippled
<1>4. n \in alive
  BY DEF Sibling, PlaceInv, NodeInPlace, Quiescent
<1>5. \A m \in alive : /\ m \in Node => RebuildsOf(m) = {}
                       /\ Quiet(m) /\ install[m].version = LastVersion
  BY DEF PlaceInv, NodeInPlace, Quiescent, Quiet
<1>6. Watched(n) /\ install[n].pc = "idle" /\ Elsewhere(n, l)
  BY <1>4, <1>5 DEF Watched, Quiet, Elsewhere
<1>7. ~Asked(n, l)
  <2>1. calls = {}
    BY DEF Quiescent
  <2>2. \A f \in Flusher : ~Flushing(n, f, l.key)
    BY <1>4, <1>5 DEF Flushing, PlaceInv, FlushInPlace, Quiet
  <2>3. l.key \notin stabQ[n] /\ ~RebuiltKey(n, l.key)
    BY <1>4, <1>5 DEF Quiet, RebuiltKey, RebuildsOf
  <2> QED BY <2>1, <2>2, <2>3 DEF Asked, Due, Received, Asking
<1>8. ~Kept(l)
  <2> SUFFICES ASSUME NEW m \in Survivor, l \in store[m] PROVE FALSE
    BY DEF Kept
  <2>1. ~Stray(m, l)
    BY <1>2, PlaceNoStray DEF NoStray
  <2> QED BY <2>1 DEF Stray
<1>9. ~Rebuilding(g, l)
  BY <1>2, <1>5 DEF Rebuilding, Quiet, RebuildsOf
<1> QED
  BY <1>1, <1>3, <1>6, <1>7, <1>8, <1>9 DEF HealInv, Repairing, Answered

\* Whatever moves, fails, stops and restarts: once nothing is under way under
\* the last map, a piece can be missing only when its holder is the only node
\* left with pieces of the key (stabilizer.rs, rebuild_queue.rs), unless one
\* of the seven windows was hit, three of CleanStep and four of HealStep.  That
\* the holder then asks nobody is what the run sole_survivor shows.
THEOREM MissingIsAlone ==
    Spec /\ [][CleanStep /\ HealStep]_vars => []MissingOnlyAlone
<1>1. [CleanStep /\ HealStep]_vars => [CleanStep]_vars /\ [HealStep]_vars
  OBVIOUS
<1> QED
  BY <1>1, PlaceInit, PlaceStep, HealInit, HealNext, AloneFromInvariants, PTL
  DEF Spec

\* Under the last map no node holds more than K pieces of a key.
LastMapSpreads ==
    \A h \in Histories, k \in Key, g \in Node :
        Cardinality({l \in LocsOf(k) : Holder(h[LastVersion], l) = g}) <= K

LEMMA HealedFromInvariants ==
    ASSUME LastMapSpreads
    PROVE  PlaceInv /\ HealInv /\ IoInv => QuiescentHealed
<1> SUFFICES ASSUME PlaceInv, HealInv, IoInv, Quiescent,
                    NEW k \in Key,
                    Cardinality({l \in LocsOf(k) : Held(l)}) >= K,
                    NEW n \in alive
             PROVE  NLost(n, k) = 0
  BY DEF QuiescentHealed
<1>0. TypeOK /\ MissingOnlyAlone /\ NoStray
  BY AloneFromInvariants, PlaceNoStray DEF PlaceInv, BaseInv, GateInv
<1>1. n \in Node /\ history \in Histories
  BY <1>0 DEF TypeOK
<1>2. view[n].io = LastVersion
  BY <1>1 DEF IoInv, IoInPlace, Quiescent, Quiet
\* A missing piece and the pieces held are all given to one node.
<1>3. ASSUME NEW l \in LocsOf(k), HolderAt(LastVersion, l) # NoNode,
             l \notin store[HolderAt(LastVersion, l)]
      PROVE  FALSE
  <2>0. l \in Loc /\ l.key = k
    BY DEF LocsOf
  <2>1. PICK g \in Node : g = HolderAt(LastVersion, l)
    BY <1>0, <1>3, <2>0, HolderSurvives, SurvivorType
  <2> DEFINE T == {x \in LocsOf(k) : Held(x)}
             G == {x \in LocsOf(k) : HolderAt(LastVersion, x) = g}
  <2>2. ASSUME NEW x \in T PROVE x \in store[g] /\ x \in G
    <3>1. PICK m \in Node : x \in store[m]
      BY DEF Held
    <3>2. x \in Loc /\ x.key = k
      BY DEF LocsOf
    <3>3. Sibling(m, l)
      BY <2>0, <3>1, <3>2 DEF Sibling
    <3>4. m = g
      BY <1>0, <1>3, <2>0, <2>1, <3>3 DEF MissingOnlyAlone
    <3>5. g \in alive
      BY <3>1, <3>4 DEF PlaceInv, NodeInPlace, Quiescent
    <3>6. HolderAt(LastVersion, x) \in {g, NoNode}
      BY <1>0, <3>1, <3>2, <3>4, <3>5 DEF NoStray, Stray
    <3>7. HolderAt(LastVersion, x) # NoNode
      <4>1. Map(LastVersion).ids[k] # << >>
        BY <1>3, <2>0 DEF HolderAt, Holder
      <4>2. IsClusterMap(Map(LastVersion))
        BY <1>0, SurvivorType
      <4> QED BY <3>2, <4>1, <4>2, HolderType, NoNodeAssumption DEF HolderAt
    <3> QED BY <3>1, <3>4, <3>6, <3>7
  <2>3. l \notin T /\ l \in G
    BY <1>3, <2>1, <2>2
  <2>4. Cardinality(G) <= K
    <3>1. G = {x \in LocsOf(k) : Holder(history[LastVersion], x) = g}
      BY DEF HolderAt, Map
    <3> HIDE DEF G
    <3> QED BY <1>1, <3>1 DEF LastMapSpreads
  <2>5. T \cup {l} \subseteq G /\ G \subseteq LocsOf(k)
    BY <2>2, <2>3
  <2>6. Cardinality(T) >= K
    OBVIOUS
  <2> HIDE DEF T, G
  <2>7. /\ T \in SUBSET G /\ T \cup {l} \in SUBSET G /\ G \in SUBSET LocsOf(k)
        /\ T \in SUBSET LocsOf(k)
    BY <2>5
  <2>8. IsFiniteSet(T) /\ Cardinality(T) \in Nat
    BY <2>7, CountMonotone
  <2>9. /\ Cardinality(T \cup {l}) \in Nat /\ Cardinality(G) \in Nat
        /\ Cardinality(T \cup {l}) <= Cardinality(G)
    BY <2>7, CountMonotone
  <2>10. Cardinality(T \cup {l}) = Cardinality(T) + 1
    BY <2>3, <2>8, FS_AddElement
  <2> QED BY <2>4, <2>6, <2>8, <2>9, <2>10, SizeAssumption
<1> DEFINE lost == {l \in LocsOf(k) :
                      LET h == HolderAt(LastVersion, l)
                      IN  h # NoNode /\ (h \notin alive \/ l \notin store[h])}
<1>4. lost = {}
  <2> SUFFICES ASSUME NEW l \in lost PROVE FALSE
    OBVIOUS
  <2>1. l \in LocsOf(k) /\ l \in Loc /\ HolderAt(LastVersion, l) # NoNode
    BY DEF LocsOf
  <2>2. HolderAt(LastVersion, l) \in alive
    BY <1>0, <2>1, HolderSurvives DEF Survivor, Quiescent
  <2> QED BY <1>3, <2>1, <2>2
<1>5. NLost(n, k) = Cardinality(lost)
  BY <1>2 DEF NLost
<1> HIDE DEF lost
<1> QED BY <1>4, <1>5, FS_EmptySet

\* ... and so, when the last map gives no node more pieces of a key than
\* suffice to rebuild it, every key with K pieces left is complete again
\* (sanity_check counts no lost piece), unless one of those windows was hit.
THEOREM HealedUnlessWindow ==
    ASSUME LastMapSpreads
    PROVE  Spec /\ [][CleanStep /\ HealStep]_vars => []QuiescentHealed
<1>1. [CleanStep /\ HealStep]_vars => [CleanStep]_vars /\ [HealStep]_vars
  OBVIOUS
<1>2. PlaceInv /\ HealInv /\ IoInv => QuiescentHealed
  BY HealedFromInvariants
<1> QED
  BY <1>1, <1>2, PlaceInit, PlaceStep, HealInit, HealNext, IoInit, IoStep, PTL
  DEF Spec

==============================================================================
