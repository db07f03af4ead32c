------------------------------ MODULE ReadProofs ------------------------------
(***************************************************************************)
(* A read overlooks only what moves: the theorem behind FindsWhatStands,   *)
(* for every cluster, history of maps, placement of pieces and number of   *)
(* faults.                                                                 *)
(***************************************************************************)
EXTENDS Read, StorageProofs

\* During the broadcast each copy that stands has been found or is still to
\* be asked for.
Covered(r) ==
    r.st = "bcast" =>
        /\ r.wait \subseteq {0} \X Node
        /\ \A p \in r.stood : p[2] \in r.found \/ <<0, p[1]>> \in r.wait

\* What stands is there.
Stands(r) ==
    \A p \in r.stood : [key |-> r.key, index |-> p[2]] \in store[p[1]]

ReadInv ==
    /\ TypeOK
    /\ reads \in SUBSET ReadOp
    /\ \A r \in reads :
          /\ Cardinality(r.found) < K
          /\ Covered(r) /\ Stands(r)

LEMMA PiecesAtType ==
    ASSUME TypeOK, NEW m \in Node, NEW k
    PROVE  PiecesAt(m, k) \in SUBSET Index
BY DEF PiecesAt, TypeOK, Loc

LEMMA IndexFinite == IsFiniteSet(Index)
<1>1. 0 \in Int /\ N-1 \in Int
  BY SizeAssumption
<1> QED BY ONLY <1>1, FS_Interval DEF Index

LEMMA NothingFound == IsFiniteSet({}) /\ Cardinality({}) < K
<1>1. K \in Nat \ {0}
  BY SizeAssumption
<1> QED BY <1>1, FS_EmptySet

\* Fewer than K pieces are found where K stand.
LEMMA InvImplies == ReadInv => FindsWhatStands
<1> SUFFICES ASSUME ReadInv, NEW r \in reads, GivesUp(r)
             PROVE  Cardinality({p[2] : p \in r.stood}) < K
  BY DEF FindsWhatStands
<1>1. {p[2] : p \in r.stood} \subseteq r.found
  BY DEF ReadInv, Covered, GivesUp
<1>2. IsFiniteSet(r.found)
  <2>1. IsFiniteSet(Index)
    BY SizeAssumption, FS_Interval DEF Index
  <2>2. r.found \subseteq Index
    BY DEF ReadInv, ReadOp
  <2> QED BY <2>1, <2>2, FS_Subset
<1>3. /\ Cardinality({p[2] : p \in r.stood}) \in Nat
      /\ Cardinality({p[2] : p \in r.stood}) <= Cardinality(r.found)
      /\ Cardinality(r.found) \in Nat
  BY <1>1, <1>2, FS_Subset, FS_CardinalityType
<1>4. Cardinality(r.found) < K /\ K \in Nat
  BY SizeAssumption DEF ReadInv
<1> QED BY <1>3, <1>4

LEMMA BeginReadInv ==
    ASSUME ReadInv, NEW n \in Node, NEW k \in Key, BeginRead(n, k)
    PROVE  ReadInv'
<1>1. TypeOK'
  BY DEF BeginRead, ReadInv, vars, TypeOK, world, maps, stabVars, rebuildVars,
         aux
<1> DEFINE v == view[n].io
<1>2. v \in Version
  BY DEF ReadInv, TypeOK, ViewName
<1>3. ScanAsks(v, k) \in SUBSET Ask
  BY <1>2, ScanAsksType DEF ReadInv, TypeOK
<1>4. PICK x :
         /\ reads' = {x}
         /\ x = [node |-> n, key |-> k, version |-> v, st |-> "scan",
                 wait |-> ScanAsks(v, k), found |-> {}, stood |-> {}]
  BY DEF BeginRead
<1> HIDE DEF v
<1>5. x \in ReadOp /\ x.found = {} /\ x.stood = {} /\ x.st = "scan"
  BY <1>2, <1>3, <1>4 DEF ReadOp
<1>6. Covered(x)' /\ Stands(x)'
  BY <1>5 DEF Covered, Stands
<1> QED BY <1>1, <1>4, <1>5, <1>6, NothingFound DEF ReadInv

LEMMA ReadReplyInv ==
    ASSUME ReadInv, NEW r \in reads, ReadReply(r)
    PROVE  ReadInv'
<1>1. TypeOK' /\ UNCHANGED store
  BY DEF ReadReply, ReadInv, vars, TypeOK, world, maps, stabVars, rebuildVars,
         aux
<1>2. PICK a \in r.wait :
         LET found == r.found \cup PiecesAt(a[2], r.key)
         IN  /\ a[2] \in alive
             /\ reads' = IF Cardinality(found) >= K THEN {}
                         ELSE {[r EXCEPT !.wait = @ \ {a}, !.found = found]}
  BY DEF ReadReply
<1> DEFINE found == r.found \cup PiecesAt(a[2], r.key)
<1>3. CASE Cardinality(found) >= K
  <2>1. reads' = {}
    BY <1>2, <1>3
  <2> QED BY <1>1, <2>1 DEF ReadInv
<1>4. CASE ~(Cardinality(found) >= K)
  <2>1. PICK x : /\ reads' = {x}
                 /\ x = [r EXCEPT !.wait = @ \ {a}, !.found = found]
    BY <1>2, <1>4
  <2>2. r \in ReadOp /\ a \in Ask /\ a[2] \in Node
    BY DEF ReadInv, ReadOp, Ask
  <2>3. found \in SUBSET Index
    BY <2>2, PiecesAtType DEF ReadInv, ReadOp
  <2>4. Cardinality(found) < K
    <3>1. IsFiniteSet(found)
      BY <2>3, IndexFinite, FS_Subset
    <3>2. Cardinality(found) \in Nat
      BY <3>1, FS_CardinalityType
    <3> QED BY <1>4, <3>2, SizeAssumption
  <2> HIDE DEF found
  <2>5. /\ x \in ReadOp /\ x.found = found /\ x.wait = r.wait \ {a}
        /\ x.stood = r.stood /\ x.st = r.st /\ x.key = r.key
    BY <2>1, <2>2, <2>3 DEF ReadOp
  <2>6. Stands(r) /\ Covered(r)
    BY DEF ReadInv
  <2>7. Stands(x)'
    BY <1>1, <2>5, <2>6 DEF Stands
  <2>8. ASSUME r.st = "bcast", NEW p \in r.stood
        PROVE  p[2] \in found \/ <<0, p[1]>> \in r.wait \ {a}
    <3>1. CASE <<0, p[1]>> = a
      <4>1. [key |-> r.key, index |-> p[2]] \in store[a[2]]
        BY <2>6, <2>8, <3>1 DEF Stands
      <4>2. p[2] \in PiecesAt(a[2], r.key)
        BY <4>1 DEF PiecesAt
      <4> QED BY <4>2 DEF found
    <3>2. CASE <<0, p[1]>> # a
      BY <2>6, <2>8, <3>2 DEF Covered, found
    <3> QED BY <3>1, <3>2
  <2>9. Covered(x)'
    BY <2>5, <2>6, <2>8 DEF Covered
  <2> QED BY <1>1, <2>1, <2>4, <2>5, <2>7, <2>9 DEF ReadInv
<1> QED BY <1>3, <1>4

LEMMA ReadTimeoutInv ==
    ASSUME ReadInv, NEW r \in reads, ReadTimeout(r)
    PROVE  ReadInv'
<1>1. TypeOK' /\ UNCHANGED store
  BY DEF ReadTimeout, ReadInv, vars, TypeOK, world, maps, stabVars,
         rebuildVars, aux
<1>2. PICK a \in r.wait :
         reads' = {[r EXCEPT !.wait = @ \ {a},
                             !.stood = {p \in @ : p[1] # a[2]}]}
  BY DEF ReadTimeout
<1> DEFINE x == [r EXCEPT !.wait = @ \ {a},
                          !.stood = {p \in @ : p[1] # a[2]}]
<1>3. r \in ReadOp /\ Cardinality(r.found) < K /\ Covered(r) /\ Stands(r)
  BY DEF ReadInv
<1>4. /\ x \in ReadOp /\ x.wait = r.wait \ {a} /\ x.found = r.found
      /\ x.stood = {p \in r.stood : p[1] # a[2]}
      /\ x.st = r.st /\ x.key = r.key
  BY <1>3 DEF ReadOp
<1>5. reads' = {x}
  BY <1>2
<1> HIDE DEF x
<1>6. Stands(x)'
  BY <1>1, <1>3, <1>4 DEF Stands
<1>7. Covered(x)'
  <2> SUFFICES ASSUME r.st = "bcast"
               PROVE  /\ r.wait \ {a} \subseteq {0} \X Node
                      /\ \A p \in x.stood : \/ p[2] \in r.found
                                            \/ <<0, p[1]>> \in r.wait \ {a}
    BY <1>4 DEF Covered
  <2>1. r.wait \subseteq {0} \X Node
    BY <1>3 DEF Covered
  <2>2. ASSUME NEW p \in x.stood
        PROVE  p[2] \in r.found \/ <<0, p[1]>> \in r.wait \ {a}
    <3>1. p \in r.stood /\ p[1] # a[2]
      BY <1>4, <2>2
    <3>2. <<0, p[1]>> # a
      BY <3>1
    <3> QED BY <1>3, <3>1, <3>2 DEF Covered
  <2> QED BY <2>1, <2>2
<1> QED BY <1>1, <1>3, <1>4, <1>5, <1>6, <1>7 DEF ReadInv

LEMMA ReadBroadcastInv ==
    ASSUME ReadInv, NEW r \in reads, ReadBroadcast(r)
    PROVE  ReadInv'
<1>1. TypeOK' /\ UNCHANGED store
  BY DEF ReadBroadcast, ReadInv, vars, TypeOK, world, maps, stabVars,
         rebuildVars, aux
<1> DEFINE M == Map(r.version).members
           S == UNION {{m} \X PiecesAt(m, r.key) : m \in M \cap alive}
<1>2. r \in ReadOp /\ r.version \in Version /\ r.key \in Key
  BY DEF ReadInv, ReadOp
<1>3. {0} \X M \in SUBSET Ask /\ M \in SUBSET Node
  <2>1. history \in Histories
    BY DEF ReadInv, TypeOK
  <2> QED BY <1>2, <2>1, ScanAsksType, HistoryAssumption DEF Map, IsClusterMap
<1>4. \A p \in S : /\ p[1] \in M /\ p \in Node \X Index
                   /\ p[2] \in PiecesAt(p[1], r.key)
  <2>1. \A m \in M \cap alive : PiecesAt(m, r.key) \in SUBSET Index
    BY <1>3, PiecesAtType DEF ReadInv
  <2> QED BY <1>3, <2>1
<1>5. PICK x :
         /\ reads' = {x}
         /\ x = [r EXCEPT !.st = "bcast", !.found = {}, !.wait = {0} \X M,
                          !.stood = S]
  BY DEF ReadBroadcast
<1> HIDE DEF M, S
<1>6. /\ x \in ReadOp /\ x.found = {} /\ x.wait = {0} \X M /\ x.stood = S
      /\ x.key = r.key
  BY <1>2, <1>3, <1>4, <1>5 DEF ReadOp
<1>7. Covered(x)'
  BY <1>3, <1>4, <1>6 DEF Covered
<1>8. Stands(x)'
  <2> SUFFICES ASSUME NEW p \in S
               PROVE  [key |-> r.key, index |-> p[2]] \in store[p[1]]
    BY <1>1, <1>6 DEF Stands
  <2>1. p[1] \in Node /\ p[2] \in PiecesAt(p[1], r.key)
    BY <1>4
  <2>2. PICK l \in store[p[1]] : l.key = r.key /\ l.index = p[2]
    BY <2>1 DEF PiecesAt
  <2>3. l = [key |-> r.key, index |-> p[2]]
    BY <2>1, <2>2 DEF ReadInv, TypeOK, Loc
  <2> QED BY <2>2, <2>3
<1> QED BY <1>1, <1>5, <1>6, <1>7, <1>8, NothingFound DEF ReadInv

LEMMA ClusterStepInv ==
    ASSUME ReadInv, ClusterStep
    PROVE  ReadInv'
<1>1. TypeOK'
  BY NextType DEF ReadInv, ClusterStep
<1>2. ASSUME NEW x \in reads'
      PROVE  /\ x \in ReadOp /\ Cardinality(x.found) < K
             /\ Covered(x)' /\ Stands(x)'
  <2>1. PICK r \in reads :
           x = [r EXCEPT !.stood =
                   {p \in @ : /\ p[1] \in alive'
                              /\ [key |-> r.key, index |-> p[2]]
                                    \in store'[p[1]]}]
    BY DEF ClusterStep
  <2>2. r \in ReadOp /\ Cardinality(r.found) < K /\ Covered(r)
    BY DEF ReadInv
  <2>3. /\ x \in ReadOp /\ x.found = r.found /\ x.wait = r.wait
        /\ x.st = r.st /\ x.key = r.key /\ x.stood \subseteq r.stood
        /\ \A p \in x.stood :
              [key |-> r.key, index |-> p[2]] \in store'[p[1]]
    BY <2>1, <2>2 DEF ReadOp
  <2>4. Covered(x)'
    BY <2>2, <2>3 DEF Covered
  <2>5. Stands(x)'
    BY <2>3 DEF Stands
  <2> QED BY <2>2, <2>3, <2>4, <2>5
<1>3. \A x \in reads' : /\ x \in ReadOp /\ Cardinality(x.found) < K
                        /\ Covered(x)' /\ Stands(x)'
  BY <1>2
<1> QED BY <1>1, <1>3 DEF ReadInv

LEMMA ReadStep == ReadInv /\ [ReadNext]_readVars => ReadInv'
<1> SUFFICES ASSUME ReadInv, [ReadNext]_readVars PROVE ReadInv'
  OBVIOUS
<1>1. ASSUME NEW r \in reads, ReadLost(r) PROVE ReadInv'
  <2>1. TypeOK' /\ reads' = {}
    BY <1>1 DEF ReadLost, ReadInv, vars, TypeOK, world, maps, stabVars,
                rebuildVars, aux
  <2> QED BY <2>1 DEF ReadInv
<1>2. CASE UNCHANGED readVars
  BY <1>2 DEF readVars, ReadInv, Covered, Stands, vars, TypeOK, world, maps,
              stabVars, rebuildVars, aux
<1> QED
  BY <1>1, <1>2, BeginReadInv, ReadReplyInv, ReadTimeoutInv, ReadBroadcastInv,
     ClusterStepInv DEF ReadNext

\* A read that reports lost data overlooks only what moved, was deleted or was
\* out of reach during its broadcast (rebuild.rs): everywhere else fewer than
\* K pieces were left.
THEOREM ReadFindsWhatStands == ReadSpec => []FindsWhatStands
<1>1. ReadInit => ReadInv
  BY InitType DEF ReadInit, ReadInv
<1> QED BY <1>1, ReadStep, InvImplies, PTL DEF ReadSpec

===============================================================================
