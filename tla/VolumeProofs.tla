------------------------------ MODULE VolumeProofs ------------------------------
(***************************************************************************)
(* Volume for every set of keys, indexes and rows: an unclean volume is    *)
(* never used, a volume is set up whole, and the table of rows implements  *)
(* the set of pieces a PieceStore promises, over any number of restarts.   *)
(* So does the piece store in memory, while its process runs.              *)
(***************************************************************************)
EXTENDS MCVolume, TLAPS

Whole == {"snapshots", "raft_log", "piecedb"} \subseteq disk

\* What makes the properties inductive: the dead_flag is there while a node
\* runs, a volume without one is new or whole, and what the setup of a
\* volume has created is known from where it is.
LifeInv ==
    /\ unclean => pc = "down" /\ "dead_flag" \in disk
    /\ pc \notin {"down", "checked"} => "dead_flag" \in disk
    /\ "dead_flag" \notin disk => disk = {} \/ "init_flag" \in disk
    /\ "init_flag" \in disk => Whole
    /\ pc = "checked" => "dead_flag" \notin disk
    /\ pc = "snapshots" => disk = {"dead_flag"}
    /\ pc = "raft_log" => disk = {"dead_flag", "snapshots"}
    /\ pc = "piecedb" => disk = {"dead_flag", "snapshots", "raft_log"}
    /\ pc = "init_flag" => Whole
    /\ pc \in Running \cup {"open"} => "init_flag" \in disk
    /\ pc \notin Running => answer = [op |-> "none"]

IInv == TypeOK /\ LifeInv

LEMMA InitInv == Init => IInv
BY DEF Init, IInv, TypeOK, LifeInv, Whole, Pc, Running, File, Row

\* A call changes the rows, and keeps their ids apart.
LEMMA CallRows ==
    ASSUME TypeOK, Call
    PROVE  rows' \subseteq Row /\ \A q, r \in rows' : q.id = r.id => q = r
<1>1. CASE UNCHANGED rows
  BY <1>1 DEF TypeOK
<1>2. ASSUME NEW key \in Key, NEW idx \in Index, put_piece(key, idx)
      PROVE  rows' \subseteq Row /\ \A q, r \in rows' : q.id = r.id => q = r
  <2>1. PICK id \in RowId : /\ \A r \in rows : r.id # id
                            /\ rows' = rows \cup {[id |-> id, key |-> key, idx |-> idx]}
    BY <1>2 DEF put_piece
  <2> QED BY <2>1 DEF TypeOK, Row
<1>3. ASSUME NEW key \in Key, NEW idx \in Index, delete_piece(key, idx)
      PROVE  rows' \subseteq Row /\ \A q, r \in rows' : q.id = r.id => q = r
  BY <1>3 DEF delete_piece, TypeOK
<1> QED BY <1>1, <1>2, <1>3 DEF Call, get_pieces, get_piece, piece_exists, keys

LEMMA NextInv == IInv /\ [Next]_vars => IInv'
<1> SUFFICES ASSUME IInv, [Next]_vars PROVE IInv'
  OBVIOUS
<1> USE DEF IInv
<1>1. CASE Call
  <2>1. UNCHANGED <<disk, pc, unclean>> /\ pc \in Running
    BY <1>1 DEF Call, lifeVars
  <2> QED BY <1>1, <2>1, CallRows DEF TypeOK, LifeInv, Whole
<1>2. CASE UNCHANGED vars
  BY <1>2 DEF vars, TypeOK, LifeInv, Whole
<1>3. CASE Lifecycle
  <2> USE DEF TypeOK, LifeInv, Whole, Pc, Running, File
  <2>1. CASE Start BY <2>1 DEF Start
  <2>2. CASE WriteDeadFlag BY <2>2 DEF WriteDeadFlag
  <2>3. CASE CreateSnapshots BY <2>3 DEF CreateSnapshots
  <2>4. CASE CreateRaftLog BY <2>4 DEF CreateRaftLog
  <2>5. CASE CreatePieceDb BY <2>5 DEF CreatePieceDb
  <2>6. CASE WriteInitFlag BY <2>6 DEF WriteInitFlag
  <2>7. CASE Serve BY <2>7 DEF Serve
  <2>8. CASE Signal \/ Drained
    <3>1. /\ UNCHANGED <<rows, answer, disk, unclean>>
          /\ pc \in {"serving", "draining"} /\ pc' \in {"draining", "drained"}
      BY <2>8 DEF Signal, Drained
    <3> QED BY <3>1
  <2>9. CASE RemoveDeadFlag BY <2>9 DEF RemoveDeadFlag
  <2>10. CASE Kill
    <3>1. /\ pc # "down" /\ pc' = "down" /\ disk' = disk /\ rows' = rows
          /\ answer' = [op |-> "none"]
      BY <2>10 DEF Kill
    <3>2. unclean' \in BOOLEAN /\ (unclean' => pc # "checked")
      BY <2>10 DEF Kill
    <3> QED BY <3>1, <3>2
  <2>11. CASE Clean
    <3>1. /\ pc = "down" /\ pc' = "down" /\ disk' = {} /\ rows' = {}
          /\ unclean' = FALSE /\ answer' = answer
      BY <2>11 DEF Clean
    <3>2. answer' = [op |-> "none"] BY <3>1
    <3> QED BY <3>1, <3>2
  <2> QED BY <1>3, <2>1, <2>2, <2>3, <2>4, <2>5, <2>6, <2>7, <2>8, <2>9, <2>10,
            <2>11 DEF Lifecycle
<1> QED BY <1>1, <1>2, <1>3 DEF Next

LEMMA Inductive == Spec => []IInv
BY InitInv, NextInv, PTL DEF Spec

\* The rows are rows of the table, each with an id of its own.
THEOREM VolumeTypeOK == Spec => []TypeOK
<1>1. IInv => TypeOK BY DEF IInv
<1> QED BY <1>1, Inductive, PTL

\* A volume that a node has left uncleanly has its dead_flag, and no node
\* gets past it (main.rs 24-28, 180).
THEOREM UncleanIsNotUsed == Spec => []NeverAfterUncleanEnd
<1>1. IInv => NeverAfterUncleanEnd BY DEF IInv, LifeInv, NeverAfterUncleanEnd
<1> QED BY <1>1, Inductive, PTL

\* Who serves has the whole volume, who sets one up finds an empty one
\* (main.rs 30-47).
THEOREM SetUpWhole == Spec => []SetUpIsWhole
<1>1. IInv => SetUpIsWhole
  BY DEF IInv, TypeOK, LifeInv, SetUpIsWhole, Whole, Running, Pc
<1> QED BY <1>1, Inductive, PTL

------------------------------------------------------------------------------
\* The pieces of the table are locations, and those of a key are what its
\* rows say.
LEMMA PiecesOf ==
    ASSUME TypeOK
    PROVE  /\ \A key \in Key : {r.idx : r \in {r \in rows : r.key = key}}
                                 = {i \in Index : <<key, i>> \in Pieces}
           /\ \A key \in Key, idx \in Index :
                 Where(key, idx) # {} <=> <<key, idx>> \in Pieces
           /\ {r.key : r \in rows} = {k \in Key : \E i \in Index : <<k, i>> \in Pieces}
<1>1. \A r \in rows : r.key \in Key /\ r.idx \in Index
  BY DEF TypeOK, Row
<1> QED BY <1>1 DEF Pieces, Where

\* Every call is one of a set of pieces.
LEMMA CallImplements ==
    ASSUME IInv, Call PROVE Store!Next
<1> DEFINE Open == pc \in Running
<1>0. Open /\ Open' = Open
  BY DEF Call, lifeVars
<1>1. ASSUME NEW key \in Key, NEW idx \in Index, put_piece(key, idx)
      PROVE  Store!put_piece(<<key, idx>>)
  <2>1. Pieces' = Pieces \cup {<<key, idx>>}
    <3>1. PICK id \in RowId : rows' = rows \cup {[id |-> id, key |-> key, idx |-> idx]}
      BY <1>1 DEF put_piece
    <3> DEFINE new == [id |-> id, key |-> key, idx |-> idx]
    <3>2. new.key = key /\ new.idx = idx OBVIOUS
    <3> HIDE DEF new
    <3>3. rows' = rows \cup {new} BY <3>1 DEF new
    <3> QED BY <3>2, <3>3 DEF Pieces
  <2>2. Understood' = [op |-> "put_piece", loc |-> <<key, idx>>]
    BY <1>1 DEF put_piece, Understood
  <2> QED BY <1>0, <2>1, <2>2 DEF Store!put_piece, Store!Answer
<1>2. ASSUME NEW key \in Key, NEW idx \in Index, delete_piece(key, idx)
      PROVE  Store!delete_piece(<<key, idx>>)
  <2>1. Pieces' = Pieces \ {<<key, idx>>}
    BY <1>2 DEF delete_piece, Pieces, Where
  <2>2. Understood' = [op |-> "delete_piece", loc |-> <<key, idx>>]
    BY <1>2 DEF delete_piece, Understood
  <2> QED BY <1>0, <2>1, <2>2 DEF Store!delete_piece, Store!Answer
<1>3. ASSUME NEW key \in Key, NEW idx \in Index, get_piece(key, idx)
      PROVE  Store!get_piece(<<key, idx>>)
  <2>1. Pieces' = Pieces
    BY <1>3 DEF get_piece, Pieces
  <2>2. Understood' = [op |-> "get_piece", loc |-> <<key, idx>>,
                       found |-> Where(key, idx) # {}]
    BY <1>3 DEF get_piece, Understood
  <2>3. (Where(key, idx) # {}) = (<<key, idx>> \in Pieces)
    BY PiecesOf DEF IInv
  <2> QED BY <1>0, <2>1, <2>2, <2>3 DEF Store!get_piece, Store!Answer
<1>4. ASSUME NEW key \in Key, NEW idx \in Index, piece_exists(key, idx)
      PROVE  Store!piece_exists(<<key, idx>>)
  <2>1. Pieces' = Pieces
    BY <1>4 DEF piece_exists, Pieces
  <2>2. Understood' = [op |-> "piece_exists", loc |-> <<key, idx>>,
                       found |-> Where(key, idx) # {}]
    BY <1>4 DEF piece_exists, Understood
  <2>3. (Where(key, idx) # {}) = (<<key, idx>> \in Pieces)
    BY PiecesOf DEF IInv
  <2> QED BY <1>0, <2>1, <2>2, <2>3 DEF Store!piece_exists, Store!Answer
<1>5. ASSUME NEW key \in Key, get_pieces(key)
      PROVE  Store!get_pieces(key)
  <2>1. Pieces' = Pieces
    BY <1>5 DEF get_pieces, Pieces
  <2>2. Understood' = [op |-> "get_pieces", key |-> key,
                       indexes |-> {r.idx : r \in {r \in rows : r.key = key}}]
    BY <1>5 DEF get_pieces, Understood
  <2>3. Understood' = [op |-> "get_pieces", key |-> key,
                       indexes |-> {i \in Index : <<key, i>> \in Pieces}]
    BY <2>2, PiecesOf DEF IInv
  <2> QED BY <1>0, <2>1, <2>3 DEF Store!get_pieces, Store!Answer
<1>6. ASSUME keys PROVE Store!keys
  <2>1. Pieces' = Pieces
    BY <1>6 DEF keys, Pieces
  <2>2. Understood' = [op |-> "keys", keys |-> {r.key : r \in rows}]
    BY <1>6 DEF keys, Understood
  <2>3. Understood' = [op |-> "keys", keys |->
                        {k \in Key : \E i \in Index : <<k, i>> \in Pieces}]
    BY <2>2, PiecesOf DEF IInv
  <2> QED BY <1>0, <2>1, <2>3 DEF Store!keys, Store!Answer
<1>7. \A key \in Key, idx \in Index : <<key, idx>> \in Store!Loc
  BY DEF Store!Loc
<1> QED BY <1>1, <1>2, <1>3, <1>4, <1>5, <1>6, <1>7 DEF Call, Store!Next

\* The life of a node is a start, a stop, a cleaning of the store, or nothing.
LEMMA LifecycleImplements ==
    ASSUME IInv, Lifecycle
    PROVE  \/ Store!Start \/ Store!Stop \/ Store!Clean
           \/ UNCHANGED <<pc \in Running, Pieces, Understood>>
<1> USE DEF IInv, Running
<1>1. CASE Clean
  BY <1>1 DEF Clean, Store!Clean, Pieces, Understood
<1>2. rows' = rows => Pieces' = Pieces
  BY DEF Pieces
<1>3. answer' = answer => Understood' = Understood
  BY DEF Understood
<1>4. CASE Serve
  BY <1>2, <1>3, <1>4 DEF Serve, Store!Start
<1>5. CASE RemoveDeadFlag \/ Kill
  <2>1. rows' = rows /\ pc' = "down" /\ answer' = [op |-> "none"]
    BY <1>5 DEF RemoveDeadFlag, Kill
  <2>2. Understood' = [op |-> "none"]
    BY <2>1 DEF Understood
  <2>3. CASE pc \in Running
    BY <1>2, <2>1, <2>2, <2>3 DEF Store!Stop
  <2>4. CASE pc \notin Running
    BY <1>2, <1>3, <2>1, <2>4 DEF LifeInv
  <2> QED BY <2>3, <2>4
<1>6. CASE \/ Start \/ WriteDeadFlag \/ CreateSnapshots \/ CreateRaftLog
           \/ CreatePieceDb \/ WriteInitFlag \/ Signal \/ Drained
  <2>1. rows' = rows /\ answer' = answer
    BY <1>6 DEF Start, WriteDeadFlag, CreateSnapshots, CreateRaftLog, CreatePieceDb,
       WriteInitFlag, Signal, Drained
  <2>2. (pc \in Running) = (pc' \in Running)
    BY <1>6 DEF Start, WriteDeadFlag, CreateSnapshots, CreateRaftLog, CreatePieceDb,
       WriteInitFlag, Signal, Drained
  <2> QED BY <1>2, <1>3, <2>1, <2>2
<1> QED BY <1>1, <1>4, <1>5, <1>6 DEF Lifecycle

\* Callers of a node's store see a set of pieces that lasts as long as the
\* volume, whatever rows it has and however its nodes end (sqlite/mod.rs).
THEOREM VolumeImplementsPieceStore == Spec => ImplementsPieceStore
<1>1. Init => Store!Init
  BY DEF Init, Store!Init, Pieces, Understood, Running
<1>2. IInv /\ [Next]_vars => [Store!Next]_(Store!vars)
  <2> SUFFICES ASSUME IInv, [Next]_vars PROVE [Store!Next]_(Store!vars)
    OBVIOUS
  <2>1. CASE Call BY <2>1, CallImplements
  <2>2. CASE Lifecycle
    BY <2>2, LifecycleImplements DEF Store!Next, Store!vars
  <2>3. CASE UNCHANGED vars
    BY <2>3 DEF vars, Store!vars, Pieces, Understood
  <2> QED BY <2>1, <2>2, <2>3 DEF Next
<1> QED BY <1>1, <1>2, Inductive, PTL DEF Spec, Store!Spec, ImplementsPieceStore

------------------------------------------------------------------------------
(* -- The piece store in memory: it never answers with a key that has no    *)
(* piece. *)


\* No bucket is empty, and there is none when the process has ended.
BucketsOK ==
    /\ DOMAIN buckets \subseteq Key
    /\ \A k \in DOMAIN buckets : buckets[k] \subseteq Index /\ buckets[k] # {}
    /\ pc \notin Running => buckets = << >> /\ memAnswer = [op |-> "none"]

LEMMA PieceOfBucket ==
    ASSUME NEW p
    PROVE  p \in Mem!MemPieces
              <=> \E k \in DOMAIN buckets : \E i \in buckets[k] : p = <<k, i>>
BY DEF Mem!MemPieces

\* The pieces of a key are the objects of its bucket.
LEMMA ObjectsArePieces ==
    ASSUME BucketsOK, NEW key, NEW idx
    PROVE  <<key, idx>> \in Mem!MemPieces <=> idx \in Mem!Objects(key)
BY PieceOfBucket DEF Mem!Objects

\* The buckets after a call that gave the key these objects.
LEMMA BucketSet ==
    ASSUME BucketsOK, NEW key \in Key, NEW objects \in SUBSET Index,
           Mem!SetBucket(key, objects)
    PROVE  /\ \A k : k \in DOMAIN buckets' <=>
                  IF k = key THEN objects # {} ELSE k \in DOMAIN buckets
           /\ \A k \in DOMAIN buckets' :
                  buckets'[k] = IF k = key THEN objects ELSE buckets[k]
BY DEF Mem!SetBucket

LEMMA BucketsStay ==
    ASSUME BucketsOK, NEW key \in Key, NEW objects \in SUBSET Index,
           Mem!SetBucket(key, objects), pc' = pc, pc \in Running
    PROVE  BucketsOK'
BY BucketSet DEF BucketsOK

\* The calls change one bucket or none.
LEMMA CallsKeep ==
    ASSUME BucketsOK, BothCalled
    PROVE  BucketsOK'
<1>1. pc' = pc /\ pc \in Running
  BY DEF BothCalled, lifeVars
<1>2. \A key : Mem!Objects(key) \subseteq Index
  BY DEF BucketsOK, Mem!Objects
<1>3. ASSUME NEW key \in Key, NEW idx \in Index,
             Mem!put_piece(key, idx) \/ Mem!delete_piece(key, idx)
      PROVE  BucketsOK'
  <2>1. \E objects \in SUBSET Index : Mem!SetBucket(key, objects)
    BY <1>2, <1>3 DEF Mem!put_piece, Mem!delete_piece
  <2> QED BY <1>1, <2>1, BucketsStay
<1>4. ASSUME UNCHANGED buckets PROVE BucketsOK'
  BY <1>1, <1>4 DEF BucketsOK
<1> QED
  BY <1>3, <1>4
  DEF BothCalled, Mem!get_piece, Mem!piece_exists, Mem!get_pieces, Mem!keys

LEMMA BucketsInit == MCInit => BucketsOK
BY DEF MCInit, BucketsOK, Init, Running

LEMMA BucketsStep == BucketsOK /\ [MCNext]_<<vars, memVars>> => BucketsOK'
<1> SUFFICES ASSUME BucketsOK, [MCNext]_<<vars, memVars>> PROVE BucketsOK'
  OBVIOUS
<1>1. CASE UNCHANGED <<vars, memVars>>
  BY <1>1 DEF vars, memVars, BucketsOK
<1>2. CASE Lifecycle /\ pc \in Running /\ pc' \notin Running
           /\ buckets' = << >> /\ memAnswer' = [op |-> "none"]
  BY <1>2 DEF BucketsOK
<1>3. CASE Lifecycle /\ ~(pc \in Running /\ pc' \notin Running) /\ UNCHANGED memVars
  BY <1>3 DEF BucketsOK, memVars
<1> QED BY <1>1, <1>2, <1>3, CallsKeep DEF MCNext

------------------------------------------------------------------------------
\* What a call does to the pieces, by what it does to one bucket.
LEMMA PiecesSet ==
    ASSUME BucketsOK, NEW key \in Key, NEW objects \in SUBSET Index,
           Mem!SetBucket(key, objects)
    PROVE  \A p : p \in Mem!MemPieces' <=>
              \/ \E i \in objects : p = <<key, i>>
              \/ p \in Mem!MemPieces /\ p[1] # key
<1> TAKE p
<1>1. p \in Mem!MemPieces'
         <=> \E k \in DOMAIN buckets' : \E i \in buckets'[k] : p = <<k, i>>
  BY DEF Mem!MemPieces
<1>2. ASSUME NEW k \in DOMAIN buckets', NEW i \in buckets'[k], p = <<k, i>>
      PROVE  \/ \E j \in objects : p = <<key, j>>
             \/ p \in Mem!MemPieces /\ p[1] # key
  BY <1>2, BucketSet, PieceOfBucket
<1>3. ASSUME NEW i \in objects, p = <<key, i>> PROVE p \in Mem!MemPieces'
  BY <1>1, <1>3, BucketSet
<1>4. ASSUME p \in Mem!MemPieces, p[1] # key PROVE p \in Mem!MemPieces'
  <2>1. PICK k \in DOMAIN buckets : \E i \in buckets[k] : p = <<k, i>>
    BY <1>4, PieceOfBucket
  <2>2. k # key
    BY <1>4, <2>1
  <2> QED BY <1>1, <2>1, <2>2, BucketSet
<1> QED BY <1>1, <1>2, <1>3, <1>4

LEMMA MemCallImplements ==
    ASSUME BucketsOK, BothCalled
    PROVE  MemStoreSpec!Next
<1> DEFINE Open == pc \in Running
<1>0. Open /\ Open' = Open
  BY DEF BothCalled, lifeVars
<1>1. \A key : Mem!Objects(key) \subseteq Index
  BY DEF BucketsOK, Mem!Objects
<1>2. UNCHANGED buckets => Mem!MemPieces' = Mem!MemPieces
  BY DEF Mem!MemPieces
<1>3. ASSUME NEW key \in Key, NEW idx \in Index, Mem!put_piece(key, idx)
      PROVE  MemStoreSpec!put_piece(<<key, idx>>)
  <2> DEFINE o == Mem!Objects(key) \cup {idx}
  <2>1. o \in SUBSET Index /\ Mem!SetBucket(key, o)
    BY <1>1, <1>3 DEF Mem!put_piece
  <2>2. \A p : p \in Mem!MemPieces' <=> p \in Mem!MemPieces \/ p = <<key, idx>>
    <3> TAKE p
    <3>1. p \in Mem!MemPieces' <=> \/ \E i \in o : p = <<key, i>>
                                   \/ p \in Mem!MemPieces /\ p[1] # key
      BY <2>1, PiecesSet
    <3>2. p \in Mem!MemPieces /\ p[1] = key
             => \E i \in Mem!Objects(key) : p = <<key, i>>
      BY PieceOfBucket DEF Mem!Objects
    <3>3. \A i \in Mem!Objects(key) : <<key, i>> \in Mem!MemPieces
      BY ObjectsArePieces
    <3> QED BY <3>1, <3>2, <3>3
  <2>3. Mem!MemPieces' = Mem!MemPieces \cup {<<key, idx>>}
    BY <2>2
  <2>4. memAnswer' = [op |-> "put_piece", loc |-> <<key, idx>>]
    BY <1>3 DEF Mem!put_piece
  <2> QED BY <1>0, <2>3, <2>4 DEF MemStoreSpec!put_piece, MemStoreSpec!Answer
<1>4. ASSUME NEW key \in Key, NEW idx \in Index, Mem!delete_piece(key, idx)
      PROVE  MemStoreSpec!delete_piece(<<key, idx>>)
  <2> DEFINE o == Mem!Objects(key) \ {idx}
  <2>1. o \in SUBSET Index /\ Mem!SetBucket(key, o)
    BY <1>1, <1>4 DEF Mem!delete_piece
  <2>2. \A p : p \in Mem!MemPieces' <=> p \in Mem!MemPieces /\ p # <<key, idx>>
    <3> TAKE p
    <3>1. p \in Mem!MemPieces' <=> \/ \E i \in o : p = <<key, i>>
                                   \/ p \in Mem!MemPieces /\ p[1] # key
      BY <2>1, PiecesSet
    <3>2. p \in Mem!MemPieces /\ p[1] = key
             => \E i \in Mem!Objects(key) : p = <<key, i>>
      BY PieceOfBucket DEF Mem!Objects
    <3>3. \A i \in Mem!Objects(key) : <<key, i>> \in Mem!MemPieces
      BY ObjectsArePieces
    <3> QED BY <3>1, <3>2, <3>3
  <2>3. Mem!MemPieces' = Mem!MemPieces \ {<<key, idx>>}
    BY <2>2
  <2>4. memAnswer' = [op |-> "delete_piece", loc |-> <<key, idx>>]
    BY <1>4 DEF Mem!delete_piece
  <2> QED BY <1>0, <2>3, <2>4 DEF MemStoreSpec!delete_piece, MemStoreSpec!Answer
<1>5. ASSUME NEW key \in Key, NEW idx \in Index, Mem!get_piece(key, idx)
      PROVE  MemStoreSpec!get_piece(<<key, idx>>)
  <2>1. (idx \in Mem!Objects(key)) = (<<key, idx>> \in Mem!MemPieces)
    BY ObjectsArePieces
  <2>2. /\ Mem!MemPieces' = Mem!MemPieces
        /\ memAnswer' = [op |-> "get_piece", loc |-> <<key, idx>>,
                         found |-> idx \in Mem!Objects(key)]
    BY <1>2, <1>5 DEF Mem!get_piece
  <2> QED BY <1>0, <2>1, <2>2 DEF MemStoreSpec!get_piece, MemStoreSpec!Answer
<1>6. ASSUME NEW key \in Key, NEW idx \in Index, Mem!piece_exists(key, idx)
      PROVE  MemStoreSpec!piece_exists(<<key, idx>>)
  <2>1. (idx \in Mem!Objects(key)) = (<<key, idx>> \in Mem!MemPieces)
    BY ObjectsArePieces
  <2>2. /\ Mem!MemPieces' = Mem!MemPieces
        /\ memAnswer' = [op |-> "piece_exists", loc |-> <<key, idx>>,
                         found |-> idx \in Mem!Objects(key)]
    BY <1>2, <1>6 DEF Mem!piece_exists
  <2> QED BY <1>0, <2>1, <2>2 DEF MemStoreSpec!piece_exists, MemStoreSpec!Answer
<1>7. ASSUME NEW key \in Key, Mem!get_pieces(key)
      PROVE  MemStoreSpec!get_pieces(key)
  <2>1. Mem!Objects(key) = {i \in Index : <<key, i>> \in Mem!MemPieces}
    BY <1>1, ObjectsArePieces
  <2>2. /\ Mem!MemPieces' = Mem!MemPieces
        /\ memAnswer' = [op |-> "get_pieces", key |-> key,
                         indexes |-> Mem!Objects(key)]
    BY <1>2, <1>7 DEF Mem!get_pieces
  <2> QED BY <1>0, <2>1, <2>2 DEF MemStoreSpec!get_pieces, MemStoreSpec!Answer
<1>8. ASSUME Mem!keys PROVE MemStoreSpec!keys
  <2>1. DOMAIN buckets = {k \in Key : \E i \in Index : <<k, i>> \in Mem!MemPieces}
    BY ObjectsArePieces DEF BucketsOK, Mem!Objects
  <2>2. /\ Mem!MemPieces' = Mem!MemPieces
        /\ memAnswer' = [op |-> "keys", keys |-> DOMAIN buckets]
    BY <1>2, <1>8 DEF Mem!keys
  <2> QED BY <1>0, <2>1, <2>2 DEF MemStoreSpec!keys, MemStoreSpec!Answer
<1>9. \A key \in Key, idx \in Index : <<key, idx>> \in MemStoreSpec!Loc
  BY DEF MemStoreSpec!Loc
<1> QED
  BY <1>3, <1>4, <1>5, <1>6, <1>7, <1>8, <1>9 DEF BothCalled, MemStoreSpec!Next

\* The process that starts has no pieces, and those of one that ends are gone.
LEMMA MemLifeImplements ==
    ASSUME BucketsOK, Lifecycle,
           IF pc \in Running /\ pc' \notin Running
           THEN buckets' = << >> /\ memAnswer' = [op |-> "none"]
           ELSE UNCHANGED memVars
    PROVE  \/ MemStoreSpec!Start \/ MemStoreSpec!Stop
           \/ UNCHANGED <<pc \in Running, Mem!MemPieces, memAnswer>>
<1>1. UNCHANGED buckets => Mem!MemPieces' = Mem!MemPieces
  BY DEF Mem!MemPieces
<1>2. CASE pc \in Running /\ pc' \notin Running
  <2>1. buckets' = << >> /\ memAnswer' = [op |-> "none"]
    BY <1>2
  <2>2. Mem!MemPieces' = {}
    BY <2>1 DEF Mem!MemPieces
  <2> QED BY <1>2, <2>1, <2>2 DEF MemStoreSpec!Stop
<1>3. CASE ~(pc \in Running /\ pc' \notin Running)
  <2>1. UNCHANGED memVars
    BY <1>3
  <2>2. Mem!MemPieces' = Mem!MemPieces /\ memAnswer' = memAnswer
    BY <1>1, <2>1 DEF memVars
  <2>3. CASE pc \notin Running /\ pc' \in Running
    BY <2>2, <2>3 DEF MemStoreSpec!Start
  <2>4. CASE (pc \in Running) = (pc' \in Running)
    BY <2>2, <2>4
  <2> QED BY <1>3, <2>3, <2>4
<1> QED BY <1>2, <1>3

\* Callers of the store in memory see a set of pieces, and no key whose
\* pieces are all deleted (piece_store/mem.rs).
THEOREM MemStoreImplementsPieceStore == MCSpec => MemImplementsPieceStore
<1>1. MCInit => MemStoreSpec!Init
  BY DEF MCInit, MemStoreSpec!Init, Init, Mem!MemPieces, Running
<1>2. BucketsOK /\ [MCNext]_<<vars, memVars>>
         => [MemStoreSpec!Next]_(MemStoreSpec!vars)
  <2> SUFFICES ASSUME BucketsOK, [MCNext]_<<vars, memVars>>
               PROVE  \/ MemStoreSpec!Next
                      \/ UNCHANGED <<pc \in Running, Mem!MemPieces, memAnswer>>
    BY DEF MemStoreSpec!vars
  <2>1. CASE UNCHANGED <<vars, memVars>>
    BY <2>1 DEF vars, memVars, Mem!MemPieces
  <2>2. CASE BothCalled
    BY <2>2, MemCallImplements
  <2>3. CASE Lifecycle /\ IF pc \in Running /\ pc' \notin Running
                          THEN buckets' = << >> /\ memAnswer' = [op |-> "none"]
                          ELSE UNCHANGED memVars
    BY <2>3, MemLifeImplements DEF MemStoreSpec!Next
  <2> QED BY <2>1, <2>2, <2>3 DEF MCNext
<1>3. MCSpec => []BucketsOK
  BY BucketsInit, BucketsStep, PTL DEF MCSpec
<1> QED
  BY <1>1, <1>2, <1>3, PTL DEF MCSpec, MemStoreSpec!Spec, MemImplementsPieceStore

==============================================================================
