-------------------------------- MODULE MemStore --------------------------------
(***************************************************************************)
(* The piece store in memory (sorock-core/src/piece_store/mem.rs): a       *)
(* bucket of indexes for every key that has pieces.                        *)
(***************************************************************************)
CONSTANTS Key, Index

VARIABLES
    buckets,     \* State::buckets: of a key, the indexes of its pieces
    memAnswer    \* the answer to the last call

Objects(key) == IF key \in DOMAIN buckets THEN buckets[key] ELSE {}

\* MUTANT: a bucket stays when its last piece goes.
KeepsBucket(key, objects) ==
    buckets' = [k \in DOMAIN buckets \cup {key} |->
                   IF k = key THEN objects ELSE buckets[k]]

\* entry().or_insert(), and remove when nothing is left in the bucket
SetBucket(key, objects) ==
    buckets' =
        [k \in IF objects = {} THEN DOMAIN buckets \ {key}
                               ELSE DOMAIN buckets \cup {key} |->
            IF k = key THEN objects ELSE buckets[k]]

put_piece(key, idx) ==
    /\ SetBucket(key, Objects(key) \cup {idx})
    /\ memAnswer' = [op |-> "put_piece", loc |-> <<key, idx>>]

delete_piece(key, idx) ==
    /\ SetBucket(key, Objects(key) \ {idx})
    /\ memAnswer' = [op |-> "delete_piece", loc |-> <<key, idx>>]

get_pieces(key) ==
    /\ memAnswer' = [op |-> "get_pieces", key |-> key,
                     indexes |-> Objects(key)]
    /\ UNCHANGED buckets

get_piece(key, idx) ==
    /\ memAnswer' = [op |-> "get_piece", loc |-> <<key, idx>>, found |-> idx \in Objects(key)]
    /\ UNCHANGED buckets

piece_exists(key, idx) ==
    /\ memAnswer' = [op |-> "piece_exists", loc |-> <<key, idx>>, found |-> idx \in Objects(key)]
    /\ UNCHANGED buckets

keys ==
    /\ memAnswer' = [op |-> "keys", keys |-> DOMAIN buckets]
    /\ UNCHANGED buckets

MemPieces == UNION {{k} \X buckets[k] : k \in DOMAIN buckets}
==============================================================================
