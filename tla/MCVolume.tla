-------------------------------- MODULE MCVolume --------------------------------
(***************************************************************************)
(* Volume for TLC, with a MemStore that gets the same calls and lives as   *)
(* long as its process.                                                    *)
(***************************************************************************)
EXTENDS Volume

CONSTANTS k1, k2

VARIABLES buckets, memAnswer

Mem == INSTANCE MemStore
memVars == <<buckets, memAnswer>>

MCInit == Init /\ buckets = << >> /\ memAnswer = [op |-> "none"]

BothCalled ==
    /\ pc \in Running
    /\ \/ \E key \in Key, idx \in Index :
             \/ put_piece(key, idx) /\ Mem!put_piece(key, idx)
             \/ delete_piece(key, idx) /\ Mem!delete_piece(key, idx)
             \/ get_piece(key, idx) /\ Mem!get_piece(key, idx)
             \/ piece_exists(key, idx) /\ Mem!piece_exists(key, idx)
       \/ \E key \in Key : get_pieces(key) /\ Mem!get_pieces(key)
       \/ keys /\ Mem!keys
    /\ UNCHANGED lifeVars

MCNext ==
    \/ Lifecycle /\ IF pc \in Running /\ pc' \notin Running
                    THEN buckets' = << >> /\ memAnswer' = [op |-> "none"]
                    ELSE UNCHANGED memVars
    \/ BothCalled

MCSpec == MCInit /\ [][MCNext]_<<vars, memVars>>

MemStoreSpec == INSTANCE PieceStore WITH
    Durable <- FALSE, open <- pc \in Running,
    pieces <- Mem!MemPieces, reply <- memAnswer

\* Callers of the store in memory see a set of pieces too, and no key
\* without a piece (piece_store/mem.rs).
MemImplementsPieceStore == MemStoreSpec!Spec
==============================================================================
