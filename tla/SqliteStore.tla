------------------------------ MODULE SqliteStore ------------------------------
(***************************************************************************)
(* The piece store a node runs with (sorock-core/src/piece_store/sqlite):  *)
(* a table of rows with a primary key of its own, and one SQL statement    *)
(* per call.  Nothing makes the place of a piece unique in the table.      *)
(***************************************************************************)
CONSTANTS
    Key, Index,
    RowId        \* bound: the rows the table can have

VARIABLES
    rows,        \* the table sorockdb
    answer       \* the answer to the last call

Row == [id : RowId, key : Key, idx : Index]

Where(key, idx) == {r \in rows : r.key = key /\ r.idx = idx}

\* MUTANT: the id is not a key of the table.
ReusesId(key, idx) ==
    /\ \E id \in RowId :
          rows' = rows \cup {[id |-> id, key |-> key, idx |-> idx]}
    /\ answer' = [op |-> "put_piece", loc |-> <<key, idx>>]

\* insert: a piece that is there already gets another row.
put_piece(key, idx) ==
    /\ \E id \in RowId :
          /\ \A r \in rows : r.id # id
          /\ rows' = rows \cup {[id |-> id, key |-> key, idx |-> idx]}
    /\ answer' = [op |-> "put_piece", loc |-> <<key, idx>>]

\* MUTANT: the statement deletes one row.
DeletesOne(key, idx) ==
    /\ \/ \E r \in Where(key, idx) : rows' = rows \ {r}
       \/ Where(key, idx) = {} /\ rows' = rows
    /\ answer' = [op |-> "delete_piece", loc |-> <<key, idx>>]

delete_piece(key, idx) ==
    /\ rows' = rows \ Where(key, idx)
    /\ answer' = [op |-> "delete_piece", loc |-> <<key, idx>>]

\* The rows of the key, so perhaps several of one index.
get_pieces(key) ==
    /\ answer' = [op |-> "get_pieces", key |-> key,
                  rows |-> {r \in rows : r.key = key}]
    /\ UNCHANGED rows

get_piece(key, idx) ==
    /\ answer' = [op |-> "get_piece", loc |-> <<key, idx>>,
                  found |-> Where(key, idx) # {}]
    /\ UNCHANGED rows

piece_exists(key, idx) ==
    /\ answer' = [op |-> "piece_exists", loc |-> <<key, idx>>,
                  found |-> Where(key, idx) # {}]
    /\ UNCHANGED rows

keys ==
    /\ answer' = [op |-> "keys", keys |-> {r.key : r \in rows}]
    /\ UNCHANGED rows

\* The pieces the rows stand for, and what a caller makes of an answer: it
\* takes one of the rows of an index (rebuild.rs, peer_in.rs).
Pieces == {<<r.key, r.idx>> : r \in rows}
Understood ==
    IF answer.op = "get_pieces"
    THEN [op |-> "get_pieces", key |-> answer.key,
          indexes |-> {r.idx : r \in answer.rows}]
    ELSE answer
==============================================================================
