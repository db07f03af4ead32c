------------------------------- MODULE PieceStore -------------------------------
(***************************************************************************)
(* What a piece store promises (the service PieceStore of                  *)
(* sorock-core/src/piece_store/mod.rs): a set of pieces, which answers     *)
(* every call by the calls before it.  It answers while its node runs; a   *)
(* durable one keeps its pieces when the node stops, however it stops, and *)
(* loses them only when someone cleans the volume of a node that is not    *)
(* running.                                                                *)
(*                                                                         *)
(* A key is not used for two values (book/src/api.md), so the data of a    *)
(* piece is left out: it is known from where the piece belongs.            *)
(***************************************************************************)
CONSTANTS
    Key, Index,  \* a piece is a key and an index
    Durable      \* whether the pieces are on disk

VARIABLES
    open,        \* whether the node runs
    pieces,      \* the pieces of the store
    reply        \* the answer to the last call

vars == <<open, pieces, reply>>

Loc == Key \X Index

Init == open = FALSE /\ pieces = {} /\ reply = [op |-> "none"]

Answer(r) == open /\ open' = open /\ reply' = r

put_piece(loc) ==
    Answer([op |-> "put_piece", loc |-> loc]) /\ pieces' = pieces \cup {loc}

delete_piece(loc) ==
    Answer([op |-> "delete_piece", loc |-> loc]) /\ pieces' = pieces \ {loc}

get_pieces(key) ==
    /\ Answer([op |-> "get_pieces", key |-> key,
               indexes |-> {i \in Index : <<key, i>> \in pieces}])
    /\ pieces' = pieces

get_piece(loc) ==
    /\ Answer([op |-> "get_piece", loc |-> loc, found |-> loc \in pieces])
    /\ pieces' = pieces

piece_exists(loc) ==
    /\ Answer([op |-> "piece_exists", loc |-> loc, found |-> loc \in pieces])
    /\ pieces' = pieces

keys ==
    /\ Answer([op |-> "keys",
               keys |-> {k \in Key : \E i \in Index : <<k, i>> \in pieces}])
    /\ pieces' = pieces

Start ==
    ~open /\ open' = TRUE /\ UNCHANGED <<pieces, reply>>
Stop ==
    /\ open /\ open' = FALSE
    /\ pieces' = IF Durable THEN pieces ELSE {}
    /\ reply' = [op |-> "none"]
Clean ==
    ~open /\ pieces' = {} /\ UNCHANGED <<open, reply>>

Next ==
    \/ \E loc \in Loc :
          put_piece(loc) \/ delete_piece(loc) \/ get_piece(loc) \/ piece_exists(loc)
    \/ \E key \in Key : get_pieces(key)
    \/ keys
    \/ Start \/ Stop \/ Clean

Spec == Init /\ [][Next]_vars
==============================================================================
