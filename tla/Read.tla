--------------------------------- MODULE Read ---------------------------------
(***************************************************************************)
(* A client's read of a key (sorock-core/src/io_front.rs read, rebuild.rs) *)
(* at a node of the cluster that module Storage describes: maps change,    *)
(* pieces move and nodes stop while it asks for them.                      *)
(*                                                                         *)
(* The read takes a copy of the map once.  It asks the N holders for any   *)
(* pieces of the key; having fewer than K after the last answer, it asks   *)
(* all the members, and fails with "data is lost" having fewer than K      *)
(* again.  Reading changes nothing, so one read is enough to see what any  *)
(* read can see.                                                           *)
(***************************************************************************)
EXTENDS Storage

VARIABLES
    reads,  \* the read, while it runs
    begun   \* a read has begun; bound: one read in a behaviour

readVars == <<vars, reads, begun>>

\* stood: auxiliary.  The copies <<m, i>>, piece i at member m, that have
\* been there and within reach since the members were first asked.
ReadOp == [node : Node, key : Key, version : Version,
           st : {"scan", "bcast"}, wait : SUBSET Ask,
           found : SUBSET Index, stood : SUBSET (Node \X Index)]

ReadInit == Init /\ reads = {} /\ begun = FALSE

BeginRead(n, k) ==
    /\ n \in alive /\ ~begun
    /\ begun' = TRUE
    /\ reads' = {[node |-> n, key |-> k, version |-> view[n].io, st |-> "scan",
                  wait |-> ScanAsks(view[n].io, k), found |-> {},
                  stood |-> {}]}
    /\ UNCHANGED vars

\* request_any_pieces: with K pieces the others are not waited for.
ReadReply(r) ==
    /\ r.node \in alive
    /\ \E a \in r.wait :
          LET found == r.found \cup PiecesAt(a[2], r.key)
          IN  /\ a[2] \in alive
              /\ reads' = IF Cardinality(found) >= K THEN {}
                          ELSE {[r EXCEPT !.wait = @ \ {a}, !.found = found]}
    /\ UNCHANGED <<vars, begun>>

\* The request fails, or takes more than its 5 seconds.
ReadTimeout(r) ==
    /\ r.node \in alive
    /\ \E a \in r.wait :
          reads' = {[r EXCEPT !.wait = @ \ {a},
                              !.stood = {p \in @ : p[1] # a[2]}]}
    /\ UNCHANGED <<vars, begun>>

\* MUTANT: the holders are asked a second time, not the members.
BroadcastToHolders(r) ==
    /\ r.node \in alive /\ r.st = "scan" /\ r.wait = {}
    /\ reads' = {[r EXCEPT
           !.st = "bcast", !.found = {}, !.wait = ScanAsks(r.version, r.key),
           !.stood = UNION {{m} \X PiecesAt(m, r.key) :
                               m \in Map(r.version).members \cap alive}]}
    /\ UNCHANGED <<vars, begun>>

\* The answers of the scan are forgotten and every member is asked.
ReadBroadcast(r) ==
    /\ r.node \in alive /\ r.st = "scan" /\ r.wait = {}
    /\ reads' = {[r EXCEPT
           !.st = "bcast", !.found = {},
           !.wait = {0} \X Map(r.version).members,
           !.stood = UNION {{m} \X PiecesAt(m, r.key) :
                               m \in Map(r.version).members \cap alive}]}
    /\ UNCHANGED <<vars, begun>>

\* "couldn't rebuild pieces. data is lost"
ReadLost(r) ==
    /\ r.node \in alive /\ r.st = "bcast" /\ r.wait = {}
    /\ reads' = {}
    /\ UNCHANGED <<vars, begun>>

\* A step of the cluster: the copies it removes stand no longer.
ClusterStep ==
    /\ Next
    /\ reads' = {[r EXCEPT !.stood =
                     {p \in @ : /\ p[1] \in alive'
                                /\ [key |-> r.key, index |-> p[2]]
                                      \in store'[p[1]]}] : r \in reads}
    /\ UNCHANGED begun

ReadNext ==
    \/ ClusterStep
    \/ \E n \in Node, k \in Key : BeginRead(n, k)
    \/ \E r \in reads : ReadReply(r) \/ ReadTimeout(r)
    \/ \E r \in reads : ReadBroadcast(r) \/ ReadLost(r)

ReadSpec == ReadInit /\ [][ReadNext]_readVars

\* The read is about to say that the data is lost.
GivesUp(r) == r.st = "bcast" /\ r.wait = {}

\* A read that says the data is lost is right about the copies that nobody
\* touched: among those in reach since the members were first asked there
\* are fewer than K pieces.  Wherever pieces lie, and however old the map of
\* the reader, only what moves or stops during the broadcast is overlooked.
FindsWhatStands ==
    \A r \in reads :
        GivesUp(r) => Cardinality({p[2] : p \in r.stood}) < K

================================================================================
