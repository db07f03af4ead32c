------------------------------ MODULE RaftService ------------------------------
(***************************************************************************)
(* The replicated cluster map (sorock-core/src/raft_service.rs).  Every    *)
(* server applies the commands Raft has committed, AddNode and RemoveNode, *)
(* to its copy of the cluster and tells its ClusterIn the resulting map.   *)
(*                                                                         *)
(* Raft itself (lol_core) is external: a log of committed commands, which  *)
(* a server processes one at a time and in order; a snapshot of another    *)
(* server that is ahead, or the server's own one after a restart, replaces *)
(* the commands it stands for; a command or a snapshot is tried again,     *)
(* before anything else, when its handler returns an error.                *)
(*                                                                         *)
(* The ASURA table is external too: it is represented by the calls that    *)
(* led to it, as its answers may depend on all of them.  The last_change   *)
(* of a map is left out, as nothing reads it.                              *)
(***************************************************************************)
EXTENDS Integers, Sequences, FiniteSets

CONSTANTS
    Server,      \* servers, each a storage node with its replica
    Uri,         \* names of nodes in commands
    Cap,         \* capacities
    LogSize,     \* bound: committed commands
    Failures,    \* bound: calls of set_new_cluster that return an error
    Restarts     \* bound: clean shutdowns followed by a start

ASSUME BoundAssumption ==
    LogSize \in Nat /\ Failures \in Nat /\ Restarts \in Nat

VARIABLES
    log,         \* the committed commands
    agreed,      \* auxiliary: agreed[i], the state after i commands
    state,       \* state[s]: App::state of server s
    applied,     \* applied[s]: commands s has processed with success
    job,         \* job[s]: the call of set_new_cluster s is waiting for
    told,        \* told[s]: the last map ClusterIn of s was told
    saved,       \* saved[s]: the last snapshot of s
    budget       \* errors and restarts that may still happen

vars == <<log, agreed, state, applied, job, told, saved, budget>>

Command ==
    [op : {"AddNode"}, uri : Uri, cap : Cap] \cup [op : {"RemoveNode"}, uri : Uri]

\* State::new
New == [uri_map |-> << >>, table |-> << >>, next_id |-> 0, version |-> 0]

Known(st, uri) == uri \in DOMAIN st.uri_map

\* MUTANT: add_node checks nothing and adds a known node again.
AddsAgain(st, uri, cap) ==
    [uri_map |-> [u \in DOMAIN st.uri_map \cup {uri} |->
                     IF u = uri THEN st.next_id ELSE st.uri_map[u]],
     table |-> Append(st.table, [op |-> "add", id |-> st.next_id, cap |-> cap]),
     next_id |-> st.next_id + 1,
     version |-> st.version + 1]

add_node(st, uri, cap) ==
    IF Known(st, uri) THEN st
    ELSE [uri_map |-> [u \in DOMAIN st.uri_map \cup {uri} |->
                          IF u = uri THEN st.next_id ELSE st.uri_map[u]],
          table |-> Append(st.table,
                           [op |-> "add", id |-> st.next_id, cap |-> cap]),
          next_id |-> st.next_id + 1,
          version |-> st.version + 1]

\* MUTANT: removing a node does not make a new version.
RemovesSilently(st, uri) ==
    IF ~Known(st, uri) THEN st
    ELSE [st EXCEPT
             !.uri_map = [u \in DOMAIN st.uri_map \ {uri} |-> st.uri_map[u]],
             !.table = Append(st.table,
                              [op |-> "remove", id |-> st.uri_map[uri]])]

remove_node(st, uri) ==
    IF ~Known(st, uri) THEN st
    ELSE [uri_map |-> [u \in DOMAIN st.uri_map \ {uri} |-> st.uri_map[u]],
          table |-> Append(st.table,
                           [op |-> "remove", id |-> st.uri_map[uri]]),
          next_id |-> st.next_id,
          version |-> st.version + 1]

Effect(cmd, st) ==
    IF cmd.op = "AddNode" THEN add_node(st, cmd.uri, cmd.cap)
                          ELSE remove_node(st, cmd.uri)

\* The map make_cluster_map builds: idmap inverts uri_map.
MapOf(st) ==
    [version |-> st.version, table |-> st.table,
     idmap |-> [id \in {st.uri_map[u] : u \in DOMAIN st.uri_map} |->
                   {u \in DOMAIN st.uri_map : st.uri_map[u] = id}]]

NoJob == [pc |-> "idle", st |-> New, index |-> 0]

Init ==
    /\ log = << >>
    /\ agreed = [i \in {0} |-> New]
    /\ state = [s \in Server |-> New]
    /\ applied = [s \in Server |-> 0]
    /\ job = [s \in Server |-> NoJob]
    /\ told = [s \in Server |-> MapOf(New)]
    /\ saved = [s \in Server |-> [st |-> New, index |-> 0]]
    /\ budget = [fail |-> Failures, restart |-> Restarts]

\* request_commit (storage_service.rs add_node, remove_node), by anyone.
Commit(cmd) ==
    /\ Len(log) < LogSize
    /\ log' = Append(log, cmd)
    /\ agreed' = [i \in 0..Len(log) + 1 |->
                     IF i <= Len(log) THEN agreed[i]
                                      ELSE Effect(cmd, agreed[Len(log)])]
    /\ UNCHANGED <<state, applied, job, told, saved, budget>>

\* process_write up to its call of set_new_cluster
ApplyCommand(s) ==
    /\ job[s].pc = "idle" /\ applied[s] < Len(log)
    /\ LET st == Effect(log[applied[s] + 1], state[s])
       IN  /\ state' = [state EXCEPT ![s] = st]
           /\ told' = [told EXCEPT ![s] = MapOf(st)]
           /\ job' = [job EXCEPT ![s] = [pc |-> "apply", st |-> st,
                                         index |-> applied[s] + 1]]
    /\ UNCHANGED <<log, agreed, applied, saved, budget>>

\* ... and after it: the snapshot is made of the state as it is now.
CommandDone(s) ==
    /\ job[s].pc = "apply"
    /\ applied' = [applied EXCEPT ![s] = job[s].index]
    /\ saved' = [saved EXCEPT ![s] = [st |-> state[s], index |-> job[s].index]]
    /\ job' = [job EXCEPT ![s] = NoJob]
    /\ UNCHANGED <<log, agreed, state, told, budget>>

\* install_snapshot with the snapshot of t, up to its call of set_new_cluster
InstallSnapshot(s, t) ==
    /\ job[s].pc = "idle" /\ saved[t].index > applied[s]
    /\ told' = [told EXCEPT ![s] = MapOf(saved[t].st)]
    /\ job' = [job EXCEPT ![s] = [pc |-> "install", st |-> saved[t].st,
                                  index |-> saved[t].index]]
    /\ UNCHANGED <<log, agreed, state, applied, saved, budget>>

\* MUTANT: the snapshot is told to the services and not kept.
SnapshotNotKept(s) ==
    /\ job[s].pc = "install"
    /\ applied' = [applied EXCEPT ![s] = job[s].index]
    /\ saved' = [saved EXCEPT ![s] = [st |-> job[s].st, index |-> job[s].index]]
    /\ job' = [job EXCEPT ![s] = NoJob]
    /\ UNCHANGED <<log, agreed, state, told, budget>>

\* MUTANT: next_id is not part of the snapshot.
SnapshotForgetsNextId(s) ==
    /\ job[s].pc = "install"
    /\ state' = [state EXCEPT ![s] = [job[s].st EXCEPT !.next_id = 0]]
    /\ applied' = [applied EXCEPT ![s] = job[s].index]
    /\ saved' = [saved EXCEPT ![s] = [st |-> job[s].st, index |-> job[s].index]]
    /\ job' = [job EXCEPT ![s] = NoJob]
    /\ UNCHANGED <<log, agreed, told, budget>>

\* ... and after it: only now the state is replaced.
SnapshotDone(s) ==
    /\ job[s].pc = "install"
    /\ state' = [state EXCEPT ![s] = job[s].st]
    /\ applied' = [applied EXCEPT ![s] = job[s].index]
    /\ saved' = [saved EXCEPT ![s] = [st |-> job[s].st, index |-> job[s].index]]
    /\ job' = [job EXCEPT ![s] = NoJob]
    /\ UNCHANGED <<log, agreed, told, budget>>

\* set_new_cluster returns an error: what has been changed stays so, and
\* process_write runs again.  (For a snapshot, install_snapshot runs again
\* and the services are told the same map: no step of this model.)
SetNewClusterFails(s) ==
    /\ job[s].pc = "apply" /\ budget["fail"] > 0
    /\ budget' = [budget EXCEPT !["fail"] = @ - 1]
    /\ job' = [job EXCEPT ![s] = NoJob]
    /\ UNCHANGED <<log, agreed, state, applied, told, saved>>

\* A clean shutdown and a start (main.rs): the snapshots and the log are on
\* disk, the state and the maps of the services are not.
Restart(s) ==
    /\ budget["restart"] > 0
    /\ budget' = [budget EXCEPT !["restart"] = @ - 1]
    /\ state' = [state EXCEPT ![s] = New]
    /\ applied' = [applied EXCEPT ![s] = 0]
    /\ job' = [job EXCEPT ![s] = NoJob]
    /\ told' = [told EXCEPT ![s] = MapOf(New)]
    /\ UNCHANGED <<log, agreed, saved>>

ServerNext(s) ==
    \/ ApplyCommand(s)
    \/ CommandDone(s)
    \/ \E t \in Server : InstallSnapshot(s, t)
    \/ SnapshotDone(s)

Next ==
    \/ \E cmd \in Command : Commit(cmd)
    \/ \E s \in Server : ServerNext(s)
    \/ \E s \in Server : SetNewClusterFails(s)
    \/ \E s \in Server : Restart(s)

Spec == Init /\ [][Next]_vars
\* Raft goes on processing what is committed at every server.
FairSpec == Spec /\ \A s \in Server : WF_vars(ServerNext(s))

------------------------------------------------------------------------------
\* Two nodes that run maps of the same version run the same map: a version
\* can stand for its map in the messages between nodes (SendPiece).
SameVersionSameMap ==
    \A s, t \in Server : told[s].version = told[t].version => told[s] = told[t]

\* The ids a table may answer: added and not removed since.
IdsOf(table) ==
    {table[i].id : i \in {i \in DOMAIN table :
        /\ table[i].op = "add"
        /\ \A j \in i + 1..Len(table) : table[j].id # table[i].id}}

\* Every id the table may answer names one node, so compute_holders' unwrap
\* of idmap.get(id) never panics and no two nodes share an id.
IdsResolve ==
    \A s \in Server :
        LET m == told[s]
        IN  /\ IdsOf(m.table) = DOMAIN m.idmap
            /\ \A id \in DOMAIN m.idmap : Cardinality(m.idmap[id]) = 1

\* The map of every version the log has led to.
Maps ==
    [v \in 0..agreed[Len(log)].version |->
        MapOf(agreed[CHOOSE i \in DOMAIN agreed : agreed[i].version = v])]

History == INSTANCE MapHistory WITH FirstMap <- MapOf(New), maps <- Maps

\* Commands applied, tried again, or skipped with a snapshot, and restarts:
\* all a node sees is one history of maps, never going back while it runs.
ImplementsMapHistory == History!Spec

\* What is committed reaches every node, whatever failed or restarted: in
\* the end all are told the map of the whole log.
AllTold ==
    <>[](\A s \in Server : told[s] = MapOf(agreed[Len(log)]))

==============================================================================
