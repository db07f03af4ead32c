---------------------------- MODULE FailureDetector ----------------------------
(***************************************************************************)
(* The failure detector (failure-detector/src, after Gupta et al.) and what *)
(* the nodes do with its verdicts (sorock/src/fd_app_out_impl.rs).  Every  *)
(* node picks a node of the cluster at random, pings it, asks up to K      *)
(* others to ping it when it does not answer, and when none of them vouches *)
(* for it removes it: from the cluster (RemoveNode), then from the group   *)
(* of Raft servers (remove_server).                                        *)
(*                                                                         *)
(* The cluster is the one RaftService replicates; here it is the sequence  *)
(* of its sets of members, and a node's copy is an index of it.  Raft      *)
(* (lol_core) is external: it commits when most of its servers are up and  *)
(* tells its servers what is committed.                                    *)
(***************************************************************************)
EXTENDS Integers, Sequences, FiniteSets, FiniteSetsExt

CONSTANTS
    Node,
    InitialMembers,  \* the cluster to begin with
    K,               \* proxies asked to ping a suspect (3 in the code)
    Watchers,        \* bound: nodes whose loop runs
    Budgets          \* bounds: what may go wrong together, and how often

Fault == {"loss", "error", "crash", "start", "join"}

ASSUME ConstantAssumption ==
    /\ InitialMembers \subseteq Node /\ Watchers \subseteq Node
    /\ K \in Nat
    /\ Budgets \subseteq [Fault -> Nat]

VARIABLES
    alive,       \* nodes that run
    clusters,    \* clusters[v]: the members of version v
    servers,     \* the Raft servers (external)
    joining,     \* nodes for which add_node has got the config
    queueView,   \* queueView[n]: version of queue::State::cluster at n
    reportView,  \* reportView[n]: version of reporter::State::cluster at n
    queue,       \* queue[n]: queue::State::queue of n
    probe,       \* probe[n]: the task run_once of n has spawned
    budget,      \* what may still go wrong
    brokenOff    \* auxiliary: nodes out of the cluster whose removal from Raft
                 \* broke off

vars == <<alive, clusters, servers, joining, queueView, reportView, queue,
          probe, budget, brokenOff>>

Version == 1..Len(clusters)
At(v) == IF v = 0 THEN {} ELSE clusters[v]
Members == clusters[Len(clusters)]

\* The task pings the suspect ("ping1"), waits for the proxies in open
\* ("ping2"), then removes the suspect from the cluster ("notify") and from
\* Raft ("remove_server").  Auxiliary: lost, the paths on which a ping was
\* lost, each named by its proxy or, the direct one, by the suspect; up, the
\* suspect and the proxies that have been up since the task began.
NoProbe == [st |-> "none"]
Probe == [st : {"ping1", "ping2", "notify", "remove_server"}, suspect : Node,
          open : SUBSET Node, lost : SUBSET Node, up : SUBSET Node]

TypeOK ==
    /\ alive \subseteq Node /\ servers \subseteq Node /\ joining \subseteq Node
    /\ clusters \in Seq(SUBSET Node) /\ clusters # << >>
    /\ queueView \in [Node -> Nat] /\ reportView \in [Node -> Nat]
    /\ \A n \in Node : reportView[n] <= queueView[n] /\ queueView[n] <= Len(clusters)
    /\ queue \in [Node -> SUBSET Node]
    /\ probe \in [Node -> Probe \cup {NoProbe}]
    /\ budget \in [Fault -> Nat] /\ brokenOff \subseteq Node

Init ==
    /\ alive = Node
    /\ clusters = <<InitialMembers>>
    /\ servers = InitialMembers
    /\ joining = {}
    /\ queueView = [n \in Node |-> IF n \in InitialMembers THEN 1 ELSE 0]
    /\ reportView = queueView
    /\ queue = [n \in Node |-> {}]
    /\ probe = [n \in Node |-> NoProbe]
    /\ budget \in Budgets
    /\ brokenOff = {}

Spend(f) ==
    /\ budget[f] > 0
    /\ budget' = [budget EXCEPT ![f] = @ - 1]

Committable == 2 * Cardinality(alive \cap servers) > Cardinality(servers)

------------------------------------------------------------------------------
\* MUTANT: the reporter is told before the queue.
ReporterFirst(n) ==
    /\ n \in alive \cap servers \cap Watchers /\ reportView[n] = queueView[n]
    /\ \E v \in Version :
          v > queueView[n] /\ reportView' = [reportView EXCEPT ![n] = v]
    /\ UNCHANGED <<alive, clusters, servers, joining, queueView, queue, probe,
                   budget, brokenOff>>

\* The map reaches a node: AppIn tells the queue, then the reporter.  A
\* server that installs a snapshot skips versions.
LearnQueue(n) ==
    /\ n \in alive \cap servers \cap Watchers /\ reportView[n] = queueView[n]
    /\ \E v \in Version :
          v > queueView[n] /\ queueView' = [queueView EXCEPT ![n] = v]
    /\ UNCHANGED <<alive, clusters, servers, joining, reportView, queue, probe,
                   budget, brokenOff>>

LearnReporter(n) ==
    /\ n \in alive /\ reportView[n] < queueView[n]
    /\ reportView' = [reportView EXCEPT ![n] = queueView[n]]
    /\ UNCHANGED <<alive, clusters, servers, joining, queueView, queue, probe,
                   budget, brokenOff>>

\* MUTANT: the candidate is always the same.
SameCandidate(n, x) ==
    /\ n \in alive \cap Watchers /\ queue[n] = {} /\ probe[n] = NoProbe
    /\ At(reportView[n]) \ {n} # {}
    /\ x = CHOOSE y \in At(reportView[n]) \ {n} : TRUE
    /\ queue' = [queue EXCEPT ![n] = {x}]
    /\ UNCHANGED <<alive, clusters, servers, joining, queueView, reportView,
                   probe, budget, brokenOff>>

\* The loop of main.rs: reporter.run_once, then queue.run_once.  Bound: a
\* node has one suspect at a time, in the queue or in a task.
Report(n, x) ==
    /\ n \in alive \cap Watchers /\ queue[n] = {} /\ probe[n] = NoProbe
    /\ x \in At(reportView[n]) \ {n}
    /\ queue' = [queue EXCEPT ![n] = {x}]
    /\ UNCHANGED <<alive, clusters, servers, joining, queueView, reportView,
                   probe, budget, brokenOff>>

\* choose_unique_k: the node itself is one of those it may be.
Proxies(all) == kSubset(IF Cardinality(all) < K THEN Cardinality(all) ELSE K, all)

\* MUTANT: the queue is read and not emptied.
KeepsQueue(n) ==
    /\ n \in alive /\ probe[n] = NoProbe
    /\ \E x \in queue[n] : \E proxies \in Proxies(At(queueView[n]) \ {x}) :
          probe' = [probe EXCEPT ![n] =
                       [st |-> "ping1", suspect |-> x, open |-> proxies,
                        lost |-> {}, up |-> (proxies \cup {x}) \cap alive]]
    /\ UNCHANGED <<alive, clusters, servers, joining, queueView, reportView,
                   queue, budget, brokenOff>>

\* The suspects are taken out of the queue, with proxies for each.
RunOnce(n) ==
    /\ n \in alive
    /\ \E x \in queue[n] : \E proxies \in Proxies(At(queueView[n]) \ {x}) :
          probe' = [probe EXCEPT ![n] =
                       [st |-> "ping1", suspect |-> x, open |-> proxies,
                        lost |-> {}, up |-> (proxies \cup {x}) \cap alive]]
    /\ queue' = [queue EXCEPT ![n] = {}]
    /\ UNCHANGED <<alive, clusters, servers, joining, queueView, reportView,
                   budget, brokenOff>>

\* The path of a ping: to the suspect itself, or through a proxy (a node asks
\* itself over its own server).
Asks(p, y) == \/ p.st = "ping1" /\ y = p.suspect
              \/ p.st = "ping2" /\ y \in p.open

\* One answer clears the suspect.
Cleared(n, y) ==
    /\ n \in alive /\ Asks(probe[n], y) /\ {y, probe[n].suspect} \subseteq alive
    /\ probe' = [probe EXCEPT ![n] = NoProbe]
    /\ UNCHANGED <<alive, clusters, servers, joining, queueView, reportView,
                   queue, budget, brokenOff>>

\* MUTANT: the first answer is the verdict, not the first that clears.
OneProxyDecides(p, y) ==
    [p EXCEPT !.st = IF p.st = "ping1" /\ p.open # {} THEN "ping2" ELSE "notify",
              !.open = IF p.st = "ping1" THEN @ ELSE {}]

\* A path is silent: the suspect has failed when no other is left to ask.
Silent(p, y) ==
    [p EXCEPT !.st = IF p.open \subseteq {y} THEN "notify" ELSE "ping2",
              !.open = @ \ {y}]

\* The suspect or the proxy is down ...
Unanswered(n, y) ==
    /\ n \in alive /\ Asks(probe[n], y) /\ ~({y, probe[n].suspect} \subseteq alive)
    /\ probe' = [probe EXCEPT ![n] = Silent(probe[n], y)]
    /\ UNCHANGED <<alive, clusters, servers, joining, queueView, reportView,
                   queue, budget, brokenOff>>

\* ... or a ping or its answer is lost.
PingLost(n, y) ==
    /\ n \in alive /\ Asks(probe[n], y) /\ Spend("loss")
    /\ probe' = [probe EXCEPT ![n] =
                     [Silent(probe[n], y) EXCEPT !.lost = @ \cup {y}]]
    /\ UNCHANGED <<alive, clusters, servers, joining, queueView, reportView,
                   queue, brokenOff>>

------------------------------------------------------------------------------
\* A command that changes the members makes a version.
Commit(members) ==
    /\ Committable
    /\ clusters' = IF members = Members THEN clusters ELSE Append(clusters, members)

\* MUTANT: remove_server comes first.
ServerFirst(n) ==
    /\ n \in alive /\ probe[n].st = "notify" /\ Committable
    /\ servers' = servers \ {probe[n].suspect}
    /\ probe' = [probe EXCEPT ![n].st = "remove_server",
                              ![n].lost = {}, ![n].up = {}]
    /\ UNCHANGED <<alive, clusters, joining, queueView, reportView, queue,
                   budget, brokenOff>>

\* MUTANT: notify_failure stops after remove_node.
NodeOnly(n) ==
    /\ n \in alive /\ probe[n].st = "notify"
    /\ Commit(Members \ {probe[n].suspect})
    /\ probe' = [probe EXCEPT ![n] = NoProbe]
    /\ UNCHANGED <<alive, servers, joining, queueView, reportView, queue,
                   budget, brokenOff>>

\* notify_failure: remove_node of the node's own server ...
RemoveNode(n) ==
    /\ n \in alive /\ probe[n].st = "notify"
    /\ Commit(Members \ {probe[n].suspect})
    /\ probe' = [probe EXCEPT ![n].st = "remove_server",
                              ![n].lost = {}, ![n].up = {}]
    /\ UNCHANGED <<alive, servers, joining, queueView, reportView, queue,
                   budget, brokenOff>>

\* ... then remove_server.
RemoveServer(n) ==
    /\ n \in alive /\ probe[n].st = "remove_server"
    /\ Committable
    /\ servers' = servers \ {probe[n].suspect}
    /\ probe' = [probe EXCEPT ![n] = NoProbe]
    /\ UNCHANGED <<alive, clusters, joining, queueView, reportView, queue,
                   budget, brokenOff>>

\* What a task at "remove_server" leaves behind when it ends there.
Owed(n) ==
    IF probe[n].st = "remove_server"
    THEN {probe[n].suspect} \cap (servers \ Members) ELSE {}

\* Either returns an error, with the command committed or not: the unwrap
\* ends the task and nothing is tried again.
NotifyFails(n) ==
    /\ n \in alive /\ probe[n].st \in {"notify", "remove_server"}
    /\ IF Committable THEN Spend("error") ELSE UNCHANGED budget
    /\ probe' = [probe EXCEPT ![n] = NoProbe]
    /\ \/ /\ brokenOff' = brokenOff \cup Owed(n)
          /\ UNCHANGED <<clusters, servers>>
       \/ /\ probe[n].st = "notify" /\ Commit(Members \ {probe[n].suspect})
          /\ brokenOff' = brokenOff \cup ({probe[n].suspect} \cap servers)
          /\ UNCHANGED servers
       \/ /\ probe[n].st = "remove_server" /\ Committable
          /\ servers' = servers \ {probe[n].suspect}
          /\ UNCHANGED <<clusters, brokenOff>>
    /\ UNCHANGED <<alive, joining, queueView, reportView, queue>>

------------------------------------------------------------------------------
\* Someone makes x a Raft server (add_server) ...
AddServer(x) ==
    /\ x \in alive \ servers /\ Committable
    /\ servers' = servers \cup {x}
    /\ UNCHANGED <<alive, clusters, joining, queueView, reportView, queue, probe,
                   budget, brokenOff>>

\* ... and a node of the cluster: add_node asks it for its config, then
\* commits AddNode, if that does not fail.
RequestConfig(x) ==
    /\ x \in (alive \cap servers) \ (Members \cup joining)
    /\ Spend("join")
    /\ joining' = joining \cup {x}
    /\ UNCHANGED <<alive, clusters, servers, queueView, reportView, queue, probe,
                   brokenOff>>

AddNode(x) ==
    /\ x \in joining
    /\ Commit(Members \cup {x})
    /\ joining' = joining \ {x}
    /\ brokenOff' = brokenOff \ {x}
    /\ UNCHANGED <<alive, servers, queueView, reportView, queue, probe, budget>>

\* A node stops, and is started with nothing in memory.
Crash(x) ==
    /\ x \in alive /\ Spend("crash")
    /\ alive' = alive \ {x}
    /\ queueView' = [queueView EXCEPT ![x] = 0]
    /\ reportView' = [reportView EXCEPT ![x] = 0]
    /\ queue' = [queue EXCEPT ![x] = {}]
    /\ probe' = [n \in Node |->
                    IF n = x \/ probe[n] = NoProbe THEN NoProbe
                    ELSE [probe[n] EXCEPT !.up = @ \ {x}]]
    /\ brokenOff' = brokenOff \cup Owed(x)
    /\ UNCHANGED <<clusters, servers, joining>>

Start(x) ==
    /\ x \in Node \ alive /\ Spend("start")
    /\ alive' = alive \cup {x}
    /\ UNCHANGED <<clusters, servers, joining, queueView, reportView, queue, probe,
                   brokenOff>>

------------------------------------------------------------------------------
Learn(n) == LearnQueue(n) \/ LearnReporter(n)
Loop(n) == RunOnce(n) \/ \E x \in Node : Report(n, x)
Task(n) ==
    \/ \E y \in Node : Cleared(n, y) \/ Unanswered(n, y)
    \/ RemoveNode(n)
    \/ RemoveServer(n)

Operator(x) == AddServer(x) \/ RequestConfig(x) \/ AddNode(x)

Fails(n) ==
    \/ \E y \in Node : PingLost(n, y)
    \/ NotifyFails(n)
    \/ Crash(n)
    \/ Start(n)

Next == \E n \in Node : Learn(n) \/ Loop(n) \/ Task(n) \/ Operator(n) \/ Fails(n)

Spec == Init /\ [][Next]_vars

\* The runtime runs what can run, and who is picked again and again by
\* chance is picked sometimes whenever that is possible.
FairSpec ==
    /\ Spec
    /\ \A n \in Watchers :
          /\ WF_vars(Learn(n)) /\ WF_vars(RunOnce(n)) /\ WF_vars(Task(n))
          /\ \A x \in Node \ {n} : SF_vars(Report(n, x))

------------------------------------------------------------------------------
\* A node that was up all along is reported only when a ping was lost on its
\* own path and on that of every proxy that was up all along (queue.rs 70-95).
NoFalseReport ==
    \A n \in Node :
        probe[n].st = "notify" =>
            (probe[n].suspect \in probe[n].up => probe[n].up \subseteq probe[n].lost)

\* remove_node comes before remove_server, and a node is a server before it
\* is a member, so a member is a server; unless it was removed before, and
\* the remove_server that went with it came after it had joined again.
HasLeft(x) ==
    \E i, j \in DOMAIN clusters : i < j /\ x \in clusters[i] /\ x \notin clusters[j]
MembersAreServers ==
    \A x \in Members \ servers : HasLeft(x)

\* A node that stays down is removed from the cluster, whoever else comes
\* and goes, when commits stay possible.
DeadIsRemoved ==
    \A x \in Node :
        <>[](x \notin alive /\ Committable) => <>[](x \notin Members)

\* ... and from Raft, where it would count in every majority: a member that is
\* down leaves Raft too or comes back, whatever else stops, joins or fails,
\* unless a removal broke off between its two calls, by an error or with the
\* node that ran it (fd_app_out_impl.rs).
DeadLeavesRaft ==
    <>[]Committable =>
        \A x \in Node :
            (x \in Members \ alive) ~> (x \in alive \/ x \notin servers \/ x \in brokenOff)

\* A node that has left for good is forgotten: who goes on as a Raft server,
\* while commits stay possible, comes to suspect it no more, though app_in.rs
\* tells queue and reporter one after the other, and a suspect picked from the
\* old map still waits in the queue or in a task (queue.rs 63-100).
Suspects(n, x) == x \in queue[n] \/ (probe[n] # NoProbe /\ probe[n].suspect = x)
LeftIsForgotten ==
    \A n \in Watchers, x \in Node :
        <>[](n \in alive \cap servers /\ x \notin Members /\ Committable)
            => <>[]~Suspects(n, x)
==============================================================================
