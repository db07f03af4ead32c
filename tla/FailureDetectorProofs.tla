------------------------- MODULE FailureDetectorProofs -------------------------
(***************************************************************************)
(* FailureDetector for every set of nodes, every K and every number of     *)
(* faults: the type invariant, and that a node is reported, is a member    *)
(* that is no Raft server, or is left a Raft server that is no member,     *)
(* only for a cause.                                                       *)
(***************************************************************************)
EXTENDS FailureDetector, TLAPS

\* What makes NoFalseReport inductive: the paths not answered are the open
\* ones and, of those whose ends have been up, the lost ones.
PathsOf(p) == IF p.st = "ping1" THEN p.open \cup {p.suspect} ELSE p.open
Heard ==
    \A n \in Node : probe[n] # NoProbe =>
        /\ probe[n].up \subseteq alive
        /\ probe[n].st \in {"notify", "remove_server"} => probe[n].open = {}
        /\ probe[n].suspect \in probe[n].up =>
              probe[n].up \subseteq PathsOf(probe[n]) \cup probe[n].lost

\* What makes MembersAreServers inductive: a suspect was a member once, and
\* has left when it is to be removed from Raft.
Ever == {x \in Node : \E i \in DOMAIN clusters : x \in clusters[i]}
Known ==
    /\ \A n \in Node : queue[n] \subseteq Ever
    /\ \A n \in Node : probe[n] # NoProbe => probe[n].suspect \in Ever
    /\ \A n \in Node : probe[n] # NoProbe /\ probe[n].st = "remove_server" =>
                          HasLeft(probe[n].suspect)
Joined == \A x \in (Members \cup joining) \ servers : HasLeft(x)

IInv == TypeOK /\ Heard /\ Known /\ Joined

------------------------------------------------------------------------------
\* A task is no record without a suspect.
LEMMA ProbeKinds ==
    ASSUME NEW p \in Probe PROVE p # NoProbe
<1>1. p.st \in {"ping1", "ping2", "notify", "remove_server"} BY DEF Probe
<1>2. NoProbe.st = "none" BY DEF NoProbe
<1> QED BY <1>1, <1>2

\* The stages of a task tell it from none.
LEMMA Stage ==
    ASSUME NEW p \in Probe \cup {NoProbe},
           p.st \in {"ping1", "ping2", "notify", "remove_server"}
    PROVE  p \in Probe
BY DEF NoProbe

\* What Commit does to the history of the cluster.
LEMMA CommitHistory ==
    ASSUME TypeOK, NEW m \in SUBSET Node, Commit(m)
    PROVE  /\ clusters' \in Seq(SUBSET Node) /\ clusters' # << >>
           /\ Len(clusters) <= Len(clusters') /\ Members' = m
           /\ \A i \in DOMAIN clusters : i \in DOMAIN clusters' /\ clusters'[i] = clusters[i]
<1>1. CASE m = Members
  BY <1>1 DEF TypeOK, Commit, Members
<1>2. CASE m # Members
  <2>1. clusters' = Append(clusters, m) BY <1>2 DEF Commit
  <2>2. Len(clusters') = Len(clusters) + 1 /\ Len(clusters) \in Nat
    BY <2>1 DEF TypeOK
  <2> QED BY <2>1, <2>2 DEF TypeOK, Members
<1> QED BY <1>1, <1>2

\* The members of each version are nodes.
LEMMA AtNodes ==
    ASSUME TypeOK, NEW v \in Nat, v <= Len(clusters)
    PROVE  At(v) \subseteq Ever /\ Ever \subseteq Node
           /\ (v # 0 => v \in DOMAIN clusters /\ clusters[v] \subseteq Node)
BY DEF TypeOK, At, Ever

LEMMA MembersNodes ==
    ASSUME TypeOK
    PROVE  /\ Members \subseteq Ever /\ Ever \subseteq Node
           /\ Len(clusters) \in DOMAIN clusters
<1>1. Len(clusters) \in Nat /\ Len(clusters) > 0
  BY DEF TypeOK
<1> QED BY <1>1, AtNodes DEF At, Members

\* Having been a member, and having left, stay true.
LEMMA HistoryGrows ==
    ASSUME TypeOK, NEW m \in SUBSET Node, Commit(m)
    PROVE  /\ Ever \subseteq Ever'
           /\ \A x : HasLeft(x) => HasLeft(x)'
<1>1. \A i \in DOMAIN clusters : i \in DOMAIN clusters' /\ clusters'[i] = clusters[i]
  BY CommitHistory
<1>2. Ever \subseteq Ever'
  BY <1>1 DEF Ever
<1>3. ASSUME NEW x, HasLeft(x) PROVE HasLeft(x)'
  <2>1. PICK i, j \in DOMAIN clusters :
            i < j /\ x \in clusters[i] /\ x \notin clusters[j]
    BY <1>3 DEF HasLeft
  <2> QED BY <1>1, <2>1 DEF HasLeft
<1> QED BY <1>2, <1>3

\* Whoever was a member has left once it is not one.
LEMMA Leaves ==
    ASSUME TypeOK, NEW x \in Ever, Commit(Members \ {x})
    PROVE  HasLeft(x)'
<1> DEFINE m == Members \ {x}
<1>1. m \in SUBSET Node /\ Len(clusters) \in Nat
  BY MembersNodes DEF TypeOK
<1>2. /\ clusters' \in Seq(SUBSET Node) /\ Len(clusters) <= Len(clusters')
      /\ \A i \in DOMAIN clusters : i \in DOMAIN clusters' /\ clusters'[i] = clusters[i]
  BY <1>1, CommitHistory
<1>3. PICK i \in DOMAIN clusters : x \in clusters[i]
  BY DEF Ever
<1>4. i \in Nat /\ i <= Len(clusters)
  BY <1>3 DEF TypeOK
<1>5. Members' = m
  BY <1>1, CommitHistory
<1>6. Len(clusters') \in DOMAIN clusters' /\ x \notin clusters'[Len(clusters')]
  BY <1>1, <1>2, <1>4, <1>5, <1>3 DEF Members, TypeOK
<1>7. i # Len(clusters')
  BY <1>2, <1>3, <1>6
<1>8. i < Len(clusters')
  BY <1>1, <1>2, <1>4, <1>7
<1> QED BY <1>2, <1>3, <1>6, <1>8 DEF HasLeft

------------------------------------------------------------------------------
\* Initially no one is suspected and the members are the servers.
LEMMA InitInv == Init => IInv
<1> SUFFICES ASSUME Init PROVE IInv
  OBVIOUS
<1> USE ConstantAssumption
<1>1. clusters = <<InitialMembers>> /\ Len(clusters) = 1
  BY DEF Init
<1>2. clusters \in Seq(SUBSET Node) /\ Members = InitialMembers
  BY <1>1 DEF Members
<1>3. queueView \in [Node -> Nat] /\ reportView = queueView
      /\ \A n \in Node : queueView[n] <= 1
  BY DEF Init
<1>4. TypeOK
  BY <1>1, <1>2, <1>3 DEF Init, TypeOK
<1>5. Heard /\ Known /\ Joined
  BY <1>2 DEF Init, Heard, Known, Joined
<1> QED BY <1>4, <1>5 DEF IInv

\* The map reaches a node, and the loop picks a suspect.
LEMMA LearnInv ==
    ASSUME IInv, NEW n \in Node, Learn(n) PROVE IInv'
<1> USE DEF IInv
<1>1. UNCHANGED <<alive, clusters, servers, joining, queue, probe, budget,
                  brokenOff>>
  BY DEF Learn, LearnQueue, LearnReporter
<1>2. queueView' \in [Node -> Nat] /\ reportView' \in [Node -> Nat]
      /\ \A m \in Node : reportView'[m] <= queueView'[m] /\ queueView'[m] <= Len(clusters)
  <2>1. CASE LearnQueue(n)
    BY <2>1 DEF LearnQueue, TypeOK, Version
  <2>2. CASE LearnReporter(n)
    BY <2>2 DEF LearnReporter, TypeOK
  <2> QED BY <2>1, <2>2 DEF Learn
<1>3. TypeOK' BY <1>1, <1>2 DEF TypeOK
<1> QED BY <1>1, <1>3 DEF Heard, Known, Joined, PathsOf, HasLeft, Ever, Members

LEMMA ReportInv ==
    ASSUME IInv, NEW n \in Node, NEW x \in Node, Report(n, x) PROVE IInv'
<1> USE DEF IInv
<1>1. UNCHANGED <<alive, clusters, servers, joining, queueView, reportView, probe,
                  budget, brokenOff>>
  BY DEF Report
<1>2. x \in Ever
  <2>1. reportView[n] \in Nat /\ reportView[n] <= Len(clusters)
    BY DEF TypeOK
  <2>2. x \in At(reportView[n])
    BY DEF Report
  <2> QED BY <2>1, <2>2, AtNodes
<1>3. queue' = [queue EXCEPT ![n] = {x}] BY DEF Report
<1>4. TypeOK' BY <1>1, <1>3 DEF TypeOK
<1>5. Known' BY <1>1, <1>2, <1>3 DEF Known, TypeOK, Ever, HasLeft
<1> QED BY <1>1, <1>4, <1>5 DEF Heard, Joined, PathsOf, HasLeft, Members

\* A task changes itself only: what is to be shown of a step that changes
\* nothing else but the budget and the queue.
LEMMA TaskStep ==
    ASSUME IInv, NEW n \in Node,
           UNCHANGED <<alive, clusters, servers, joining, queueView, reportView>>,
           budget' \in [Fault -> Nat], brokenOff' \subseteq Node,
           queue' \in [Node -> SUBSET Node], \A m \in Node : queue'[m] \subseteq queue[m],
           NEW p \in Probe \cup {NoProbe}, probe' = [probe EXCEPT ![n] = p],
           p # NoProbe => /\ p.suspect \in Ever /\ p.st # "remove_server"
                          /\ p.up \subseteq alive
                          /\ p.st = "notify" => p.open = {}
                          /\ p.suspect \in p.up => p.up \subseteq PathsOf(p) \cup p.lost
    PROVE  IInv'
<1> USE DEF IInv
<1>1. TypeOK' BY DEF TypeOK
<1>2. \A m \in Node : probe'[m] = IF m = n THEN p ELSE probe[m]
  BY DEF TypeOK
<1>3. Heard' BY <1>2 DEF Heard, PathsOf
<1>4. Known' BY <1>2 DEF Known, Ever, HasLeft
<1>5. Joined' BY DEF Joined, HasLeft, Members
<1> QED BY <1>1, <1>3, <1>4, <1>5

LEMMA RunOnceInv ==
    ASSUME IInv, NEW n \in Node, RunOnce(n) PROVE IInv'
<1> USE DEF IInv
<1>1. PICK x \in queue[n] : \E proxies \in Proxies(At(queueView[n]) \ {x}) :
          probe' = [probe EXCEPT ![n] =
                       [st |-> "ping1", suspect |-> x, open |-> proxies,
                        lost |-> {}, up |-> (proxies \cup {x}) \cap alive]]
  BY DEF RunOnce
<1>2. PICK proxies \in Proxies(At(queueView[n]) \ {x}) :
          probe' = [probe EXCEPT ![n] =
                       [st |-> "ping1", suspect |-> x, open |-> proxies,
                        lost |-> {}, up |-> (proxies \cup {x}) \cap alive]]
  BY <1>1
<1>3. x \in Ever /\ x \in Node
  BY DEF Known, Ever
<1>4. proxies \subseteq Node
  <2>1. proxies \subseteq At(queueView[n]) BY DEF Proxies, kSubset
  <2> QED BY <2>1, AtNodes DEF TypeOK
<1> DEFINE p == [st |-> "ping1", suspect |-> x, open |-> proxies,
                 lost |-> {}, up |-> (proxies \cup {x}) \cap alive]
<1>5. p \in Probe BY <1>3, <1>4 DEF Probe
<1>6. /\ UNCHANGED <<alive, clusters, servers, joining, queueView, reportView, budget,
                    brokenOff>>
      /\ queue' = [queue EXCEPT ![n] = {}]
  BY DEF RunOnce
<1>7. budget' \in [Fault -> Nat] /\ brokenOff' \subseteq Node
      /\ queue' \in [Node -> SUBSET Node]
      /\ \A m \in Node : queue'[m] \subseteq queue[m]
  BY <1>6 DEF TypeOK
<1>8. p.up \subseteq PathsOf(p) BY DEF PathsOf
<1> QED BY <1>2, <1>3, <1>5, <1>6, <1>7, <1>8, TaskStep
LEMMA PingInv ==
    ASSUME IInv, NEW n \in Node, NEW y \in Node,
           Cleared(n, y) \/ Unanswered(n, y) \/ PingLost(n, y)
    PROVE  IInv'
<1> USE DEF IInv
<1> DEFINE q == probe[n]
<1>1. q \in Probe /\ q.st \in {"ping1", "ping2"} /\ q # NoProbe
  <2>1. q.st \in {"ping1", "ping2"} BY DEF Cleared, Unanswered, PingLost, Asks
  <2>2. q \in Probe BY <2>1, Stage DEF TypeOK
  <2> QED BY <2>1, <2>2, ProbeKinds
<1>2. q.suspect \in Ever BY <1>1 DEF Known
<1>3. /\ q.up \subseteq alive
      /\ q.suspect \in q.up => q.up \subseteq PathsOf(q) \cup q.lost
  BY <1>1 DEF Heard
<1>4. /\ UNCHANGED <<alive, clusters, servers, joining, queueView, reportView, queue>>
      /\ budget' \in [Fault -> Nat] /\ brokenOff' \subseteq Node
      /\ queue' \in [Node -> SUBSET Node] /\ \A m \in Node : queue'[m] \subseteq queue[m]
  <2>1. UNCHANGED <<alive, clusters, servers, joining, queueView, reportView, queue,
                  brokenOff>>
    BY DEF Cleared, Unanswered, PingLost
  <2>2. \/ budget' = budget
        \/ budget' = [budget EXCEPT !["loss"] = @ - 1] /\ budget["loss"] > 0
    BY DEF Cleared, Unanswered, PingLost, Spend
  <2>3. budget' \in [Fault -> Nat]
    BY <2>2 DEF TypeOK, Fault
  <2> QED BY <2>1, <2>3 DEF TypeOK
<1>5. CASE Cleared(n, y)
  <2>1. probe' = [probe EXCEPT ![n] = NoProbe] BY <1>5 DEF Cleared
  <2> QED BY <1>4, <2>1, TaskStep
<1> DEFINE p == Silent(q, y)
<1>6. /\ p \in Probe /\ p.st \in {"notify", "ping2"}
      /\ p.suspect = q.suspect /\ p.up = q.up /\ p.lost = q.lost
      /\ p.open = q.open \ {y}
      /\ p.st = "notify" => p.open = {}
  BY <1>1 DEF Silent, Probe
<1>7. q.suspect \in q.up => p.up \subseteq PathsOf(p) \cup p.lost \cup {y}
  <2>1. q.st = "ping1" => y = q.suspect
    BY <1>1 DEF Asks, Cleared, Unanswered, PingLost
  <2> QED BY <1>3, <1>6, <2>1 DEF PathsOf
<1>8. CASE Unanswered(n, y)
  <2>1. probe' = [probe EXCEPT ![n] = p] /\ ~({y, q.suspect} \subseteq alive)
    BY <1>8 DEF Unanswered
  <2>2. p.suspect \in p.up => p.up \subseteq PathsOf(p) \cup p.lost
    BY <1>3, <1>6, <1>7, <2>1
  <2> QED BY <1>2, <1>3, <1>4, <1>6, <2>1, <2>2, ProbeKinds, TaskStep
<1>9. CASE PingLost(n, y)
  <2> DEFINE r == [p EXCEPT !.lost = @ \cup {y}]
  <2>1. probe' = [probe EXCEPT ![n] = r] BY <1>9 DEF PingLost
  <2>2. /\ r \in Probe /\ r.st = p.st /\ r.suspect = p.suspect /\ r.up = p.up
        /\ r.open = p.open /\ r.lost = p.lost \cup {y}
    BY <1>6 DEF Probe
  <2>3. PathsOf(r) = PathsOf(p) BY <2>2 DEF PathsOf
  <2>4. r.suspect \in r.up => r.up \subseteq PathsOf(r) \cup r.lost
    BY <1>6, <1>7, <2>2, <2>3
  <2> HIDE DEF r
  <2>5. r # NoProbe =>
          /\ r.suspect \in Ever /\ r.st # "remove_server" /\ r.up \subseteq alive
          /\ r.st = "notify" => r.open = {}
          /\ r.suspect \in r.up => r.up \subseteq PathsOf(r) \cup r.lost
    BY <1>2, <1>3, <1>6, <2>2, <2>4
  <2> QED BY <1>4, <2>1, <2>2, <2>5, TaskStep
<1> QED BY <1>5, <1>8, <1>9

------------------------------------------------------------------------------
\* A task at "notify" removes its suspect from the cluster: it has left then.
LEMMA CommitRemoveInv ==
    ASSUME IInv, NEW n \in Node, probe[n].st = "notify",
           Commit(Members \ {probe[n].suspect}),
           UNCHANGED <<alive, servers, joining, queueView, reportView, queue>>,
           budget' \in [Fault -> Nat], brokenOff' \subseteq Node,
           NEW p \in Probe \cup {NoProbe}, probe' = [probe EXCEPT ![n] = p],
           p # NoProbe => /\ p.suspect = probe[n].suspect /\ p.st = "remove_server"
                          /\ p.up = {} /\ p.open = {}
    PROVE  IInv'
<1> USE DEF IInv
<1>1. probe[n] \in Probe /\ probe[n] # NoProbe
  BY Stage, ProbeKinds DEF TypeOK
<1>0. PICK x \in Node : x = probe[n].suspect
  BY <1>1 DEF Probe
<1> DEFINE m == Members \ {x}
<1>2. x \in Ever /\ x \in Node /\ m \in SUBSET Node
  BY <1>0, <1>1, MembersNodes DEF Known
<1>3. /\ clusters' \in Seq(SUBSET Node) /\ clusters' # << >>
      /\ Len(clusters) <= Len(clusters') /\ Members' = m
  BY <1>0, <1>2, CommitHistory
<1>4. Ever \subseteq Ever' /\ \A y : HasLeft(y) => HasLeft(y)'
  BY <1>0, <1>2, HistoryGrows
<1>5. HasLeft(x)'
  BY <1>0, <1>2, Leaves
<1>6. \A k \in Node : probe'[k] = IF k = n THEN p ELSE probe[k]
  BY DEF TypeOK
<1>7. TypeOK'
  <2>1. \A k \in Node : queueView[k] <= Len(clusters')
    BY <1>3 DEF TypeOK
  <2> QED BY <1>3, <1>6, <2>1 DEF TypeOK
<1>8. Heard' BY <1>6 DEF Heard, PathsOf
<1>9. Known' BY <1>0, <1>2, <1>4, <1>5, <1>6 DEF Known
<1>10. Joined' BY <1>3, <1>4 DEF Joined
<1> QED BY <1>7, <1>8, <1>9, <1>10

\* A task at "remove_server" removes its suspect, which has left, from Raft.
LEMMA RemoveServerInv ==
    ASSUME IInv, NEW n \in Node, probe[n].st = "remove_server",
           servers' = servers \ {probe[n].suspect},
           UNCHANGED <<alive, clusters, joining, queueView, reportView, queue>>,
           budget' \in [Fault -> Nat], brokenOff' \subseteq Node,
           probe' = [probe EXCEPT ![n] = NoProbe]
    PROVE  IInv'
<1> USE DEF IInv
<1>1. probe[n] \in Probe /\ probe[n] # NoProbe
  BY Stage, ProbeKinds DEF TypeOK
<1>2. HasLeft(probe[n].suspect)
  BY <1>1 DEF Known
<1>3. \A m \in Node : probe'[m] = IF m = n THEN NoProbe ELSE probe[m]
  BY DEF TypeOK
<1>4. TypeOK' BY DEF TypeOK
<1>5. Heard' BY <1>3 DEF Heard, PathsOf
<1>6. Known' BY <1>3 DEF Known, Ever, HasLeft
<1>7. Joined' BY <1>2 DEF Joined, HasLeft, Members
<1> QED BY <1>4, <1>5, <1>6, <1>7

LEMMA NotifyInv ==
    ASSUME IInv, NEW n \in Node, RemoveNode(n) \/ RemoveServer(n) \/ NotifyFails(n)
    PROVE  IInv'
<1> USE DEF IInv
<1>0. budget' \in [Fault -> Nat] /\ brokenOff' \subseteq Node
  <2>1. budget' \in [Fault -> Nat]
    BY DEF RemoveNode, RemoveServer, NotifyFails, Spend, TypeOK
  <2>2. brokenOff' \subseteq brokenOff \cup servers
    BY DEF RemoveNode, RemoveServer, NotifyFails, Owed
  <2> QED BY <2>1, <2>2 DEF TypeOK
<1>1. CASE RemoveNode(n)
  <2> DEFINE p == [probe[n] EXCEPT !.st = "remove_server", !.lost = {}, !.up = {}]
  <2>1. probe[n] \in Probe /\ probe[n].open = {}
    BY <1>1, Stage, ProbeKinds DEF RemoveNode, TypeOK, Heard
  <2>2. p \in Probe /\ p.suspect = probe[n].suspect /\ p.st = "remove_server"
        /\ p.up = {} /\ p.open = {}
    BY <2>1 DEF Probe
  <2>3. probe' = [probe EXCEPT ![n] = p]
    BY <1>1, <2>1 DEF RemoveNode, TypeOK
  <2> HIDE DEF p
  <2> QED BY <1>0, <1>1, <2>2, <2>3, CommitRemoveInv DEF RemoveNode
<1>2. CASE RemoveServer(n)
  BY <1>0, <1>2, RemoveServerInv DEF RemoveServer
<1>3. CASE NotifyFails(n)
  <2>1. CASE UNCHANGED <<clusters, servers>>
    BY <1>0, <1>3, <2>1, TaskStep DEF NotifyFails, TypeOK
  <2>2. CASE /\ probe[n].st = "notify" /\ Commit(Members \ {probe[n].suspect})
             /\ UNCHANGED servers
    BY <1>0, <1>3, <2>2, CommitRemoveInv DEF NotifyFails
  <2>3. CASE /\ probe[n].st = "remove_server"
             /\ servers' = servers \ {probe[n].suspect}
             /\ UNCHANGED clusters
    BY <1>0, <1>3, <2>3, RemoveServerInv DEF NotifyFails
  <2> QED BY <1>3, <2>1, <2>2, <2>3 DEF NotifyFails
<1> QED BY <1>1, <1>2, <1>3
------------------------------------------------------------------------------
\* Joining: only a Raft server is asked for its config.
LEMMA OperatorInv ==
    ASSUME IInv, NEW x \in Node, Operator(x) PROVE IInv'
<1> USE DEF IInv
<1>1. CASE AddServer(x)
  <2>1. /\ UNCHANGED <<alive, clusters, joining, queueView, reportView, queue,
                       probe, budget, brokenOff>>
        /\ servers' = servers \cup {x}
    BY <1>1 DEF AddServer
  <2> QED BY <2>1 DEF TypeOK, Heard, Known, Joined, PathsOf, HasLeft, Ever, Members
<1>2. CASE RequestConfig(x)
  <2>1. /\ UNCHANGED <<alive, clusters, servers, queueView, reportView, queue, probe>>
        /\ joining' = joining \cup {x} /\ x \in servers /\ brokenOff' = brokenOff
    BY <1>2 DEF RequestConfig
  <2>2. budget' \in [Fault -> Nat]
    BY <1>2 DEF RequestConfig, Spend, TypeOK, Fault
  <2> QED BY <2>1, <2>2 DEF TypeOK, Heard, Known, Joined, PathsOf, HasLeft, Ever, Members
<1>3. CASE AddNode(x)
  <2> DEFINE m == Members \cup {x}
  <2>1. /\ UNCHANGED <<alive, servers, queueView, reportView, queue, probe, budget>>
        /\ joining' = joining \ {x} /\ x \in joining /\ Commit(m)
        /\ brokenOff' = brokenOff \ {x}
    BY <1>3 DEF AddNode
  <2>2. m \in SUBSET Node BY MembersNodes
  <2>3. /\ clusters' \in Seq(SUBSET Node) /\ clusters' # << >>
        /\ Len(clusters) <= Len(clusters') /\ Members' = m
    BY <2>1, <2>2, CommitHistory
  <2>4. Ever \subseteq Ever' /\ \A y : HasLeft(y) => HasLeft(y)'
    BY <2>1, <2>2, HistoryGrows
  <2>5. TypeOK'
    <3>1. \A k \in Node : queueView[k] <= Len(clusters')
      BY <2>3 DEF TypeOK
    <3> QED BY <2>1, <2>3, <3>1 DEF TypeOK
  <2>6. Heard' BY <2>1 DEF Heard, PathsOf
  <2>7. Known' BY <2>1, <2>4 DEF Known
  <2>8. Joined' BY <2>1, <2>3, <2>4 DEF Joined
  <2> QED BY <2>5, <2>6, <2>7, <2>8
<1> QED BY <1>1, <1>2, <1>3 DEF Operator

\* What a task of which a node stops keeps.
LEMMA DownDuring ==
    ASSUME NEW p \in Probe, NEW x
    PROVE  /\ [p EXCEPT !.up = @ \ {x}] \in Probe
           /\ [p EXCEPT !.up = @ \ {x}].st = p.st
           /\ [p EXCEPT !.up = @ \ {x}].suspect = p.suspect
           /\ [p EXCEPT !.up = @ \ {x}].open = p.open
           /\ [p EXCEPT !.up = @ \ {x}].lost = p.lost
           /\ [p EXCEPT !.up = @ \ {x}].up = p.up \ {x}
BY DEF Probe

\* A crash ends the tasks of the node; a start changes none.
LEMMA CrashInv ==
    ASSUME IInv, NEW x \in Node, Crash(x) PROVE IInv'
<1> USE DEF IInv
<1>1. /\ UNCHANGED <<clusters, servers, joining>> /\ alive' = alive \ {x}
      /\ queueView' = [queueView EXCEPT ![x] = 0]
      /\ reportView' = [reportView EXCEPT ![x] = 0]
      /\ queue' = [queue EXCEPT ![x] = {}]
  BY DEF Crash
<1>2. budget' \in [Fault -> Nat] /\ brokenOff' \subseteq Node
  <2>1. budget' \in [Fault -> Nat] BY DEF Crash, Spend, TypeOK, Fault
  <2>2. brokenOff' \subseteq brokenOff \cup servers BY DEF Crash, Owed
  <2> QED BY <2>1, <2>2 DEF TypeOK
<1>3. \A n \in Node :
          \/ probe'[n] = NoProbe
          \/ probe[n] \in Probe /\ probe'[n] = [probe[n] EXCEPT !.up = @ \ {x}]
  BY DEF Crash, TypeOK
<1>4. \A n \in Node :
          \/ probe'[n] = NoProbe
          \/ /\ probe[n] \in Probe /\ probe'[n] \in Probe /\ probe[n] # NoProbe
             /\ probe'[n].st = probe[n].st /\ probe'[n].suspect = probe[n].suspect
             /\ probe'[n].open = probe[n].open /\ probe'[n].lost = probe[n].lost
             /\ probe'[n].up = probe[n].up \ {x}
  <2> TAKE n \in Node
  <2>1. CASE probe'[n] = NoProbe BY <2>1
  <2>2. CASE probe[n] \in Probe /\ probe'[n] = [probe[n] EXCEPT !.up = @ \ {x}]
    <3>1. PICK p \in Probe : p = probe[n] BY <2>2
    <3>2. probe'[n] = [p EXCEPT !.up = @ \ {x}] BY <2>2, <3>1
    <3> QED BY <3>1, <3>2, ProbeKinds, DownDuring
  <2> QED BY <1>3, <2>1, <2>2
<1>5. TypeOK'
  <2>1. probe' \in [Node -> Probe \cup {NoProbe}]
    <3>1. probe' = [n \in Node |-> probe'[n]] BY DEF Crash
    <3> QED BY <1>4, <3>1
  <2>2. \A n \in Node : reportView'[n] <= queueView'[n] /\ queueView'[n] <= Len(clusters)
    BY <1>1 DEF TypeOK
  <2> QED BY <1>1, <1>2, <2>1, <2>2 DEF TypeOK
<1>6. Heard' BY <1>1, <1>4 DEF Heard, PathsOf
<1>7. Known'
  <2>1. Ever' = Ever /\ \A y : HasLeft(y)' = HasLeft(y)
    BY <1>1 DEF Ever, HasLeft
  <2>2. \A n \in Node : queue'[n] \subseteq Ever
    BY <1>1 DEF Known, TypeOK
  <2>3. \A n \in Node : probe'[n] # NoProbe =>
           /\ probe[n] # NoProbe /\ probe'[n].st = probe[n].st
           /\ probe'[n].suspect = probe[n].suspect
    BY <1>4
  <2> QED BY <2>1, <2>2, <2>3 DEF Known
<1>8. Joined' BY <1>1 DEF Joined, HasLeft, Members
<1> QED BY <1>5, <1>6, <1>7, <1>8

LEMMA StartInv ==
    ASSUME IInv, NEW x \in Node, Start(x) PROVE IInv'
<1> USE DEF IInv
<1>1. /\ UNCHANGED <<clusters, servers, joining, queueView, reportView, queue, probe,
                    brokenOff>>
      /\ alive' = alive \cup {x}
  BY DEF Start
<1>2. budget' \in [Fault -> Nat]
  BY DEF Start, Spend, TypeOK, Fault
<1> QED BY <1>1, <1>2 DEF TypeOK, Heard, Known, Joined, PathsOf, HasLeft, Ever, Members

LEMMA NextInv == IInv /\ [Next]_vars => IInv'
<1> SUFFICES ASSUME IInv, [Next]_vars PROVE IInv'
  OBVIOUS
<1>1. CASE Next
  <2>1. PICK n \in Node : Learn(n) \/ Loop(n) \/ Task(n) \/ Operator(n) \/ Fails(n)
    BY <1>1 DEF Next
  <2>2. CASE Learn(n) BY <2>2, LearnInv
  <2>3. CASE Loop(n) BY <2>3, RunOnceInv, ReportInv DEF Loop
  <2>4. CASE Task(n) BY <2>4, PingInv, NotifyInv DEF Task
  <2>5. CASE Operator(n) BY <2>5, OperatorInv
  <2>6. CASE Fails(n) BY <2>6, PingInv, NotifyInv, CrashInv, StartInv DEF Fails
  <2> QED BY <2>1, <2>2, <2>3, <2>4, <2>5, <2>6
<1>2. CASE UNCHANGED vars
  BY <1>2 DEF vars, IInv, TypeOK, Heard, Known, Joined, PathsOf, HasLeft, Ever, Members
<1> QED BY <1>1, <1>2

LEMMA Inductive == Spec => []IInv
BY InitInv, NextInv, PTL DEF Spec

------------------------------------------------------------------------------
\* Every variable keeps its type, and a node's reporter is never told a map
\* before its queue (app_in.rs).
THEOREM FailureDetectorTypeOK == Spec => []TypeOK
<1>1. IInv => TypeOK BY DEF IInv
<1> QED BY <1>1, Inductive, PTL

LEMMA ReportHasCause ==
    ASSUME IInv, NEW n \in Node, probe[n].st = "notify",
           probe[n].suspect \in probe[n].up
    PROVE  probe[n].up \subseteq probe[n].lost
<1>1. probe[n] # NoProbe
  BY Stage, ProbeKinds DEF IInv, TypeOK
<1>2. PathsOf(probe[n]) = {}
  BY <1>1 DEF IInv, Heard, PathsOf
<1> QED BY <1>1, <1>2 DEF IInv, Heard

\* A node that was up all along is reported only when a ping was lost on its
\* own path and on that of every proxy that was up all along (queue.rs).
THEOREM FalseReportsHaveACause == Spec => []NoFalseReport
<1>1. IInv => NoFalseReport BY ReportHasCause DEF NoFalseReport
<1> QED BY <1>1, Inductive, PTL

\* A member that is no Raft server has left the cluster before: its
\* remove_server came after it had joined again (fd_app_out_impl.rs).
THEOREM MembersServe == Spec => []MembersAreServers
<1>1. IInv => MembersAreServers BY DEF IInv, Joined, MembersAreServers
<1> QED BY <1>1, Inductive, PTL

\* A node with a suspect in its queue has no task.
OneSuspect == \A n \in Node : queue[n] # {} => probe[n] = NoProbe
LEMMA OneSuspectHolds == Spec => []OneSuspect
<1>1. Init => OneSuspect
  BY DEF Init, OneSuspect
<1>2. IInv /\ OneSuspect /\ [Next]_vars => OneSuspect'
  <2> SUFFICES ASSUME IInv, OneSuspect, [Next]_vars, NEW m \in Node, queue'[m] # {}
               PROVE  probe'[m] = NoProbe
    BY DEF OneSuspect
  <2>1. CASE UNCHANGED vars BY <2>1 DEF OneSuspect, vars
  <2>2. CASE Next
    <3>1. PICK n \in Node : Learn(n) \/ Loop(n) \/ Task(n) \/ Operator(n) \/ Fails(n)
      BY <2>2 DEF Next
    <3>2. CASE Learn(n)
      BY <3>2 DEF Learn, LearnQueue, LearnReporter, OneSuspect
    <3>3. CASE \E x \in Node : Report(n, x)
      BY <3>3 DEF Report, OneSuspect, IInv, TypeOK
    <3>4. CASE RunOnce(n)
      BY <3>4 DEF RunOnce, OneSuspect, IInv, TypeOK
    <3>5. CASE \/ \E y \in Node : Cleared(n, y) \/ Unanswered(n, y) \/ PingLost(n, y)
               \/ RemoveNode(n) \/ RemoveServer(n) \/ NotifyFails(n)
      <4>1. queue' = queue /\ \A k \in Node : k # n => probe'[k] = probe[k]
        BY <3>5 DEF Cleared, Unanswered, PingLost, RemoveNode, RemoveServer,
           NotifyFails, IInv, TypeOK
      <4>2. probe[n] # NoProbe
        <5>1. probe[n].st \in {"ping1", "ping2", "notify", "remove_server"}
          BY <3>5 DEF Cleared, Unanswered, PingLost, Asks, RemoveNode, RemoveServer,
             NotifyFails
        <5> QED BY <5>1, Stage, ProbeKinds DEF IInv, TypeOK
      <4> QED BY <4>1, <4>2 DEF OneSuspect
    <3>6. CASE Operator(n)
      BY <3>6 DEF Operator, AddServer, RequestConfig, AddNode, OneSuspect
    <3>7. CASE Crash(n) \/ Start(n)
      BY <3>7 DEF Crash, Start, OneSuspect, IInv, TypeOK
    <3> QED BY <3>1, <3>2, <3>3, <3>4, <3>5, <3>6, <3>7 DEF Loop, Task, Fails
  <2> QED BY <2>1, <2>2
<1> QED BY <1>1, <1>2, Inductive, PTL DEF Spec

\* A Raft server outside the cluster that no task is about to remove.
Removes(n, x) == probe[n].st = "remove_server" /\ probe[n].suspect = x
Orphan(x) == x \in servers \ Members /\ \A n \in Node : ~Removes(n, x)

LEMMA OrphanStep ==
    ASSUME IInv, OneSuspect, Next, NEW x \in servers, ~Orphan(x), Orphan(x)'
    PROVE  x \in brokenOff'
<1>1. PICK n \in Node : Learn(n) \/ Loop(n) \/ Task(n) \/ Operator(n) \/ Fails(n)
  BY DEF Next
<1>2. ASSUME NEW m \in SUBSET Node, Commit(m) PROVE Members' = m
  BY <1>2, CommitHistory DEF IInv
<1>3. ASSUME clusters' = clusters,
             \A k \in Node : Removes(k, x) => Removes(k, x)'
      PROVE  FALSE
  BY <1>3 DEF Orphan, Members
<1>4. CASE \/ Learn(n) \/ \E y \in Node : Report(n, y)
           \/ AddServer(n) \/ RequestConfig(n) \/ Start(n)
  BY <1>3, <1>4 DEF Learn, LearnQueue, LearnReporter, Report, AddServer,
     RequestConfig, Start, Removes
<1>5. CASE AddNode(n)
  <2>1. Members \cup {n} \in SUBSET Node BY MembersNodes DEF IInv
  <2>2. Members' = Members \cup {n} BY <1>2, <1>5, <2>1 DEF AddNode
  <2> QED BY <1>5, <2>2 DEF AddNode, Orphan, Removes
<1>6. CASE RunOnce(n)
  <2>1. probe[n] = NoProbe BY <1>6 DEF RunOnce, OneSuspect
  <2>2. ~Removes(n, x) BY <2>1 DEF Removes, NoProbe
  <2>3. clusters' = clusters /\ \A k \in Node : k # n => probe'[k] = probe[k]
    BY <1>6 DEF RunOnce, IInv, TypeOK
  <2> QED BY <1>3, <2>2, <2>3 DEF Removes
<1>7. CASE \E y \in Node : Cleared(n, y) \/ Unanswered(n, y) \/ PingLost(n, y)
  <2>1. probe[n].st \in {"ping1", "ping2"}
    BY <1>7 DEF Cleared, Unanswered, PingLost, Asks
  <2>2. clusters' = clusters /\ \A k \in Node : k # n => probe'[k] = probe[k]
    BY <1>7 DEF Cleared, Unanswered, PingLost, IInv, TypeOK
  <2> QED BY <1>3, <2>1, <2>2 DEF Removes
<1>8. CASE RemoveNode(n) \/ RemoveServer(n) \/ NotifyFails(n)
  <2> DEFINE s == probe[n].suspect
  <2>1. probe[n] \in Probe
    BY <1>8, Stage DEF RemoveNode, RemoveServer, NotifyFails, IInv, TypeOK
  <2>2. \A k \in Node : k # n => probe'[k] = probe[k]
    BY <1>8 DEF RemoveNode, RemoveServer, NotifyFails, IInv, TypeOK
  <2>3. ASSUME Commit(Members \ {s}) PROVE Members' = Members \ {s}
    <3>1. Members \ {s} \in SUBSET Node BY MembersNodes DEF IInv
    <3> QED BY <1>2, <2>3, <3>1
  <2>4. x # s => x \in brokenOff'
    <3>1. SUFFICES ASSUME x # s PROVE FALSE OBVIOUS
    <3>2. x \notin Members' => x \notin Members
      BY <1>8, <2>3, <3>1 DEF RemoveNode, RemoveServer, NotifyFails, Members
    <3>3. \A k \in Node : Removes(k, x) => Removes(k, x)'
      BY <2>2, <3>1 DEF Removes
    <3> QED BY <3>2, <3>3 DEF Orphan
  <2>5. CASE x = s /\ RemoveNode(n)
    <3>1. probe'[n].st = "remove_server" /\ probe'[n].suspect = s
      BY <2>1, <2>5 DEF RemoveNode, Probe, IInv, TypeOK
    <3> QED BY <2>5, <3>1 DEF Orphan, Removes
  <2>6. CASE x = s /\ RemoveServer(n)
    BY <2>6 DEF RemoveServer, Orphan
  <2>7. CASE x = s /\ NotifyFails(n)
    <3>1. CASE probe[n].st = "notify" /\ clusters' = clusters
      BY <1>3, <2>2, <3>1 DEF Removes
    <3>2. CASE /\ probe[n].st = "notify"
               /\ brokenOff' = brokenOff \cup ({s} \cap servers)
      BY <2>7, <3>2
    <3>3. CASE probe[n].st = "remove_server" /\ brokenOff' = brokenOff \cup Owed(n)
               /\ UNCHANGED <<clusters, servers>>
      BY <2>7, <3>3 DEF Owed, Orphan, Members
    <3>4. CASE servers' = servers \ {s}
      BY <2>7, <3>4 DEF Orphan
    <3> QED BY <2>7, <3>1, <3>2, <3>3, <3>4 DEF NotifyFails
  <2> QED BY <1>8, <2>4, <2>5, <2>6, <2>7
<1>9. CASE Crash(n)
  <2>1. UNCHANGED <<clusters, servers>> /\ Members' = Members
    BY <1>9 DEF Crash, Members
  <2>2. brokenOff' = brokenOff \cup Owed(n)
    BY <1>9 DEF Crash
  <2>3. CASE Removes(n, x)
    BY <2>1, <2>2, <2>3 DEF Removes, Owed, Orphan
  <2>4. CASE ~Removes(n, x)
    <3>1. ASSUME NEW k \in Node, Removes(k, x) PROVE Removes(k, x)'
      <4>1. k # n /\ probe[k].st = "remove_server" /\ probe[k].suspect = x
        BY <2>4, <3>1 DEF Removes
      <4>2. probe[k] \in Probe /\ probe[k] # NoProbe
        BY <4>1, Stage, ProbeKinds DEF IInv, TypeOK
      <4>3. probe'[k] = [probe[k] EXCEPT !.up = @ \ {n}]
        BY <1>9, <4>1, <4>2 DEF Crash
      <4> QED BY <4>1, <4>2, <4>3, DownDuring DEF Removes
    <3> QED BY <1>3, <2>1, <3>1
  <2> QED BY <2>3, <2>4
<1> QED BY <1>1, <1>4, <1>5, <1>6, <1>7, <1>8, <1>9 DEF Loop, Task, Operator, Fails

\* A Raft server that leaves the cluster is on its way out of Raft: it is left
\* there with nobody to remove it only when a removal broke off between its two
\* calls, whoever else removes it, joins or stops meanwhile (fd_app_out_impl.rs).
THEOREM OrphansWereBrokenOff ==
    Spec => [][\A x \in servers : ~Orphan(x) /\ Orphan(x)' => x \in brokenOff']_vars
<1>1. IInv /\ OneSuspect /\ [Next]_vars =>
        [\A x \in servers : ~Orphan(x) /\ Orphan(x)' => x \in brokenOff']_vars
  BY OrphanStep
<1> QED BY <1>1, Inductive, OneSuspectHolds, PTL DEF Spec
==============================================================================
