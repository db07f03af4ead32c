--------------------------- MODULE RaftServiceProofs ---------------------------
(***************************************************************************)
(* A version names a map: the theorem that lets module Storage, and the    *)
(* nodes when they send each other pieces, speak of versions alone.  It    *)
(* holds for any number of servers and commands, and whatever fails.       *)
(***************************************************************************)
EXTENDS RaftService, FiniteSetTheorems, TLAPS

\* A command changes nothing, or makes the next version.
LEMMA EffectVersion ==
    ASSUME NEW cmd, NEW st
    PROVE  Effect(cmd, st) = st \/ Effect(cmd, st).version = st.version + 1
BY DEF Effect, add_node, remove_node

\* A command processed again changes nothing (process_write after an error).
LEMMA EffectAgain ==
    ASSUME NEW cmd, NEW st
    PROVE  Effect(cmd, Effect(cmd, st)) = Effect(cmd, st)
<1>1. CASE Effect(cmd, st) = st
  BY <1>1
<1>2. CASE Effect(cmd, st) # st
  <2> DEFINE new == Effect(cmd, st)
  <2>1. CASE cmd.op = "AddNode"
    <3>1. DOMAIN new.uri_map = DOMAIN st.uri_map \cup {cmd.uri}
      BY <1>2, <2>1 DEF Effect, add_node
    <3>2. Known(new, cmd.uri)
      BY <3>1 DEF Known
    <3> HIDE DEF new
    <3>3. Effect(cmd, new) = new
      BY <2>1, <3>2 DEF Effect, add_node
    <3> QED BY <3>3 DEF new
  <2>2. CASE cmd.op # "AddNode"
    <3>1. DOMAIN new.uri_map = DOMAIN st.uri_map \ {cmd.uri}
      BY <1>2, <2>2 DEF Effect, remove_node
    <3>2. ~Known(new, cmd.uri)
      BY <3>1 DEF Known
    <3> HIDE DEF new
    <3>3. Effect(cmd, new) = new
      BY <2>2, <3>2 DEF Effect, remove_node
    <3> QED BY <3>3 DEF new
  <2> QED BY <2>1, <2>2
<1> QED BY <1>1, <1>2

------------------------------------------------------------------------------
Indices == 0..Len(log)

\* The states the log leads to: versions grow along it, and two states of
\* one version are the same.
Agreed ==
    /\ log \in Seq(Command)
    /\ DOMAIN agreed = Indices
    /\ agreed[0] = New
    /\ \A i \in Indices : agreed[i].version \in Nat
    /\ \A i \in Indices \ {0} : agreed[i] = Effect(log[i], agreed[i - 1])
    /\ \A i, j \in Indices : i <= j =>
          /\ agreed[i].version <= agreed[j].version
          /\ agreed[i].version = agreed[j].version => agreed[i] = agreed[j]

\* The state of a server is the one the commands it has applied lead to, or,
\* while process_write of the next command is under way or failed, the next.
Follows(s) ==
    /\ applied[s] \in Indices
    /\ \/ state[s] = agreed[applied[s]]
       \/ applied[s] + 1 \in Indices /\ state[s] = agreed[applied[s] + 1]

JobOK(s) ==
    /\ job[s].pc = "apply" =>
          /\ job[s].index = applied[s] + 1 /\ job[s].index \in Indices
          /\ state[s] = agreed[job[s].index]
    /\ job[s].pc = "install" =>
          /\ job[s].index \in Indices
          /\ job[s].st = agreed[job[s].index]

SavedOK(s) == saved[s].index \in Indices /\ saved[s].st = agreed[saved[s].index]

ToldOK(s) == \E i \in Indices : told[s] = MapOf(agreed[i])

Inv ==
    /\ Agreed
    /\ \A f \in {state, applied, job, told, saved} :
          f = [s \in Server |-> f[s]]
    /\ \A s \in Server : Follows(s) /\ JobOK(s) /\ SavedOK(s) /\ ToldOK(s)

LEMMA InvInit == Init => Inv
<1> SUFFICES ASSUME Init PROVE Inv
  OBVIOUS
<1>1. log = << >> /\ Len(log) = 0 /\ Indices = {0}
  BY DEF Init, Indices
<1>2. agreed[0] = New /\ DOMAIN agreed = {0} /\ New.version = 0
  BY DEF Init, New
<1>3. Agreed
  BY <1>1, <1>2 DEF Agreed
<1>4. \A s \in Server : Follows(s) /\ JobOK(s) /\ SavedOK(s) /\ ToldOK(s)
  BY <1>1, <1>2 DEF Init, Follows, JobOK, SavedOK, ToldOK, NoJob
<1> QED BY <1>3, <1>4 DEF Inv, Init

\* Committing a command extends what has been agreed.
LEMMA AgreedGrows ==
    ASSUME Agreed, NEW cmd \in Command, Commit(cmd)
    PROVE  /\ Agreed'
           /\ Indices \subseteq Indices'
           /\ \A i \in Indices : agreed'[i] = agreed[i]
<1> DEFINE n == Len(log)
<1>1. /\ n \in Nat /\ log' = Append(log, cmd) /\ log' \in Seq(Command)
      /\ Len(log') = n + 1 /\ log'[n + 1] = cmd
      /\ \A i \in 1..n : log'[i] = log[i]
  BY DEF Agreed, Commit
<1>2. Indices = 0..n /\ Indices' = 0..n + 1
  BY <1>1 DEF Indices
<1>3. /\ DOMAIN agreed' = 0..n + 1
      /\ \A i \in 0..n : agreed'[i] = agreed[i]
      /\ agreed'[n + 1] = Effect(cmd, agreed[n])
  BY <1>1 DEF Commit
<1> HIDE DEF n
<1>4. \/ agreed'[n + 1] = agreed[n]
      \/ agreed'[n + 1].version = agreed[n].version + 1
  BY <1>3, EffectVersion
<1>5. \A i \in 0..n : agreed[i].version \in Nat
  BY <1>2 DEF Agreed
<1>6. \A i \in Indices' : agreed'[i].version \in Nat
  <2> TAKE i \in Indices'
  <2>1. CASE i \in 0..n
    BY <1>3, <1>5, <2>1
  <2>2. CASE i = n + 1
    <3>1. n \in 0..n
      BY <1>1
    <3> QED BY <1>4, <1>5, <2>2, <3>1
  <2> QED BY <1>1, <1>2, <2>1, <2>2
<1>7. ASSUME NEW i \in Indices' \ {0}
      PROVE  agreed'[i] = Effect(log'[i], agreed'[i - 1])
  <2>1. CASE i \in 1..n
    <3>1. i - 1 \in 0..n /\ i \in 0..n
      BY <1>1, <2>1
    <3> QED BY <1>1, <1>2, <1>3, <2>1, <3>1 DEF Agreed
  <2>2. CASE i = n + 1
    <3>1. i - 1 = n /\ n \in 0..n
      BY <1>1, <2>2
    <3> QED BY <1>1, <1>3, <2>2, <3>1
  <2> QED BY <1>1, <1>2, <2>1, <2>2
<1>8. ASSUME NEW i \in Indices', NEW j \in Indices', i <= j
      PROVE  /\ agreed'[i].version <= agreed'[j].version
             /\ agreed'[i].version = agreed'[j].version => agreed'[i] = agreed'[j]
  <2>1. CASE j \in 0..n
    <3>1. i \in 0..n
      BY <1>1, <1>2, <1>8, <2>1
    <3> QED BY <1>2, <1>3, <1>8, <2>1, <3>1 DEF Agreed
  <2>2. CASE j = n + 1 /\ i = n + 1
    BY <1>6, <2>2
  <2>3. CASE j = n + 1 /\ i \in 0..n
    <3>1. n \in 0..n /\ i <= n
      BY <1>1, <2>3
    <3>2. /\ agreed[i].version <= agreed[n].version
          /\ agreed[i].version = agreed[n].version => agreed[i] = agreed[n]
      BY <1>2, <2>3, <3>1 DEF Agreed
    <3>3. agreed[i].version \in Nat /\ agreed[n].version \in Nat
      BY <1>5, <2>3, <3>1
    <3>4. agreed'[i] = agreed[i]
      BY <1>3, <2>3
    <3>5. CASE agreed'[n + 1] = agreed[n]
      BY <2>3, <3>2, <3>4, <3>5
    <3>6. CASE agreed'[n + 1].version = agreed[n].version + 1
      BY <2>3, <3>2, <3>3, <3>4, <3>6
    <3> QED BY <1>4, <3>5, <3>6
  <2> QED BY <1>1, <1>2, <2>1, <2>2, <2>3
<1>9. agreed'[0] = New
  <2>1. 0 \in 0..n
    BY <1>1
  <2> QED BY <1>3, <2>1 DEF Agreed
<1> QED
  BY <1>1, <1>2, <1>3, <1>6, <1>7, <1>8, <1>9 DEF Agreed

\* What is said of one server, and of its being a value of the variables.
ServerOK(s) == Follows(s) /\ JobOK(s) /\ SavedOK(s) /\ ToldOK(s)

\* The servers that do not take part in a step are not concerned.
LEMMA OthersOK ==
    ASSUME NEW s, ServerOK(s), UNCHANGED <<log, agreed>>,
           UNCHANGED <<state[s], applied[s], job[s], told[s], saved[s]>>
    PROVE  ServerOK(s)'
BY DEF ServerOK, Follows, JobOK, SavedOK, ToldOK, Indices

\* A step of server s alone preserves the invariant if it keeps s right.
LEMMA ServerStep ==
    ASSUME Inv, NEW s \in Server, UNCHANGED <<log, agreed>>, ServerOK(s)',
           \A f \in {state', applied', job', told', saved'} :
              f = [t \in Server |-> f[t]],
           \A t \in Server \ {s} :
              UNCHANGED <<state[t], applied[t], job[t], told[t], saved[t]>>
    PROVE  Inv'
<1>1. Agreed'
  BY DEF Inv, Agreed, Indices
<1>2. \A t \in Server : ServerOK(t)'
  <2> TAKE t \in Server
  <2>1. CASE t = s
    BY <2>1
  <2>2. CASE t # s
    BY <2>2, OthersOK DEF Inv, ServerOK
  <2> QED BY <2>1, <2>2
<1> QED BY <1>1, <1>2 DEF Inv, ServerOK

LEMMA InvCommit ==
    ASSUME Inv, NEW cmd \in Command, Commit(cmd)
    PROVE  Inv'
<1>1. /\ Agreed' /\ Indices \subseteq Indices'
      /\ \A i \in Indices : agreed'[i] = agreed[i]
  BY AgreedGrows DEF Inv
<1>2. UNCHANGED <<state, applied, job, told, saved>>
  BY DEF Commit
<1>3. ASSUME NEW s \in Server PROVE ServerOK(s)'
  <2>1. ServerOK(s)
    BY DEF Inv, ServerOK
  <2>2. Follows(s)'
    BY <1>1, <1>2, <2>1 DEF ServerOK, Follows
  <2>3. JobOK(s)'
    BY <1>1, <1>2, <2>1 DEF ServerOK, JobOK
  <2>4. SavedOK(s)'
    BY <1>1, <1>2, <2>1 DEF ServerOK, SavedOK
  <2>5. ToldOK(s)'
    BY <1>1, <1>2, <2>1 DEF ServerOK, ToldOK
  <2> QED BY <2>2, <2>3, <2>4, <2>5 DEF ServerOK
<1> QED BY <1>1, <1>2, <1>3 DEF Inv, ServerOK

\* The state after process_write's update is the agreed one, the first time
\* and again.
LEMMA EffectAgreed ==
    ASSUME Agreed, NEW s, Follows(s), applied[s] < Len(log)
    PROVE  /\ applied[s] + 1 \in Indices
           /\ Effect(log[applied[s] + 1], state[s]) = agreed[applied[s] + 1]
<1>1. Len(log) \in Nat /\ applied[s] \in 0..Len(log)
  BY DEF Agreed, Follows, Indices
<1>2. applied[s] + 1 \in Indices \ {0} /\ (applied[s] + 1) - 1 = applied[s]
  BY <1>1 DEF Indices
<1>3. agreed[applied[s] + 1] = Effect(log[applied[s] + 1], agreed[applied[s]])
  BY <1>2 DEF Agreed
<1> QED BY <1>2, <1>3, EffectAgain DEF Follows

LEMMA InvServer ==
    ASSUME Inv, NEW s \in Server,
           ServerNext(s) \/ SetNewClusterFails(s) \/ Restart(s)
    PROVE  Inv'
<1>0. /\ Agreed /\ ServerOK(s)
      /\ \A f \in {state, applied, job, told, saved} :
            f = [t \in Server |-> f[t]]
  BY DEF Inv, ServerOK
<1>1. ASSUME ApplyCommand(s) PROVE Inv'
  <2> DEFINE x == Effect(log[applied[s] + 1], state[s])
  <2>1. applied[s] + 1 \in Indices /\ x = agreed[applied[s] + 1]
    BY <1>0, <1>1, EffectAgreed DEF ApplyCommand, ServerOK
  <2>2. /\ state'[s] = x /\ told'[s] = MapOf(x)
        /\ job'[s] = [pc |-> "apply", st |-> x, index |-> applied[s] + 1]
        /\ applied' = applied /\ saved' = saved
        /\ log' = log /\ agreed' = agreed
    BY <1>0, <1>1 DEF ApplyCommand
  <2> HIDE DEF x
  <2>3. ServerOK(s)'
    BY <1>0, <2>1, <2>2
    DEF ServerOK, Follows, JobOK, SavedOK, ToldOK, Indices
  <2> QED BY <1>0, <1>1, <2>3, ServerStep DEF ApplyCommand
<1>2. ASSUME CommandDone(s) PROVE Inv'
  <2>1. ServerOK(s)'
    BY <1>0, <1>2
    DEF CommandDone, ServerOK, Follows, JobOK, SavedOK, ToldOK, Indices, NoJob
  <2> QED BY <1>0, <1>2, <2>1, ServerStep DEF CommandDone
<1>3. ASSUME NEW t \in Server, InstallSnapshot(s, t) PROVE Inv'
  <2>1. SavedOK(t)
    BY DEF Inv
  <2>2. ServerOK(s)'
    BY <1>0, <1>3, <2>1
    DEF InstallSnapshot, ServerOK, Follows, JobOK, SavedOK, ToldOK, Indices
  <2> QED BY <1>0, <1>3, <2>2, ServerStep DEF InstallSnapshot
<1>4. ASSUME SnapshotDone(s) PROVE Inv'
  <2>1. ServerOK(s)'
    BY <1>0, <1>4
    DEF SnapshotDone, ServerOK, Follows, JobOK, SavedOK, ToldOK, Indices, NoJob
  <2> QED BY <1>0, <1>4, <2>1, ServerStep DEF SnapshotDone
<1>5. ASSUME SetNewClusterFails(s) PROVE Inv'
  <2>1. ServerOK(s)'
    BY <1>0, <1>5
    DEF SetNewClusterFails, ServerOK, Follows, JobOK, SavedOK, ToldOK, Indices,
        NoJob
  <2> QED BY <1>0, <1>5, <2>1, ServerStep DEF SetNewClusterFails
<1>6. ASSUME Restart(s) PROVE Inv'
  <2>1. 0 \in Indices /\ agreed[0] = New
    BY <1>0 DEF Agreed, Indices
  <2>2. ServerOK(s)'
    BY <1>0, <1>6, <2>1
    DEF Restart, ServerOK, Follows, JobOK, SavedOK, ToldOK, Indices, NoJob
  <2> QED BY <1>0, <1>6, <2>2, ServerStep DEF Restart
<1> QED
  BY <1>1, <1>2, <1>3, <1>4, <1>5, <1>6 DEF ServerNext

LEMMA InvStep == Inv /\ [Next]_vars => Inv'
<1> SUFFICES ASSUME Inv, [Next]_vars PROVE Inv'
  OBVIOUS
<1>1. CASE UNCHANGED vars
  BY <1>1 DEF vars, Inv, Agreed, Follows, JobOK, SavedOK, ToldOK, Indices
<1> QED BY <1>1, InvCommit, InvServer DEF Next

\* Nodes that run maps of one version run one map (make_cluster_map), even
\* when they got there by a snapshot, a command tried again, or a restart.
THEOREM VersionNamesMap == Spec => []SameVersionSameMap
<1>1. Inv => SameVersionSameMap
  <2> SUFFICES ASSUME Inv, NEW s \in Server, NEW t \in Server,
                      told[s].version = told[t].version
               PROVE  told[s] = told[t]
    BY DEF SameVersionSameMap
  <2>1. PICK i \in Indices : told[s] = MapOf(agreed[i])
    BY DEF Inv, ToldOK
  <2>2. PICK j \in Indices : told[t] = MapOf(agreed[j])
    BY DEF Inv, ToldOK
  <2>3. agreed[i].version = agreed[j].version
    BY <2>1, <2>2 DEF MapOf
  <2>4. i <= j \/ j <= i
    BY DEF Indices
  <2>5. agreed[i] = agreed[j]
    BY <2>3, <2>4 DEF Inv, Agreed
  <2> QED BY <2>1, <2>2, <2>5
<1> QED BY <1>1, InvInit, InvStep, PTL DEF Spec

------------------------------------------------------------------------------
Entry == [op : {"add"}, id : Nat, cap : Cap] \cup [op : {"remove"}, id : Nat]

\* A state whose table answers the ids of the names it knows, each of one
\* name; ids in use or used before are below next_id.
StateOK(st) ==
    /\ st.next_id \in Nat
    /\ \A u \in DOMAIN st.uri_map :
          st.uri_map[u] \in Nat /\ st.uri_map[u] < st.next_id
    /\ \A u, w \in DOMAIN st.uri_map : st.uri_map[u] = st.uri_map[w] => u = w
    /\ st.table \in Seq(Entry)
    /\ \A i \in DOMAIN st.table : st.table[i].id < st.next_id
    /\ IdsOf(st.table) = {st.uri_map[u] : u \in DOMAIN st.uri_map}

LEMMA EntryAppended ==
    ASSUME NEW t \in Seq(Entry), NEW e \in Entry
    PROVE  /\ Append(t, e) \in Seq(Entry)
           /\ Len(t) \in Nat /\ Len(Append(t, e)) = Len(t) + 1
           /\ DOMAIN t = 1..Len(t) /\ DOMAIN Append(t, e) = 1..Len(t) + 1
           /\ \A i \in 1..Len(t) : Append(t, e)[i] = t[i]
           /\ Append(t, e)[Len(t) + 1] = e
OBVIOUS

\* An id the table answers: its last entry is an addition.
LEMMA IdsOfMember ==
    ASSUME NEW t \in Seq(Entry), NEW id
    PROVE  id \in IdsOf(t) <=>
              \E i \in 1..Len(t) :
                 /\ t[i].op = "add" /\ t[i].id = id
                 /\ \A j \in i + 1..Len(t) : t[j].id # id
BY DEF IdsOf

\* An entry decides of its own id, and of no other.
LEMMA IdsOfAppend ==
    ASSUME NEW t \in Seq(Entry), NEW e \in Entry
    PROVE  IdsOf(Append(t, e)) =
              IF e.op = "add" THEN IdsOf(t) \cup {e.id} ELSE IdsOf(t) \ {e.id}
<1> DEFINE a == Append(t, e)
           n == Len(t)
<1>1. /\ a \in Seq(Entry) /\ n \in Nat /\ Len(a) = n + 1
      /\ \A i \in 1..n : a[i] = t[i]
      /\ a[n + 1] = e
  BY EntryAppended
<1> HIDE DEF a
<1>2. \A id : id \in IdsOf(a) <=>
              \E i \in 1..n + 1 :
                 /\ a[i].op = "add" /\ a[i].id = id
                 /\ \A j \in i + 1..n + 1 : a[j].id # id
  BY <1>1, IdsOfMember
<1>3. \A id : id \in IdsOf(t) <=>
              \E i \in 1..n :
                 /\ t[i].op = "add" /\ t[i].id = id
                 /\ \A j \in i + 1..n : t[j].id # id
  BY IdsOfMember
<1> HIDE DEF n
<1>4. ASSUME NEW id, id # e.id PROVE id \in IdsOf(a) <=> id \in IdsOf(t)
  <2>1. ASSUME NEW i \in 1..n
        PROVE  (\A j \in i + 1..n + 1 : a[j].id # id)
                  <=> (\A j \in i + 1..n : t[j].id # id)
    <3>1. \A j \in i + 1..n : j \in 1..n /\ j \in i + 1..n + 1
      BY <1>1
    <3>2. \A j \in i + 1..n + 1 : j \in i + 1..n \/ j = n + 1
      BY <1>1
    <3> QED BY <1>1, <1>4, <3>1, <3>2
  <2>2. \A i \in 1..n + 1 : i \in 1..n \/ i = n + 1
    BY <1>1
  <2>3. \A i \in 1..n : i \in 1..n + 1
    BY <1>1
  <2>4. ASSUME id \in IdsOf(t) PROVE id \in IdsOf(a)
    <3>1. PICK i \in 1..n : /\ t[i].op = "add" /\ t[i].id = id
                            /\ \A j \in i + 1..n : t[j].id # id
      BY <1>3, <2>4
    <3>2. a[i] = t[i] /\ i \in 1..n + 1
      BY <1>1, <2>3
    <3>3. \A j \in i + 1..n + 1 : a[j].id # id
      BY <2>1, <3>1
    <3> QED BY <1>2, <3>1, <3>2, <3>3
  <2>5. ASSUME id \in IdsOf(a) PROVE id \in IdsOf(t)
    <3>1. PICK i \in 1..n + 1 : /\ a[i].op = "add" /\ a[i].id = id
                                /\ \A j \in i + 1..n + 1 : a[j].id # id
      BY <1>2, <2>5
    <3>2. i \in 1..n
      BY <1>1, <1>4, <2>2, <3>1
    <3>3. a[i] = t[i] /\ \A j \in i + 1..n : t[j].id # id
      BY <1>1, <2>1, <3>1, <3>2
    <3> QED BY <1>3, <3>1, <3>2, <3>3
  <2> QED BY <2>4, <2>5
<1>5. e.id \in IdsOf(a) <=> e.op = "add"
  <2>1. n + 1 \in 1..n + 1 /\ (n + 1) + 1..n + 1 = {}
    BY <1>1
  <2>2. \A i \in 1..n + 1 : i = n + 1 \/ n + 1 \in i + 1..n + 1
    BY <1>1
  <2> QED BY <1>1, <1>2, <2>1, <2>2
<1>6. CASE e.op = "add"
  BY <1>4, <1>5, <1>6 DEF a
<1>7. CASE e.op # "add"
  BY <1>4, <1>5, <1>7 DEF a
<1> QED BY <1>6, <1>7

LEMMA NewOK == StateOK(New)
<1>1. New.table = << >> /\ New.uri_map = << >> /\ New.next_id = 0
  BY DEF New
<1>2. << >> \in Seq(Entry) /\ Len(<< >>) = 0 /\ DOMAIN << >> = {}
  OBVIOUS
<1>3. IdsOf(<< >>) = {}
  BY <1>2 DEF IdsOf
<1> QED BY <1>1, <1>2, <1>3 DEF StateOK

LEMMA AddOK ==
    ASSUME NEW st, StateOK(st), NEW uri, NEW cap \in Cap, ~Known(st, uri)
    PROVE  StateOK(add_node(st, uri, cap))
<1> DEFINE new == add_node(st, uri, cap)
           e == [op |-> "add", id |-> st.next_id, cap |-> cap]
<1>1. /\ DOMAIN new.uri_map = DOMAIN st.uri_map \cup {uri}
      /\ uri \notin DOMAIN st.uri_map
      /\ new.uri_map[uri] = st.next_id
      /\ \A u \in DOMAIN st.uri_map : new.uri_map[u] = st.uri_map[u]
      /\ new.table = Append(st.table, e)
      /\ new.next_id = st.next_id + 1
  BY DEF add_node, Known
<1>2. e \in Entry /\ e.op = "add" /\ e.id = st.next_id
  BY DEF Entry, StateOK
<1> HIDE DEF new, e
<1>3. /\ new.table \in Seq(Entry)
      /\ \A i \in DOMAIN new.table : new.table[i].id < new.next_id
  <2>1. /\ new.table \in Seq(Entry)
        /\ Len(st.table) \in Nat
        /\ DOMAIN st.table = 1..Len(st.table)
        /\ DOMAIN new.table = 1..Len(st.table) + 1
        /\ \A i \in 1..Len(st.table) : new.table[i] = st.table[i]
        /\ new.table[Len(st.table) + 1] = e
    BY <1>1, <1>2, EntryAppended DEF StateOK
  <2>2. ASSUME NEW i \in DOMAIN new.table PROVE new.table[i].id < new.next_id
    <3>1. CASE i \in 1..Len(st.table)
      <4>1. st.table[i] \in Entry
        BY <2>1, <3>1 DEF StateOK
      <4>2. st.table[i].id \in Nat
        BY <4>1 DEF Entry
      <4> QED BY <1>1, <2>1, <3>1, <4>2 DEF StateOK
    <3>2. CASE i = Len(st.table) + 1
      BY <1>1, <1>2, <2>1, <3>2 DEF StateOK
    <3> QED BY <2>1, <2>2, <3>1, <3>2
  <2> QED BY <2>1, <2>2
<1>4. IdsOf(new.table) = {new.uri_map[u] : u \in DOMAIN new.uri_map}
  <2>1. IdsOf(new.table) = IdsOf(st.table) \cup {st.next_id}
    BY <1>1, <1>2, IdsOfAppend DEF StateOK
  <2> QED BY <1>1, <2>1 DEF StateOK
<1>5. \A u \in DOMAIN new.uri_map :
         new.uri_map[u] \in Nat /\ new.uri_map[u] < new.next_id
  BY <1>1 DEF StateOK
<1>6. \A u, w \in DOMAIN new.uri_map : new.uri_map[u] = new.uri_map[w] => u = w
  BY <1>1 DEF StateOK
<1> QED BY <1>1, <1>3, <1>4, <1>5, <1>6 DEF StateOK, new

LEMMA RemoveOK ==
    ASSUME NEW st, StateOK(st), NEW uri, Known(st, uri)
    PROVE  StateOK(remove_node(st, uri))
<1> DEFINE new == remove_node(st, uri)
           e == [op |-> "remove", id |-> st.uri_map[uri]]
<1>1. /\ DOMAIN new.uri_map = DOMAIN st.uri_map \ {uri}
      /\ uri \in DOMAIN st.uri_map
      /\ \A u \in DOMAIN new.uri_map : new.uri_map[u] = st.uri_map[u]
      /\ new.table = Append(st.table, e)
      /\ new.next_id = st.next_id
  BY DEF remove_node, Known
<1>2. e \in Entry /\ e.op # "add" /\ e.id = st.uri_map[uri]
  BY <1>1 DEF Entry, StateOK
<1> HIDE DEF new, e
<1>3. /\ new.table \in Seq(Entry)
      /\ \A i \in DOMAIN new.table : new.table[i].id < new.next_id
  <2>1. /\ new.table \in Seq(Entry)
        /\ Len(st.table) \in Nat
        /\ DOMAIN st.table = 1..Len(st.table)
        /\ DOMAIN new.table = 1..Len(st.table) + 1
        /\ \A i \in 1..Len(st.table) : new.table[i] = st.table[i]
        /\ new.table[Len(st.table) + 1] = e
    BY <1>1, <1>2, EntryAppended DEF StateOK
  <2>2. \A i \in 1..Len(st.table) + 1 : i \in 1..Len(st.table) \/ i = Len(st.table) + 1
    BY <2>1
  <2> QED BY <1>1, <1>2, <2>1, <2>2 DEF StateOK
<1>4. IdsOf(new.table) = {new.uri_map[u] : u \in DOMAIN new.uri_map}
  <2>1. IdsOf(new.table) = IdsOf(st.table) \ {st.uri_map[uri]}
    BY <1>1, <1>2, IdsOfAppend DEF StateOK
  <2> QED BY <1>1, <2>1 DEF StateOK
<1> QED BY <1>1, <1>3, <1>4 DEF StateOK, new

LEMMA EffectOK ==
    ASSUME NEW cmd \in Command, NEW st, StateOK(st)
    PROVE  StateOK(Effect(cmd, st))
<1>1. CASE cmd.op = "AddNode"
  <2>1. cmd.cap \in Cap
    BY <1>1 DEF Command
  <2> QED BY <1>1, <2>1, AddOK DEF Effect, add_node
<1>2. CASE cmd.op # "AddNode"
  BY <1>2, RemoveOK DEF Effect, remove_node
<1> QED BY <1>1, <1>2

StatesOK == \A i \in Indices : StateOK(agreed[i])

LEMMA StatesInit == Init => StatesOK
BY NewOK DEF Init, StatesOK, Indices

LEMMA StatesStep == Inv /\ StatesOK /\ [Next]_vars => StatesOK'
<1> SUFFICES ASSUME Inv, StatesOK, [Next]_vars PROVE StatesOK'
  OBVIOUS
<1>1. ASSUME NEW cmd \in Command, Commit(cmd) PROVE StatesOK'
  <2>1. /\ Indices \subseteq Indices'
        /\ \A i \in Indices : agreed'[i] = agreed[i]
    BY <1>1, AgreedGrows DEF Inv
  <2>2. /\ Len(log) \in Nat /\ Len(log') = Len(log) + 1
        /\ agreed'[Len(log) + 1] = Effect(cmd, agreed[Len(log)])
    BY <1>1 DEF Inv, Agreed, Commit
  <2>3. \A i \in Indices' : i \in Indices \/ i = Len(log) + 1
    BY <2>2 DEF Indices
  <2>4. Len(log) \in Indices
    BY <2>2 DEF Indices
  <2>5. StateOK(agreed'[Len(log) + 1])
    BY <2>2, <2>4, EffectOK DEF StatesOK
  <2> QED BY <2>1, <2>3, <2>5 DEF StatesOK
<1>2. CASE UNCHANGED <<log, agreed>>
  BY <1>2 DEF StatesOK, Indices
<1>3. ASSUME NEW s \in Server,
             ServerNext(s) \/ SetNewClusterFails(s) \/ Restart(s)
      PROVE  UNCHANGED <<log, agreed>>
  BY <1>3 DEF ServerNext, ApplyCommand, CommandDone, InstallSnapshot,
     SnapshotDone, SetNewClusterFails, Restart
<1> QED BY <1>1, <1>2, <1>3 DEF Next, vars

\* Every id compute_holders may get from the table names one node, in the map
\* of every node at any time: its unwrap of idmap.get(id) does not panic.
THEOREM IdsAlwaysResolve == Spec => []IdsResolve
<1>1. Inv /\ StatesOK => IdsResolve
  <2> SUFFICES ASSUME Inv, StatesOK, NEW s \in Server
               PROVE  /\ IdsOf(told[s].table) = DOMAIN told[s].idmap
                      /\ \A id \in DOMAIN told[s].idmap :
                            Cardinality(told[s].idmap[id]) = 1
    BY DEF IdsResolve
  <2>1. PICK i \in Indices : told[s] = MapOf(agreed[i])
    BY DEF Inv, ToldOK
  <2> DEFINE st == agreed[i]
  <2>2. StateOK(st)
    BY DEF StatesOK
  <2>3. /\ told[s].table = st.table
        /\ DOMAIN told[s].idmap = {st.uri_map[u] : u \in DOMAIN st.uri_map}
        /\ \A id \in DOMAIN told[s].idmap :
              told[s].idmap[id] = {u \in DOMAIN st.uri_map : st.uri_map[u] = id}
    BY <2>1 DEF MapOf
  <2> HIDE DEF st
  <2>4. ASSUME NEW id \in DOMAIN told[s].idmap
        PROVE  Cardinality(told[s].idmap[id]) = 1
    <3>1. PICK u \in DOMAIN st.uri_map : st.uri_map[u] = id
      BY <2>3
    <3>2. told[s].idmap[id] = {u}
      BY <2>2, <2>3, <3>1 DEF StateOK
    <3> QED BY <3>2, FS_Singleton
  <2> QED BY <2>2, <2>3, <2>4 DEF StateOK
<1>2. Spec => [](Inv /\ StatesOK)
  BY InvInit, InvStep, StatesInit, StatesStep, PTL DEF Spec
<1> QED BY <1>1, <1>2, PTL

------------------------------------------------------------------------------
\* Only the refinement of MapHistory needs these: no version is left out, and
\* a node that may be told a map next has been told none that is newer.
VersionsReached ==
    \A v \in 0..agreed[Len(log)].version :
        \E i \in Indices : agreed[i].version = v

ToldBehind(s) ==
    /\ job[s].pc \in {"idle", "apply"} =>
          \E i \in Indices : i <= applied[s] + 1 /\ told[s] = MapOf(agreed[i])
    /\ job[s].pc = "install" => told[s] = MapOf(job[s].st)

HistoryInv == VersionsReached /\ \A s \in Server : ToldBehind(s)

LEMMA HistoryInit == Init => HistoryInv
<1> SUFFICES ASSUME Init PROVE HistoryInv
  OBVIOUS
<1>1. Len(log) = 0 /\ Indices = {0} /\ agreed[0] = New /\ New.version = 0
  BY DEF Init, Indices, New
<1>2. VersionsReached
  BY <1>1 DEF VersionsReached
<1>3. \A s \in Server : ToldBehind(s)
  BY <1>1 DEF Init, ToldBehind, NoJob
<1> QED BY <1>2, <1>3 DEF HistoryInv

\* The last state is one of the states, its version a number.
LEMMA LastAgreed ==
    ASSUME Agreed
    PROVE  /\ Len(log) \in Nat /\ Len(log) \in Indices
           /\ agreed[Len(log)].version \in Nat
           /\ \A i \in Indices : /\ agreed[i].version \in Nat
                                 /\ agreed[i].version <= agreed[Len(log)].version
BY DEF Agreed, Indices

\* A commit adds the state the command leads to, and no version in between.
LEMMA CommitGrows ==
    ASSUME Agreed, NEW cmd \in Command, Commit(cmd)
    PROVE  /\ Len(log') = Len(log) + 1
           /\ \A i \in Indices' : i \in Indices \/ i = Len(log')
           /\ \/ agreed'[Len(log')] = agreed[Len(log)]
              \/ agreed'[Len(log')].version = agreed[Len(log)].version + 1
<1>1. Len(log) \in Nat /\ Len(log') = Len(log) + 1
  BY DEF Agreed, Commit
<1>2. agreed'[Len(log')] = Effect(cmd, agreed[Len(log)])
  BY <1>1 DEF Commit
<1>3. \A i \in Indices' : i \in Indices \/ i = Len(log')
  BY <1>1 DEF Indices
<1> QED BY <1>1, <1>2, <1>3, EffectVersion

LEMMA ReachedCommit ==
    ASSUME Inv, VersionsReached, NEW cmd \in Command, Commit(cmd)
    PROVE  VersionsReached'
<1>1. /\ Agreed' /\ Indices \subseteq Indices'
      /\ \A i \in Indices : agreed'[i] = agreed[i]
  BY AgreedGrows DEF Inv
<1>2. \/ agreed'[Len(log')].version = agreed[Len(log)].version
      \/ agreed'[Len(log')].version = agreed[Len(log)].version + 1
  BY CommitGrows DEF Inv
<1>3. agreed[Len(log)].version \in Nat /\ Len(log') \in Indices'
  BY <1>1, LastAgreed DEF Inv, Agreed, Indices
<1> SUFFICES ASSUME NEW v \in 0..agreed'[Len(log')].version
             PROVE  \E i \in Indices' : agreed'[i].version = v
  BY DEF VersionsReached
<1>4. CASE v \in 0..agreed[Len(log)].version
  BY <1>1, <1>4 DEF VersionsReached
<1>5. CASE v = agreed'[Len(log')].version
  BY <1>3, <1>5
<1> QED BY <1>2, <1>3, <1>4, <1>5

\* What a step of server s leaves alone.
LEMMA OthersBehind ==
    ASSUME NEW s, ToldBehind(s), UNCHANGED <<log, agreed>>,
           UNCHANGED <<applied[s], job[s], told[s]>>
    PROVE  ToldBehind(s)'
BY DEF ToldBehind, Indices

LEMMA BehindServer ==
    ASSUME Inv, NEW s \in Server, ToldBehind(s),
           ServerNext(s) \/ SetNewClusterFails(s) \/ Restart(s)
    PROVE  ToldBehind(s)'
<1>0. /\ Agreed /\ ServerOK(s)
      /\ job = [t \in Server |-> job[t]] /\ told = [t \in Server |-> told[t]]
      /\ applied = [t \in Server |-> applied[t]]
  BY DEF Inv, ServerOK
<1>1. ASSUME ApplyCommand(s) PROVE ToldBehind(s)'
  <2> DEFINE x == Effect(log[applied[s] + 1], state[s])
  <2>1. applied[s] + 1 \in Indices /\ x = agreed[applied[s] + 1]
    BY <1>0, <1>1, EffectAgreed DEF ApplyCommand, ServerOK
  <2>2. /\ told'[s] = MapOf(x) /\ job'[s].pc = "apply" /\ applied' = applied
        /\ log' = log /\ agreed' = agreed
    BY <1>0, <1>1 DEF ApplyCommand
  <2>3. applied[s] + 1 <= applied[s] + 1
    BY <2>1 DEF Indices
  <2> HIDE DEF x
  <2> QED BY <2>1, <2>2, <2>3 DEF ToldBehind, Indices
<1>2. ASSUME CommandDone(s) PROVE ToldBehind(s)'
  <2>1. /\ job[s].pc = "apply" /\ job'[s].pc = "idle" /\ told' = told
        /\ applied'[s] = applied[s] + 1 /\ applied[s] \in Indices
        /\ log' = log /\ agreed' = agreed
    BY <1>0, <1>2 DEF CommandDone, NoJob, ServerOK, JobOK, Follows
  <2>2. PICK i \in Indices : i <= applied[s] + 1 /\ told[s] = MapOf(agreed[i])
    BY <2>1 DEF ToldBehind
  <2>3. i <= applied'[s] + 1
    BY <2>1, <2>2 DEF Indices
  <2> QED BY <2>1, <2>2, <2>3 DEF ToldBehind, Indices
<1>3. ASSUME NEW t \in Server, InstallSnapshot(s, t) PROVE ToldBehind(s)'
  <2>1. job'[s].pc = "install" /\ told'[s] = MapOf(job'[s].st)
    BY <1>0, <1>3 DEF InstallSnapshot
  <2> QED BY <2>1 DEF ToldBehind
<1>4. ASSUME SnapshotDone(s) PROVE ToldBehind(s)'
  <2>1. /\ job[s].pc = "install" /\ job'[s].pc = "idle" /\ told' = told
        /\ applied'[s] = job[s].index /\ job[s].index \in Indices
        /\ job[s].st = agreed[job[s].index]
        /\ log' = log /\ agreed' = agreed
    BY <1>0, <1>4 DEF SnapshotDone, NoJob, ServerOK, JobOK
  <2>2. job[s].index <= applied'[s] + 1
    BY <2>1 DEF Indices
  <2> QED BY <2>1, <2>2 DEF ToldBehind, Indices
<1>5. ASSUME SetNewClusterFails(s) PROVE ToldBehind(s)'
  <2>1. /\ job[s].pc = "apply" /\ job'[s].pc = "idle" /\ told' = told
        /\ applied' = applied /\ log' = log /\ agreed' = agreed
    BY <1>0, <1>5 DEF SetNewClusterFails, NoJob
  <2> QED BY <2>1 DEF ToldBehind, Indices
<1>6. ASSUME Restart(s) PROVE ToldBehind(s)'
  <2>1. 0 \in Indices /\ agreed[0] = New
    BY <1>0 DEF Agreed, Indices
  <2>2. /\ job'[s].pc = "idle" /\ told'[s] = MapOf(New) /\ applied'[s] = 0
        /\ log' = log /\ agreed' = agreed
    BY <1>0, <1>6 DEF Restart, NoJob
  <2> QED BY <2>1, <2>2 DEF ToldBehind, Indices
<1> QED BY <1>1, <1>2, <1>3, <1>4, <1>5, <1>6 DEF ServerNext

LEMMA HistoryStep == Inv /\ HistoryInv /\ [Next]_vars => HistoryInv'
<1> SUFFICES ASSUME Inv, HistoryInv, [Next]_vars PROVE HistoryInv'
  OBVIOUS
<1>1. ASSUME NEW cmd \in Command, Commit(cmd) PROVE HistoryInv'
  <2>1. /\ Indices \subseteq Indices'
        /\ \A i \in Indices : agreed'[i] = agreed[i]
    BY <1>1, AgreedGrows DEF Inv
  <2>2. UNCHANGED <<applied, job, told>>
    BY <1>1 DEF Commit
  <2>3. \A s \in Server : ToldBehind(s)'
    BY <2>1, <2>2 DEF HistoryInv, ToldBehind
  <2> QED BY <1>1, <2>3, ReachedCommit DEF HistoryInv
<1>2. CASE UNCHANGED vars
  BY <1>2 DEF vars, HistoryInv, VersionsReached, ToldBehind, Indices
<1>3. ASSUME NEW s \in Server,
             ServerNext(s) \/ SetNewClusterFails(s) \/ Restart(s)
      PROVE  HistoryInv'
  <2>1. UNCHANGED <<log, agreed>>
    BY <1>3 DEF ServerNext, ApplyCommand, CommandDone, InstallSnapshot,
       SnapshotDone, SetNewClusterFails, Restart
  <2>2. VersionsReached'
    BY <2>1 DEF HistoryInv, VersionsReached, Indices
  <2>3. ToldBehind(s)'
    BY <1>3, BehindServer DEF HistoryInv
  <2>4. ASSUME NEW t \in Server \ {s}
        PROVE  UNCHANGED <<applied[t], job[t], told[t]>>
    <3>1. /\ job = [r \in Server |-> job[r]] /\ told = [r \in Server |-> told[r]]
          /\ applied = [r \in Server |-> applied[r]]
      BY DEF Inv
    <3> QED BY <1>3, <3>1
      DEF ServerNext, ApplyCommand, CommandDone, InstallSnapshot, SnapshotDone,
          SetNewClusterFails, Restart
  <2>5. \A t \in Server : ToldBehind(t)'
    BY <2>1, <2>3, <2>4, OthersBehind DEF HistoryInv
  <2> QED BY <2>2, <2>5 DEF HistoryInv
<1> QED BY <1>1, <1>2, <1>3 DEF Next

\* The map of a version is that of any state of the version.
MapsRight ==
    /\ DOMAIN Maps = 0..agreed[Len(log)].version
    /\ Maps = [v \in DOMAIN Maps |-> Maps[v]]
    /\ \A i \in Indices : /\ agreed[i].version \in DOMAIN Maps
                          /\ Maps[agreed[i].version] = MapOf(agreed[i])

LEMMA MapsOf == Agreed /\ VersionsReached => MapsRight
<1> SUFFICES ASSUME Agreed, VersionsReached PROVE MapsRight
  OBVIOUS
<1>1. DOMAIN Maps = 0..agreed[Len(log)].version /\ Maps = [v \in DOMAIN Maps |-> Maps[v]]
  BY DEF Maps
<1>2. ASSUME NEW i \in Indices
      PROVE  /\ agreed[i].version \in DOMAIN Maps
             /\ Maps[agreed[i].version] = MapOf(agreed[i])
  <2> DEFINE v == agreed[i].version
             c == CHOOSE j \in DOMAIN agreed : agreed[j].version = v
  <2>1. v \in 0..agreed[Len(log)].version
    BY LastAgreed
  <2>2. Maps[v] = MapOf(agreed[c])
    BY <2>1 DEF Maps
  <2>3. DOMAIN agreed = Indices
    BY DEF Agreed
  <2>4. c \in Indices /\ agreed[c].version = v
    BY <2>3
  <2> HIDE DEF c
  <2>5. c <= i \/ i <= c
    BY <2>4 DEF Indices
  <2>6. agreed[c] = agreed[i]
    BY <2>4, <2>5 DEF Agreed
  <2> QED BY <1>1, <2>1, <2>2, <2>6
<1> QED BY <1>1, <1>2 DEF MapsRight

LEMMA LastIs ==
    ASSUME NEW m, NEW v \in Nat, DOMAIN m = 0..v
    PROVE  History!Last(m) = v
<1>1. v \in DOMAIN m /\ v + 1 \notin DOMAIN m
  OBVIOUS
<1>2. \A w \in DOMAIN m : w + 1 \notin DOMAIN m => w = v
  OBVIOUS
<1> QED BY <1>1, <1>2 DEF History!Last

LEMMA CommitImplements ==
    ASSUME Inv, VersionsReached, NEW cmd \in Command, Commit(cmd)
    PROVE  History!Extend \/ UNCHANGED <<Maps, told>>
<1> DEFINE a == agreed[Len(log)].version
           b == agreed'[Len(log')].version
<1>1. /\ Agreed /\ Agreed' /\ Indices \subseteq Indices' /\ VersionsReached'
      /\ \A i \in Indices : agreed'[i] = agreed[i]
  BY AgreedGrows, ReachedCommit DEF Inv
<1>2. /\ DOMAIN Maps = 0..a /\ Maps = [v \in DOMAIN Maps |-> Maps[v]]
      /\ \A i \in Indices : Maps[agreed[i].version] = MapOf(agreed[i])
  BY <1>1, MapsOf DEF MapsRight
<1>3. /\ DOMAIN Maps' = 0..b /\ Maps' = [v \in DOMAIN Maps' |-> Maps'[v]]
      /\ \A i \in Indices' : Maps'[agreed'[i].version] = MapOf(agreed'[i])
  <2>1. (Agreed /\ VersionsReached => MapsRight)'
    BY MapsOf, PTL
  <2> QED BY <1>1, <2>1 DEF MapsRight
<1>4. a \in Nat /\ Len(log') \in Indices'
  BY <1>1, LastAgreed, CommitGrows DEF Indices
<1>5. \A v \in DOMAIN Maps : Maps'[v] = Maps[v]
  <2> TAKE v \in DOMAIN Maps
  <2>1. PICK i \in Indices : agreed[i].version = v
    BY <1>2 DEF VersionsReached
  <2>2. agreed'[i] = agreed[i] /\ i \in Indices'
    BY <1>1
  <2> QED BY <1>2, <1>3, <2>1, <2>2
<1>6. told' = told
  BY DEF Commit
<1>7. b = a \/ b = a + 1
  BY <1>1, CommitGrows
<1>8. CASE b = a
  <2>1. Maps' = Maps
    BY <1>2, <1>3, <1>5, <1>8
  <2> QED BY <1>6, <2>1
<1>9. CASE b = a + 1
  <2>1. History!Last(Maps) = a
    BY <1>2, <1>4, LastIs
  <2>2. DOMAIN Maps' = DOMAIN Maps \cup {a + 1}
    BY <1>2, <1>3, <1>4, <1>9
  <2>3. Maps'[a + 1].version = a + 1
    <3>1. Maps'[b] = MapOf(agreed'[Len(log')])
      BY <1>3, <1>4
    <3> QED BY <1>9, <3>1 DEF MapOf
  <2> QED BY <1>5, <1>6, <2>1, <2>2, <2>3 DEF History!Extend
<1> QED BY <1>7, <1>8, <1>9

\* What process_write and install_snapshot tell is a map of the history that
\* is not older than the map told before.
LEMMA TellImplements ==
    ASSUME Inv, VersionsReached, NEW s \in Server, ToldBehind(s),
           job[s].pc = "idle", NEW i \in Indices, applied[s] + 1 <= i,
           told' = [told EXCEPT ![s] = MapOf(agreed[i])],
           UNCHANGED Maps
    PROVE  History!Tell(s)
<1>1. PICK j \in Indices : j <= applied[s] + 1 /\ told[s] = MapOf(agreed[j])
  BY DEF ToldBehind
<1>2. j <= i
  BY <1>1 DEF Inv, Follows, Indices
<1>3. agreed[i].version >= agreed[j].version
  BY <1>2 DEF Inv, Agreed
<1>4. told[s].version = agreed[j].version
  BY <1>1 DEF MapOf
<1>5. agreed[i].version \in DOMAIN Maps /\ Maps[agreed[i].version] = MapOf(agreed[i])
  BY MapsOf DEF Inv, MapsRight
<1> QED BY <1>3, <1>4, <1>5 DEF History!Tell

LEMMA ServerImplements ==
    ASSUME Inv, HistoryInv, NEW s \in Server,
           ServerNext(s) \/ SetNewClusterFails(s) \/ Restart(s)
    PROVE  History!Tell(s) \/ History!Restart(s) \/ UNCHANGED <<Maps, told>>
<1>1. UNCHANGED <<log, agreed>>
  BY DEF ServerNext, ApplyCommand, CommandDone, InstallSnapshot, SnapshotDone,
     SetNewClusterFails, Restart
<1>2. Maps' = Maps
  BY <1>1 DEF Maps
<1>3. ASSUME ApplyCommand(s) PROVE History!Tell(s)
  <2>1. /\ applied[s] + 1 \in Indices
        /\ Effect(log[applied[s] + 1], state[s]) = agreed[applied[s] + 1]
    BY <1>3, EffectAgreed DEF ApplyCommand, Inv
  <2>2. /\ job[s].pc = "idle"
        /\ told' = [told EXCEPT ![s] = MapOf(agreed[applied[s] + 1])]
    BY <1>3, <2>1 DEF ApplyCommand
  <2>3. applied[s] + 1 <= applied[s] + 1
    BY <2>1 DEF Indices
  <2> QED BY <1>2, <2>1, <2>2, <2>3, TellImplements DEF HistoryInv
<1>4. ASSUME NEW t \in Server, InstallSnapshot(s, t) PROVE History!Tell(s)
  <2>1. saved[t].index \in Indices /\ saved[t].st = agreed[saved[t].index]
    BY DEF Inv, SavedOK
  <2>2. /\ job[s].pc = "idle" /\ saved[t].index > applied[s]
        /\ told' = [told EXCEPT ![s] = MapOf(agreed[saved[t].index])]
    BY <1>4, <2>1 DEF InstallSnapshot
  <2>3. applied[s] + 1 <= saved[t].index
    BY <2>1, <2>2 DEF Inv, Follows, Indices
  <2> QED BY <1>2, <2>1, <2>2, <2>3, TellImplements DEF HistoryInv
<1>5. ASSUME Restart(s) PROVE History!Restart(s)
  BY <1>2, <1>5 DEF Restart, History!Restart
<1>6. CASE CommandDone(s) \/ SnapshotDone(s) \/ SetNewClusterFails(s)
  BY <1>2, <1>6 DEF CommandDone, SnapshotDone, SetNewClusterFails
<1> QED BY <1>3, <1>4, <1>5, <1>6 DEF ServerNext

\* However a node comes by its maps, by commands, commands tried again,
\* snapshots or after a restart: all nodes are told maps of one history, and a
\* node that runs never an older one than before (raft_service.rs).
THEOREM RaftImplementsMapHistory == Spec => ImplementsMapHistory
<1>1. Init => History!Init
  <2> SUFFICES ASSUME Init PROVE History!Init
    OBVIOUS
  <2>1. Len(log) = 0 /\ Indices = {0} /\ agreed[0] = New /\ New.version = 0
    BY DEF Init, Indices, New
  <2>2. Agreed /\ VersionsReached
    BY InvInit, HistoryInit DEF Inv, HistoryInv
  <2>3. /\ DOMAIN Maps = {0} /\ Maps = [v \in DOMAIN Maps |-> Maps[v]]
        /\ Maps[0] = MapOf(New)
    BY <2>1, <2>2, MapsOf DEF MapsRight
  <2>4. Maps = [v \in {0} |-> MapOf(New)]
    BY <2>3
  <2> QED BY <2>4 DEF Init, History!Init
<1>2. Inv /\ HistoryInv /\ [Next]_vars => [History!Next]_(History!vars)
  <2> SUFFICES ASSUME Inv, HistoryInv, [Next]_vars
               PROVE  History!Next \/ UNCHANGED <<Maps, told>>
    BY DEF History!vars
  <2>1. ASSUME NEW cmd \in Command, Commit(cmd)
        PROVE  History!Next \/ UNCHANGED <<Maps, told>>
    BY <2>1, CommitImplements DEF HistoryInv, History!Next
  <2>2. ASSUME NEW s \in Server,
               ServerNext(s) \/ SetNewClusterFails(s) \/ Restart(s)
        PROVE  History!Next \/ UNCHANGED <<Maps, told>>
    BY <2>2, ServerImplements DEF History!Next
  <2>3. CASE UNCHANGED vars
    BY <2>3 DEF vars, Maps
  <2> QED BY <2>1, <2>2, <2>3 DEF Next
<1>3. Spec => [](Inv /\ HistoryInv)
  BY InvInit, InvStep, HistoryInit, HistoryStep, PTL DEF Spec
<1> QED BY <1>1, <1>2, <1>3, PTL DEF Spec, History!Spec, ImplementsMapHistory

==============================================================================
