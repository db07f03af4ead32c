# Sorock: specifications

Sorock is an object store. A value is cut into K data pieces and N - K parity
pieces (K = 4, N = 8); the N pieces of a key live on nodes that a hash ranks
for the key (ASURA), and any K different pieces give the value back. The list
of nodes is replicated by Raft. When it changes, every node moves the pieces
it must no longer hold and asks others to rebuild the ones that are missing.

This directory holds TLA+ models of that system, written from the source under
`src/`, the TLC configurations that check them, and proofs checked by TLAPS.

## 1. Inventory

A process runs the services below. Each is a norpc server that handles every
request in a task of its own, so two requests to one service interleave at
every `.await`.

| Component | State | Operations | Talks to |
|---|---|---|---|
| `cluster_map` | version, members, hash table | `compute_holders`, `members` | - |
| `raft_service` | the replicated cluster: names, ids, hash table, version | `process_write`, `install_snapshot` | `cluster_in` |
| `cluster_in` | - | `set_new_cluster` | failure detector, `io_front`, `peer_in`, `rebuild_queue`, `stabilizer`, in this order |
| `io_front` | its copy of the map | `create`, `read`, `sanity_check`, `set_new_cluster` | `peer_out` |
| `peer_in` | its copy of the map, with a read guard held in `save_piece` | `save_piece`, `find_any_pieces`, `piece_exists`, `set_new_cluster` | `piece_store`, `stabilizer`, `rebuild_queue` |
| `stabilizer` | its copy of the map, a queue of keys | `queue_task`, `flush_queue` (tick of 100 ms, and after a map), `set_new_cluster` | `piece_store`, `peer_out` |
| `rebuild_queue`, `rebuild` | its copy of the map, a queue of pieces | `queue_task`, `flush_queue` (tick of 500 ms), `set_new_cluster` | `piece_store`, `peer_out`, `stabilizer` |
| `peer_out`, `storage_service` | connections | the two ends of the RPCs between nodes; `add_node`, `remove_node` | `peer_in`, `io_front`, Raft |
| `piece_store` | pieces (SQLite, or in memory) | put, get, delete, exists, keys | - |
| failure detector | its copy of the members, a queue of suspects | suspect, ping, ping by proxy, notify | `storage_service.remove_node`, Raft |
| `main` | `dead_flag`, `init_flag` | start, ticks, shutdown | all |
| `data-loss-calculator` | - | prints the probability of a loss | apart from the system |

What is hard:

* **Interleaving.** A node learns a map in five steps while pieces arrive, two
  flushes of its stabilizer run, pieces are rebuilt and clients create keys;
  other nodes learn the same map at other times, or skip it.
* **Failure.** An RPC fails at its caller and is executed later; a move is
  abandoned half-way; the piece store fails; a node stops for ever, or shuts
  down and starts again without its queues and maps; a live node is suspected;
  a start is interrupted while it sets up the volume.
* **Ordering.** A piece sent under an old map must not be accepted where it
  would be lost or forgotten. The check is a version number.
* **Retry.** Raft runs a failed command again, the stabilizer and the rebuild
  queue try failed keys again, but nobody tries a refused piece again.

What makes it correct, by component: maps of the same version are equal
(`raft_service`); a piece is deleted only when another node has it
(`stabilizer`); nothing is accepted under an older map while it is saved or
moved (`peer_in`, `cluster_in`); what is missing is rebuilt (`rebuild_queue`);
what `create` acknowledged can be read, and `read` says that data are lost only
when it could not reach them (`io_front`); only who is silent on every path is
removed, and who stays silent is (failure detector); callers see a set of
pieces that survives a restart (`piece_store`); a volume that was left half
written is not used again (`main`). The hazards are listed,
each at its line, in `PROJECT.json`.

## 2. Modules

| Module | Models |
|---|---|
| `ClusterMap` | maps and `compute_holders`; the hash is external, so a map carries its answer `ids[key]` |
| `NodeState` | the state of all nodes and the `SendPiece` calls between them |
| `PeerIn`, `Stabilizer`, `ClusterIn`, `RebuildQueue`, `IOFront` | the actions of one service each |
| `Storage` | their composition, crashes, clean restarts, fairness, the properties |
| `ObjectStore` | what a client of the cluster may rely on: pieces are never made up, a yes stands for K of them, a copy is deleted only by a move that read it, while there is another or with one of two excuses. `Storage` is shown to implement it |
| `Read` | a client's read over `Storage` |
| `RaftService` | the replicated cluster map, with Raft as an external log |
| `MapHistory` | what nodes may rely on: one history of maps. `RaftService` is shown to implement it, `Storage` builds on it |
| `FailureDetector` | reporter, queue, pings and the two removals at every node, over a changing cluster |
| `PieceStore` | what a piece store promises: a set of pieces. `Storage` builds on it |
| `SqliteStore`, `MemStore` | the table of rows and the buckets in memory, an operation per call |
| `Volume` | the life of a node on its volume, over `SqliteStore`; implements `PieceStore` |
| `MCStorage`, `MCRead`, `MCRaftService`, `MCFailureDetector`, `MCVolume` | instances for TLC; `MCVolume` runs a `MemStore` beside the table |
| `StorageProofs` | types, the version gate and losses in `Storage`, and what a step leaves of the calls |
| `StoragePlacementProofs` | where the pieces are when nothing is under way |
| `StorageHealingProofs` | that the missing pieces have been rebuilt then |
| `StorageDurabilityProofs` | what the client keeps: pieces that do not move or move once, acknowledged keys, the refinement of `ObjectStore` |
| `ReadProofs`, `RaftServiceProofs`, `FailureDetectorProofs`, `VolumeProofs` | theorems and proofs of the other components; `VolumeProofs` has both piece stores |

### From the code to the state of `Storage`

* `view[n][s]` is the version of the map in the state of service `s` of node
  `n`. Messages carry versions, and theorem `VersionNamesMap` shows that a
  version names a map, so the model keeps the maps once, in `history`.
* `install[n]` is the program counter of `ClusterIn::set_new_cluster`: `io`,
  `peer`, `rebuild`, `stab` (the service to be told next), `keys`, `reset`
  (the two halves of the stabilizer's handler, with an await between them),
  `flush`, `wait`.
* `stabQ[n]`, `flush[n][f]`, `calls`: the stabilizer's queue, its running
  flushes (`f` is the caller, tick or cluster), and the futures of `exec`. A
  future is a record that goes through `get` (its piece is not read yet),
  `sent`, `put` (stored, not queued), and `ok`, `rejected` or `failed`. It
  becomes `gone` when nobody waits for it any more: the request may then still
  be executed, or not.
* `rebuildQ[n]`, `rflush[n]`, `rebuilds`: the same for the rebuild queue.
* `create[k]`: one `create` per key (`book/src/api.md`: a key is not reused).
* `written`, `exposed` are auxiliary: the pieces ever stored, and those whose
  loss is explained by a stopped node or by a late deletion.
* The refinement of `ObjectStore` maps `create` to what the client knows (idle,
  writing, acked, failed), `store` to `copies`, `exposed` to `excused`, the
  futures that have read their piece to `moving`, and those marked `reput` to
  `again`. All the rest (maps, queues, flushes, rebuilds) is hidden.
* `Shutdown` and `Boot` are a clean end and the next start: the pieces stay
  (that is what `Volume` shows), the queues and the maps are gone, and Raft
  tells the map again from a snapshot and the log. In between the node answers
  nobody, but it is not dead.

Actions are one per stretch of code between two awaits that another task can
observe. `PutPiece` and `QueueTask` are two, as `save_piece` awaits between
them; the version check and `put_piece` are one, as the read guard is held from one
to the other and no map can come between (`GateHeldWhileSaving` is about the rest); `DeletePiece` is one, as the reply and the deletion that follows it
touch only the piece store, and a deletion that happens later is a reply that
is received later.

### From the code to the state of `RaftService`

`state[s]` is `App::state`, `job[s]` the call of `set_new_cluster` under way,
`told[s]` the last map given to `ClusterIn`, `saved[s]` the last snapshot,
`applied[s]` the commands processed with success. The ASURA table is
represented by the calls that made it. `agreed` is auxiliary: the states the
log leads to.

### From the code to the state of `Read`

`reads` holds the read while it runs: the version of the map it copied, whether
it is in the scan of the holders or in the broadcast, the calls not answered
yet, the pieces found. A reply is handled when the peer makes it. Every call may
time out at any moment. `stood` is auxiliary: the copies that have been in
place, at a node in reach, since the broadcast began. A read changes nothing of
the cluster, so one read in a behaviour shows what any read may see.

### From the code to the state of `FailureDetector`

`clusters` is the sequence of sets of members that the commands of `RaftService`
make, `queueView[n]` and `reportView[n]` the version each of the two services
has. `queue[n]` is the queue of suspects and `probe[n]` the task that
`queue.run_once` spawns for one: `ping1`, `ping2` with the proxies not heard of
yet, `notify` (before `remove_node`), `remove_server`. A ping is one step with
its outcome: answered, unanswered as someone on its path is down, or lost.
`servers` are the Raft servers, which are not the members: a node becomes a
server, then a member, and leaves in the same order reversed, by two calls each.
A commit needs most of the servers up. `joining` holds the calls of `add_node`
between the config and the commit. Auxiliary in `probe`: `up` and `lost`; and
`brokenOff`, the nodes taken out of the cluster whose removal from Raft broke off.

### From the code to the state of `Volume` and the stores

`pc` is the place of `main` between two writes to the volume, `disk` the files
there, `rows` the table; `answer` is what the last call returned. `buckets` is
the map of `mem.rs`. `unclean` is auxiliary. Several calls may be in flight in
the code; each is one SQL statement, hence one step.

### Abstractions

* The bytes of a piece follow from its key and index; stores are sets.
* `buffer_unordered` limits how many futures run at once; here a future may
  wait in status `get` for as long as it likes, which covers every limit.
* Flushing an empty queue changes nothing and is skipped, except in the flush
  that `ClusterIn` waits for. So a system with nothing to do stops, and the
  runs say `CHECK_DEADLOCK FALSE`.
* A reply to `request_any_pieces` is handled when it is made.
* Abandoned calls that are equal are one call: a second execution of a put
  or of a queued task adds nothing to a set.
* A deletion in flight when its future is dropped has happened or never will.
* A process that died stays dead in `Storage`: `main.rs` refuses to start with
  `dead_flag`. In `FailureDetector` it may start again, its volume cleaned.
* A node has one suspect at a time, in the queue or in a task; in the code the
  ticks of 100 ms may overlap with a slow task.
* Of Raft (`lol_core`) it is assumed that commands are processed one at a time
  and in order, that a failed one is processed again before anything else, and
  that a snapshot stands for the commands it covers.

## 3. Runs

All instances of `Storage` have one key, K = 1, at most two pieces and three
nodes. One key is enough because keys share no state but the queues, and what
a key does to another there is to be drained with it; two pieces are enough
for siblings that succeed and fail in one `exec`, with K = 1 of N = 2 as the
smallest redundancy. Two nodes are a sender and a receiver; three let a node
take over the place of a dead one. Consecutive maps of a history differ by one
node, as `AddNode` and `RemoveNode` make them. Every order of the hash's
candidates matters only by the moves it causes, which the histories choose.

Bounds of `Storage` (constants of `NodeState`): `LastVersion` maps; `Down` nodes
that stopped just before the run, `Late` members that have not learnt any map
yet; `Budgets`, the faults that may happen in one behaviour, each a number per
kind: `net`, an RPC to a live node that fails; `io`, a store operation that
fails; `crash`; `restart`, a clean one; `reapply`, a map broadcast again. A run
takes several small budgets where one large would not finish. `FailureDetector`
has `Budgets` of its own (`loss` of a ping, `error` of a removal, `crash`,
`start`, `join`) and `Watchers`, the nodes whose loop runs; `RaftService` has
`LogSize` commands, `Failures` of `set_new_cluster` and `Restarts`; `SqliteStore`
has `RowId`.

| Run | Question | Instance | Shows |
|---|---|---|---|
| `storage_move` | Is a piece lost, misplaced or overlooked by a reader in a cluster that grows and shrinks? | 2 nodes, 1 piece, 3 maps, 1 read | `PieceNeverVanishes`, `GateHeldWhileSaving`, `QuiescentPlaced`, `FindsWhatStands` |
| `storage_pieces` | And with siblings, and an RPC that fails and is executed late, a failing store, or a map repeated? | 2 nodes, 2 pieces, a join or a leave, 1 net fault, 1 I/O fault or 1 repeated map | `TypeOK`, `PieceNeverVanishes`, `GateBeforeSend`, `QuiescentHealed` |
| `storage_faults` | What can stops, restarts and a failing store destroy? | 2 nodes, 1 piece, a leave, 1 crash, 1 I/O fault, and 1 clean restart or 1 repeated map | `NoUnexplainedLoss`, `ImplementsObjectStore` |
| `storage_create` | Is an acknowledged key complete in the end? | 2 nodes, 2 pieces, 1 net fault, 1 I/O fault, fairness | `AckedIsReadable`, `ImplementsObjectStore`, `AckedThenComplete` |
| `storage_rebuild` | Is the piece of a dead node rebuilt? | 3 nodes, one dead and removed, its substitute still without a map, fairness | `QuiescentHealed`, `AckedThenComplete` |
| `raft_maps` | Do nodes see one history of maps, and all of it in the end? | 2 servers, 2 names, 3 commands, 1 error, 1 restart, fairness | `SameVersionSameMap`, `IdsResolve`, `ImplementsMapHistory`, `AllTold` |
| `failure_detector` | Who is removed, and is a dead node, whatever goes wrong besides? | 3 nodes, 2 of which watch, K = 2 proxies; 3 pings lost and a node that joins again; or 1 loss, 1 error or 1 start, with 1 crash; or 2 crashes; fairness | `NoFalseReport`, `MembersAreServers`, `DeadIsRemoved`, `DeadLeavesRaft`, `LeftIsForgotten` |
| `volume` | Is the store a set of pieces, over any starts, ends and kills? | 2 keys, 2 indexes, 3 rows; no other bound | `NeverAfterUncleanEnd`, `SetUpIsWhole`, `ImplementsPieceStore`, `MemImplementsPieceStore` |

Three lost pings are the fewest that remove a live node with two live proxies.
Three rows let a piece have two and a second piece one.

Four runs end in a counterexample: the code does not do what its own text says.

* `late_ack` (`PieceNeverVanishes`). Node b joins and leaves. a's move of a
  piece to b is acknowledged; before a reads the reply, b has the next map and
  moves the piece back; a stores it, then reads the old reply and deletes it,
  and b reads its own and deletes it too. No failure is needed.
* `lost_task` (`QuiescentHealed`). The stabilizer reads the keys of the store
  and then overwrites its queue with them. A piece saved in between queues its
  key for nothing. Here b is dead and removed, a moves its own piece to c and
  must get b's: only c could ask for it, and c has just forgotten the key.
* `torn_create` (`QuiescentHealed`). `create` reads the holders, then the
  version. The piece is sent to the holder of the old map with the version of
  the new one and accepted; in the same window as above its key is forgotten,
  and nobody moves it to where readers and `sanity_check` look first.
* `sole_survivor` (`QuiescentHealed`). A node never asks itself to rebuild.
  When only one is left, nothing is rebuilt, although its pieces suffice.

`PieceNeverVanishes` is therefore checked where the holder of a piece changes
once, from one settled place to another. With two changes `late_ack` breaks it
on two nodes; the same happens on three nodes when the piece goes on from b to
c, and with one change when a key is created while it spreads: a joining node
that has only the map before its own accession sends the new piece back. A
single change and no create are enough on three nodes, see below.

### Observed besides

Seen in instances that are wider than the runs, or in the code while modelling:

* **One change of the map can lose a piece without any fault.** Nodes a, b, c,
  N = 2, K = 1; piece 0 is at a, piece 1 at c, and b joins and takes over piece 0.
  c has the new map, has nothing to send for piece 0 and asks b to rebuild it. b is
  still at the old map: it rebuilds the piece and, as that map gives it to a, sends
  it back. Now a learns the new map and sends its copy to b. Both sends are
  acknowledged and both copies are deleted. TLC finds it in 45 steps on an
  instance wider than the runs; both deletions are of copies stored again during
  their own move, so `NoUnexplainedLoss` and `ImplementsObjectStore` hold. The
  theorem `MovedPieceHolds` says that this, the create above and the restart below
  are the only ways in which a piece that moves once is lost while its nodes live.
* **A piece rebuilt in the window of `lost_task` stays where it is.** Its key is
  queued, and then the queue is overwritten: the copy is a stray that no task
  moves. `NoStray` fails so with three maps: members a, b and c, of which b is
  dead from the start; then b is removed; then c.
* **A clean restart opens the version check.** A node that starts again has map 0
  in `peer_in` and accepts pieces sent under any map (`peer_in.rs:62`). With one
  restart `PieceNeverVanishes` fails without any other fault: a sends its piece
  to b under a new map and restarts; b, which is behind, sends it back, and a
  accepts what it would have refused before; a learns the map and sends its copy
  once more; both acknowledgements arrive and both copies are deleted. It counts
  as "stored again during its own move", so `NoUnexplainedLoss` holds.
* **A restart loses requests to rebuild** (`rebuild_queue.rs:53`) that were
  acknowledged to the stabilizer which asked; `QuiescentHealed` fails with one.
* **A map told twice** (a command retried after an error) makes the window of
  `lost_task` open a second time, also during a `create`; then
  `AckedThenComplete` fails.
* **A server that is not a member stays one.** A node that dies between
  `add_server` and `add_node` is not in the cluster, so nobody suspects it, and it
  counts in every Raft majority. The same holds when `remove_server` fails, or the
  node that was to call it stops, after `remove_node` succeeded. `DeadLeavesRaft`
  therefore speaks of nodes that are members when they stop, and excuses a removal
  that broke off in this way (`brokenOff`); that nothing else leaves a former
  member behind is the theorem `OrphansWereBrokenOff`.
* **A member may be no server.** Of two removals of one node the second
  `remove_server` may come after the node has joined again
  (`fd_app_out_impl.rs:45`). `MembersAreServers` excuses nodes that have left before.
* **A read may report a loss that is none**: copies that move during the broadcast
  are overlooked, and a node that has not learnt a map says so of every key.
  `sanity_check` there says that no piece is lost.
* **A failing start leaves the `dead_flag`**, also when its reason is passing (the
  address is in use); and a shutdown whose drain takes too long is killed, which
  does the same.
* `piece_store/sqlite/mod.rs:22` says "If the root_dir is empty then a new db is
  created"; `set_file_name` puts the table beside `root_dir`.

### Fairness

`FairSpec` assumes weak fairness of the services of each live node, one
condition per service and per flush: tokio schedules tasks, the two ticks never
end, Raft goes on delivering maps, an RPC to a live node is served, and one
to a dead node fails. No fault is assumed to happen, and no abandoned call to
end. The condition on `IOFrontNext` makes a client begin a create it can begin;
liveness is claimed only of acknowledged keys, so that adds nothing. The code has no timeout on
`send_piece`: a peer that accepts and never answers is outside the assumption,
and is listed as a hazard.

In `FailureDetector` what a live node can do it does (weak fairness of learning,
of `run_once` and of its task). Which node the reporter picks is random: one
condition of strong fairness per pair, as a node that can be picked again and
again is picked sometimes with probability one. No join, start, loss or error is
assumed. All three liveness properties are claimed where commits stay possible in
the end; `LeftIsForgotten` of nodes that stay Raft servers, as others learn no map.

In `RaftService` fairness is asked of the processing
of committed commands, not of commits, errors or restarts.

## 4. Proofs

For every value of the constants that satisfies the named assumptions
(`SizeAssumption`, `NoNodeAssumption`, `VersionAssumption`,
`HistoryAssumption`, `SettledAssumption`, `BudgetAssumption` of `NodeState`,
`ConstantAssumption` of `FailureDetector`):

* `TypeCorrect`: `Spec => []TypeOK` for `Storage`. `TypeOK` is inductive by
  itself; there is one lemma per module and one step per action.
* `GateBeforeSendHolds`, `GateHeldHolds`: the version check of `save_piece`
  does its work. `GateBeforeSend` is not inductive: a flush takes its version
  from the stabilizer's map and the property compares it with `peer_in`'s. The
  missing fact is `FanOutOrdered(n)`: at every point of the fan-out the
  services told already have the new version and the others an older or equal
  one, so the stabilizer's version is at most `peer_in`'s. `GateInv` adds
  it, and both gates follow.
* `NoUnexplainedLossHolds`: a piece that is stored somewhere is held by a node
  after any number of moves, faults and crashes, unless it is `exposed`. The
  invariant `LossInv` says more: every such piece has a *safe* copy, in the
  store of a node with no call that will delete it. A call dooms a copy when
  the receiver has stored the piece (`put` or `ok`) and the deletion has not
  happened; what makes it work is that the receiver's copy is safe at the
  moment it is made, unless the receiver itself is moving that piece away, and
  then the call is marked `reput` and the piece becomes `exposed` when the
  copy is deleted. TLC checked `LossInv` before it was proved.
* `StorageImplementsObjectStore`: every step of `Storage` is a step of
  `ObjectStore` or leaves it alone. A deletion is allowed there by `LossInv`: the
  copy that remains is the safe one. The yes of `create` rests on `AckInv`: the
  count is at most the number of pieces stored whose call is no longer open, since
  a create has one call per piece, an answer means the piece was stored, and a call
  is gone when it has been counted. That pieces are never made up is `OriginInv`:
  data in a store, a call or a rebuild belong to a key whose create has begun, and
  a rebuild that is about to store has found a piece. `StoresWritten` and
  `GetFresh` (a future that has not read yet is not marked `reput`) are small
  invariants of their own.
* `AckedUnlessExposedHolds`, `AckedReadableUnlessExposed`: from `AckInv` and
  `LossInv`, an acknowledged key has K pieces in stores or `exposed`, so that it is
  readable as long as no loss of the two kinds has happened.
* `UnmovedPieceHolds`: a piece that all maps give to one node h is nowhere else,
  and once stored it stays at h until h dies. `HomeInv`: every call about it goes to
  h and is not from a flush of h, and no other node has a task to rebuild it.
  `StaticClusterLosesNothing` (`PieceNeverVanishes`) and `StaticClusterKeepsAcked`
  (`AckedIsReadable`) follow with two hypotheses on the constants: `PiecesStay`,
  the maps agree on the holder of every piece, and `NobodyDies`, no node is down or
  crashes; lost RPCs, failed operations, repeated maps and clean restarts are
  allowed. `storage_create` is an instance of both hypotheses. Without them both
  properties are false (`late_ack`).
* `MovedPieceHolds`: a piece that the maps give to p before some version and to q
  from then on stays at p or q until one of them dies. `MoveInv` turns on one event:
  p has been told to let go of the piece (`Turned`, `peer_in` has the version, or p
  is dead). Before it, q has no copy, no request for one and no message with one, so
  nothing can go back. After it p refuses what q sends under an old map, so q never
  gets an acknowledgement on which it would delete; and p deletes only when q has
  the piece. That p does not send to q before it has turned is `GateBeforeSend`. Three windows
  are named by `MoveStep`, all of them losses described in §3: before p has turned
  a third node asks q to rebuild the piece, or a create sends it to q; p is shut
  down after it has turned. In the instance of `torn_create` and in that of
  `storage_faults` TLC finds the piece lost when the second or third is not
  excluded. `OneMoveLosesNothing` (`PieceNeverVanishes`) is for clusters in which
  every piece moves once at most and nobody dies. Between two nodes, not restarted,
  with no create, the windows do not exist: `TwoNodesLoseNothing` and
  `TwoNodesKeepAcked` state `PieceNeverVanishes` and `AckedIsReadable` of all
  behaviours there, for any keys, N, K, histories, lost RPCs, failed operations and
  repeated maps. `storage_move` and `storage_pieces` are instances, and `late_ack`
  is one of everything but `PiecesMoveOnce`. TLC checked `MoveInv` first, with the
  excluded steps left out, in those and in instances of three nodes with one dead
  (`storage_rebuild`, `lost_task`), where no step is ever excluded.
* `NoStrayIsLeft`, `UnexposedIsPlaced`, `PlacedUnlessWindow`: when nothing is under
  way under the last map no copy is out of place, every piece whose loss is not
  explained is at its holder, and, if nothing was lost, `QuiescentPlaced`. The
  invariant `PlaceInv` follows each stray copy of a node that has the last map and
  has read its keys: it is among those keys, or in the queue, or in a flush that is
  to look at it or to try it again, or in a future that will delete it, or it has
  just been rebuilt. The theorems are about behaviours whose steps satisfy
  `CleanStep`, which excludes three windows by name: a piece that belongs elsewhere
  is rebuilt between the two halves of the stabilizer's handler, the first of which
  has not seen its key (`lost_task`); a create uses two maps that differ on the key
  (`torn_create`); a deletion fails after a move under the last map. The first two
  are the findings, the third is `stabilizer.rs:202`. `LastMapPlaces` says that the
  last map has a holder for every key. Every reachable step of `storage_move`,
  `storage_rebuild`, `storage_create` and of `storage_pieces` without its I/O fault
  satisfies `CleanStep` (checked with TLC), so in those instances the theorem is
  about all behaviours.
* `MissingIsAlone`, `HealedUnlessWindow`: nothing is under way under the last map,
  a piece is missing, and another node has a piece of the key: then that node has
  asked the holder and the holder has rebuilt it, so this cannot be. `HealInv` says
  where the request is: a node that works under the last map and has a piece of a
  key is going to look at the key (it is queued, being flushed, or about to be
  queued by a send or a rebuild), or has a call out for the missing piece, or the
  piece is *answered*, in the store of a node of the last map or waiting to be
  rebuilt at its holder. The invariant ends when a node of the last map dies
  (`Crippled`): the cluster is never quiescent again. The theorems are about
  behaviours whose steps satisfy `CleanStep`, with its three windows, and `HealStep`,
  which names four more: the queue is overwritten and loses a key with a piece missing
  (`lost_task`); the handler of `send_piece` is cancelled between `put_piece` and
  `queue_task`; a node is shut down with acknowledged requests to rebuild
  (`rebuild_queue.rs:53`); a move under an older map deletes the only copy of the
  nodes that stay (`late_ack`). `MissingIsAlone` needs no assumption on the maps,
  and what it leaves open does happen: a node alone with the pieces of a key asks
  nobody (`sole_survivor`). `LastMapSpreads`, no node holds more than K pieces of a
  key, excludes it: such a node then has fewer than the K pieces that
  `QuiescentHealed` asks for. `IoInv` says that the map sanity_check counts under
  is the last one. Every reachable step of `storage_rebuild` and `storage_move`
  satisfies both formulas and their maps satisfy `LastMapSpreads`; in
  `storage_create` only the cancelled handler is ever excluded; TLC checked `HealInv`
  with the excluded steps left out, with faults, clean restarts and deaths
  (`storage_faults`), before it was proved.
* `VersionNamesMap`: `Spec => []SameVersionSameMap` for `RaftService`. The
  invariant says that the state, the saved snapshot, the job and the told map of
  every server are states of the log after some number of commands (a server
  whose command failed is one command ahead of `applied`), and that along the
  log a version that does not grow is a state that does not change.
* `IdsAlwaysResolve`: every id of the hash table has a node in the map, at every
  server, as the states of the log have it.
* `RaftImplementsMapHistory`: every step of `RaftService` tells a node a map of the
  one history, extends that history, restarts a node, or leaves it alone. The
  history is that of `agreed`, and the version of a map is its place in it.
* `ReadFindsWhatStands`: `ReadSpec => []FindsWhatStands`. By itself it says
  nothing of calls still open; `Covered` adds that every index that stands at a
  member has been found or that the call to that member is open, and `Stands` that
  what is in `stood` is in the store of a live node, so that the answer of that
  node contains it. A read that gives up has no open call, hence found every
  index that stands, and found fewer than K.
* `FailureDetectorTypeOK`, `FalseReportsHaveACause`, `MembersServe`,
  `OrphansWereBrokenOff`: the invariant behind `NoFalseReport` follows a task
  through its pings: each path that was up all along is still open or has lost a
  ping. `MembersAreServers` rests on: who is about to be taken out of Raft has left
  the cluster in some version, and who is about to join is a server or has left
  before.
  `OrphansWereBrokenOff` is about steps: a Raft server becomes one that is no
  member, and that no task is about to remove, only when a removal of it breaks off
  between its two calls. It rests on the task being left alone by the loop
  (`OneSuspect`).
* `UncleanIsNotUsed`, `SetUpWhole`: the two flags and the place of `main`
  determine each other; `VolumeImplementsPieceStore`: every step of a node on its
  volume is a step of a durable `PieceStore` or leaves it alone, whatever rows a
  piece has. `MemStoreImplementsPieceStore` is the same for the store in memory,
  composed with the volume as in `MCVolume`.

`SettledAssumption` says that the settled keys, which are acknowledged at the
start, have holders in the map of that moment: a create cannot have stored them
otherwise.

Every safety and action property of the runs is stated by a theorem.
`QuiescentPlaced`, `QuiescentHealed`, `PieceNeverVanishes` and `AckedIsReadable` are
false of some behaviours, as the violated runs and §3 show, and are proved under the
hypotheses above. `QuiescentHealed` is model-checked beyond them where a handler of
`send_piece` may be cancelled (`storage_create`), and where one node is left with
more than K pieces (`storage_pieces`). Liveness (`AckedThenComplete`, `AllTold`,
`DeadIsRemoved`, `DeadLeavesRaft`, `LeftIsForgotten`) is out of the prover's reach: the theorems above
say what holds when the system is quiescent, and TLC that it gets there.

## 5. Order of work, and what is left

`Storage` and its services came first, as the data depend on them; then
`RaftService`, on which the use of versions rests; then restarts in `Storage`, the
piece stores and the volume below it, the failure detector that makes the maps
change, and reads on top. Of the proofs, types and losses came first, then the components around `Storage`,
then placement, durability and the refinement of `ObjectStore`, and last that what
is missing is rebuilt and that a single move loses nothing. Left are pieces that
move more than once: `late_ack` shows that they can be lost with no fault at all,
so a theorem would need the deletion of the code to look at what it deletes.

## 6. Not modelled

* The hash (ASURA), Reed-Solomon, Raft and gRPC: libraries, used through what the
  code relies on. So are the caches of connections in both `peer_out` modules:
  channels are lazy and connect again by themselves.
* `data-loss-calculator`: floating point arithmetic in a tool apart from the
  system, without state.
* `delete` of `storage_service`: unimplemented in the code. `find_piece`: no caller.
* Two processes on one volume at the same time, and reuse of a key for other data
  (`book/src/api.md` forbids it; the rows of such a piece would disagree).
* A node that is cleaned and started under its old name before it was removed: it
  stays a member with an empty store, and nothing is rebuilt as no map changes.
* Calls that never end (see Fairness), the limits of parallelism, the tests.
