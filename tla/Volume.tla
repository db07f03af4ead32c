--------------------------------- MODULE Volume ---------------------------------
(***************************************************************************)
(* The life of a node and of the volume it keeps (sorock/src/main.rs).  A  *)
(* node that starts on a volume leaves a dead_flag there and removes it    *)
(* when it has shut down cleanly; on a volume with a dead_flag no node     *)
(* starts, until someone cleans it.  A new volume is set up first, and     *)
(* gets an init_flag.  The table of pieces is a file of the volume, next to*)
(* the directory piecedb (set_file_name in sqlite/mod.rs), which stays     *)
(* empty.                                                                  *)
(***************************************************************************)
EXTENDS SqliteStore

VARIABLES
    disk,        \* the files of the volume, besides the table
    pc,          \* where main is; "down" when no node runs
    unclean      \* auxiliary: a node ended after it had begun to write

lifeVars == <<disk, pc, unclean>>
vars == <<rows, answer, disk, pc, unclean>>

File == {"dead_flag", "init_flag", "snapshots", "raft_log", "piecedb"}
Running == {"serving", "draining", "drained"}
Pc == {"down", "checked", "snapshots", "raft_log", "piecedb", "init_flag", "open"}
          \cup Running

TypeOK ==
    /\ rows \subseteq Row
    /\ \A q, r \in rows : q.id = r.id => q = r
    /\ disk \subseteq File /\ pc \in Pc /\ unclean \in BOOLEAN

Init ==
    /\ rows = {} /\ answer = [op |-> "none"]
    /\ disk = {} /\ pc = "down" /\ unclean = FALSE

\* A start looks for a dead_flag (and ends when there is one), then writes it.
Start ==
    /\ pc = "down" /\ "dead_flag" \notin disk
    /\ pc' = "checked"
    /\ UNCHANGED <<rows, answer, disk, unclean>>

WriteDeadFlag ==
    /\ pc = "checked"
    /\ disk' = disk \cup {"dead_flag"}
    /\ pc' = IF "init_flag" \in disk THEN "open" ELSE "snapshots"
    /\ UNCHANGED <<rows, answer, unclean>>

\* MUTANT: the init_flag is written before what it stands for.
FlagFirst ==
    /\ pc = "snapshots"
    /\ disk' = disk \cup {"snapshots", "init_flag"} /\ pc' = "open"
    /\ UNCHANGED <<rows, answer, unclean>>

\* The steps that set up a volume: each creates a directory that must not be
\* there, the last one the table too, unless it is there.
CreateSnapshots ==
    /\ pc = "snapshots" /\ "snapshots" \notin disk
    /\ disk' = disk \cup {"snapshots"} /\ pc' = "raft_log"
    /\ UNCHANGED <<rows, answer, unclean>>
CreateRaftLog ==
    /\ pc = "raft_log"
    /\ disk' = disk \cup {"raft_log"} /\ pc' = "piecedb"
    /\ UNCHANGED <<rows, answer, unclean>>
CreatePieceDb ==
    /\ pc = "piecedb" /\ "piecedb" \notin disk
    /\ disk' = disk \cup {"piecedb"} /\ pc' = "init_flag"
    /\ UNCHANGED <<rows, answer, unclean>>
WriteInitFlag ==
    /\ pc = "init_flag"
    /\ disk' = disk \cup {"init_flag"} /\ pc' = "open"
    /\ UNCHANGED <<rows, answer, unclean>>

\* The table, the snapshots and the log are opened, the services spawned.
Serve ==
    /\ pc = "open" /\ {"snapshots", "raft_log"} \subseteq disk
    /\ pc' = "serving"
    /\ UNCHANGED <<rows, answer, disk, unclean>>

\* MUTANT: the dead_flag goes with the signal.
SignalUnflags ==
    /\ pc = "serving" /\ pc' = "draining" /\ disk' = disk \ {"dead_flag"}
    /\ UNCHANGED <<rows, answer, unclean>>

\* A signal ends the services, when the calls they have taken are answered;
\* what main has spawned besides goes on until main returns.
Signal ==
    /\ pc = "serving" /\ pc' = "draining"
    /\ UNCHANGED <<rows, answer, disk, unclean>>
Drained ==
    /\ pc = "draining" /\ pc' = "drained"
    /\ UNCHANGED <<rows, answer, disk, unclean>>
RemoveDeadFlag ==
    /\ pc = "drained" /\ pc' = "down"
    /\ disk' = disk \ {"dead_flag"}
    /\ answer' = [op |-> "none"]
    /\ UNCHANGED <<rows, unclean>>

\* main returns an error or panics anywhere, or the process is killed.
Kill ==
    /\ pc # "down" /\ pc' = "down"
    /\ unclean' = (unclean \/ pc # "checked")
    /\ answer' = [op |-> "none"]
    /\ UNCHANGED <<rows, disk>>

\* "Please clean the volume", when no node runs.
Clean ==
    /\ pc = "down"
    /\ disk' = {} /\ rows' = {} /\ unclean' = FALSE
    /\ UNCHANGED <<answer, pc>>

Lifecycle ==
    \/ Start \/ WriteDeadFlag
    \/ CreateSnapshots \/ CreateRaftLog \/ CreatePieceDb \/ WriteInitFlag
    \/ Serve \/ Signal \/ Drained \/ RemoveDeadFlag
    \/ Kill \/ Clean

Call ==
    /\ pc \in Running
    /\ \/ \E key \in Key, idx \in Index :
             \/ put_piece(key, idx) \/ delete_piece(key, idx)
             \/ get_piece(key, idx) \/ piece_exists(key, idx)
       \/ \E key \in Key : get_pieces(key)
       \/ keys
    /\ UNCHANGED lifeVars

Next == Lifecycle \/ Call

Spec == Init /\ [][Next]_vars

------------------------------------------------------------------------------
\* A volume a node has left uncleanly is not used again before it is cleaned.
NeverAfterUncleanEnd == unclean => pc = "down" /\ "dead_flag" \in disk

\* Where a node serves, all of the volume has been set up, and a node that
\* sets it up finds nothing in its way: create_dir does not fail for what
\* an earlier node left.
SetUpIsWhole ==
    /\ pc \in Running \cup {"open"} => {"snapshots", "raft_log", "piecedb"} \subseteq disk
    /\ pc \in {"snapshots", "raft_log", "piecedb"} => pc \notin disk

Store == INSTANCE PieceStore WITH
    Durable <- TRUE, open <- pc \in Running, pieces <- Pieces, reply <- Understood

\* Callers see a set of pieces, whatever rows a piece has, and the set is
\* the same after every clean restart (piece_store/sqlite/mod.rs, main.rs).
ImplementsPieceStore == Store!Spec
==============================================================================
