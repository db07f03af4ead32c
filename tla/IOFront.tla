-------------------------------- MODULE IOFront --------------------------------
(***************************************************************************)
(* The client's entry point (sorock-core/src/io_front.rs): create writes   *)
(* the N pieces of a new key, sanity_check counts the pieces that are not  *)
(* where the map says.  One create per key (book/src/api.md: a key is not  *)
(* reused).                                                                *)
(***************************************************************************)
EXTENDS NodeState

\* create reads the holders, and then the version in a second lock.
CreateBegins(n, k) ==
    /\ n \in alive /\ create[k].pc = "idle"
    /\ create' = [create EXCEPT ![k] =
                     [pc |-> "holders", node |-> n, hv |-> view[n].io, ok |-> 0]]
    /\ UNCHANGED <<world, maps, store, stabVars, calls, rebuildVars, aux>>

\* The N sends start together; a piece without holder is not sent.
SendPieces(n, k) ==
    /\ n \in alive /\ create[k].pc = "holders" /\ create[k].node = n
    /\ calls' = calls \cup
          {[from |-> n, by |-> "create", to |-> HolderAt(create[k].hv, l),
            loc |-> l, version |-> view[n].io, data |-> TRUE, st |-> "sent",
            reput |-> FALSE] :
              l \in {l \in LocsOf(k) : HolderAt(create[k].hv, l) # NoNode}}
    /\ create' = [create EXCEPT ![k].pc = "run"]
    /\ UNCHANGED <<world, maps, store, stabVars, rebuildVars, aux>>

Sending(n, c) == c.from = n /\ n \in alive /\ c.by = "create"

\* MUTANT: a piece counts as soon as it is sent.
CountSent(n, c) ==
    /\ Sending(n, c) /\ c.st \in {"sent", "ok"}
    /\ calls' = Abandon({c})
    /\ create' = [create EXCEPT ![c.loc.key].ok = @ + 1]
    /\ UNCHANGED <<world, maps, store, stabVars, rebuildVars, aux>>

CountOk(n, c) ==
    /\ Sending(n, c) /\ c.st = "ok"
    /\ calls' = calls \ {c}
    /\ create' = [create EXCEPT ![c.loc.key].ok = @ + 1]
    /\ UNCHANGED <<world, maps, store, stabVars, rebuildVars, aux>>

\* A refused or failed piece is not counted, and not sent again.
CountNotOk(n, c) ==
    /\ Sending(n, c)
    /\ \/ c.st \in {"rejected", "failed"}
       \/ c.to \notin alive
    /\ calls' = Abandon({c})
    /\ UNCHANGED <<world, maps, store, stabVars, rebuildVars, create, aux>>

CreateLost(n, c) ==
    /\ Sending(n, c) /\ c.st \in {"sent", "put", "ok"}
    /\ MayFail("net") /\ Spend("net")
    /\ calls' = Abandon({c})
    /\ UNCHANGED <<history, alive, maps, store, stabVars, rebuildVars, create,
                   aux>>

CreateReturns(n, k) ==
    /\ n \in alive /\ create[k].pc = "run" /\ create[k].node = n
    /\ \A c \in CallsOf(n, "create") : c.loc.key # k
    /\ create' = [create EXCEPT ![k].pc =
                     IF create[k].ok >= K THEN "acked" ELSE "failed"]
    /\ UNCHANGED <<world, maps, store, stabVars, calls, rebuildVars, aux>>

IOFrontNext(n) ==
    \/ \E k \in Key : CreateBegins(n, k) \/ SendPieces(n, k)
    \/ \E k \in Key : CreateReturns(n, k)
    \/ \E c \in calls : CountOk(n, c)
    \/ \E c \in calls : CountNotOk(n, c)

IOFrontFault(n) == \E c \in calls : CreateLost(n, c)

\* sanity_check of key k asked at node n, when nothing moves meanwhile: the
\* pieces that have a holder and are not found there.
NLost(n, k) ==
    Cardinality({l \in LocsOf(k) :
        LET h == HolderAt(view[n].io, l)
        IN  h # NoNode /\ (h \notin alive \/ l \notin store[h])})

==============================================================================
