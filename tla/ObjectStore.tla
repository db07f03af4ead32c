------------------------------ MODULE ObjectStore ------------------------------
(***************************************************************************)
(* What the client of a cluster may rely on: a key is written once, its    *)
(* pieces are copied from node to node and never made up, and create says  *)
(* yes only for K pieces that were stored.  A copy is deleted only by a    *)
(* move that has read it, while the cluster has another one.  There are    *)
(* two excuses: the death of a node takes its copies with it, and a copy   *)
(* stored again after a move has read it may go with the old one.  Module  *)
(* Storage implements this.                                                *)
(***************************************************************************)
EXTENDS Naturals, FiniteSets

CONSTANTS Node, Key, Index, K

VARIABLES
    phase,    \* phase[k]: what the client of key k knows
    copies,   \* copies[n]: the pieces in the store of n
    moving,   \* <<n, l>>: a move from n has read piece l
    again,    \* ... and l was stored at n again since
    excused   \* pieces whose loss is excused

vars == <<phase, copies, moving, again, excused>>

Loc == [key : Key, index : Index]

\* The pieces of k that count: K of them are enough to read the key, unless
\* an excuse applies.
Covered(k) ==
    {l \in Loc : /\ l.key = k
                 /\ l \in excused \/ \E n \in Node : l \in copies[n]}

Init ==
    /\ phase \in [Key -> {"idle", "acked"}]
    /\ copies \in [Node -> SUBSET Loc]
    /\ moving = {}
    /\ again = {}
    /\ excused \in SUBSET Loc
    /\ \A n \in Node : \A l \in copies[n] : phase[l.key] = "acked"
    /\ \A k \in Key : phase[k] = "acked" => Cardinality(Covered(k)) >= K

\* Besides what the step adds, a move under way goes on or is given up.
MovesGoOn(read, stored) ==
    /\ moving' \subseteq moving \cup read
    /\ again' \subseteq moving' \cap (again \cup (stored \cap moving))

Begin(k) ==
    /\ phase[k] = "idle"
    /\ phase' = [phase EXCEPT ![k] = "writing"]
    /\ MovesGoOn({}, {})
    /\ UNCHANGED <<copies, excused>>

Return(k) ==
    /\ phase[k] = "writing"
    /\ \/ /\ Cardinality(Covered(k)) >= K
          /\ phase' = [phase EXCEPT ![k] = "acked"]
       \/ phase' = [phase EXCEPT ![k] = "failed"]
    /\ MovesGoOn({}, {})
    /\ UNCHANGED <<copies, excused>>

Put(n, l) ==
    /\ phase[l.key] # "idle"
    /\ copies' = [copies EXCEPT ![n] = @ \cup {l}]
    /\ MovesGoOn({}, {<<n, l>>})
    /\ UNCHANGED <<phase, excused>>

Read(n, l) ==
    /\ l \in copies[n]
    /\ MovesGoOn({<<n, l>>}, {})
    /\ UNCHANGED <<phase, copies, excused>>

Delete(n, l) ==
    /\ <<n, l>> \in moving
    /\ \/ /\ l \in excused \/ \E m \in Node \ {n} : l \in copies[m]
          /\ UNCHANGED excused
       \/ /\ <<n, l>> \in again
          /\ excused' = excused \cup {l}
    /\ copies' = [copies EXCEPT ![n] = @ \ {l}]
    /\ MovesGoOn({}, {})
    /\ UNCHANGED phase

GiveUp ==
    /\ MovesGoOn({}, {})
    /\ UNCHANGED <<phase, copies, excused>>

\* Node n dies, and with it what it was writing for its clients.
Die(n) ==
    /\ copies' = [copies EXCEPT ![n] = {}]
    /\ excused' = excused \cup copies[n]
    /\ \E ks \in SUBSET {k \in Key : phase[k] = "writing"} :
          phase' = [k \in Key |-> IF k \in ks THEN "failed" ELSE phase[k]]
    /\ MovesGoOn({}, {})

Next ==
    \/ \E k \in Key : Begin(k) \/ Return(k)
    \/ \E n \in Node, l \in Loc : Put(n, l) \/ Read(n, l) \/ Delete(n, l)
    \/ \E n \in Node : Die(n)
    \/ GiveUp

Spec == Init /\ [][Next]_vars
==============================================================================
