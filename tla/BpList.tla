---------------------------- MODULE BpList ----------------------------
(* The breakpoint lists of yaod as values.                                *)
(*                                                                        *)
(* sbp.c and hbp.c keep four linked lists (e_sbp, d_sbp, e_hbp, d_hbp)    *)
(* with the same two operations.  A list is the sequence of its nodes,    *)
(* head first; a node is a record with at least the fields addr, current  *)
(* and id.  BpChain.tla models the same operations pointer by pointer.    *)
(*                                                                        *)
(* A definition marked "mutant" is no part of the model: it is the slip   *)
(* in the code that the property named in PROJECT.json would catch.       *)
EXTENDS Integers, Sequences, FiniteSets

(* sbp_append, hbp_append: the node goes to the tail and takes the        *)
(* tail's id plus inc, or inc itself when the list is empty.              *)
NextIdByCount(l, inc) == inc * (Len(l) + 1)     \* mutant
NextId(l, inc) == IF l = << >> THEN inc ELSE l[Len(l)].id + inc
WithId(bp, id) == [bp EXCEPT !.id = id]

BpAppend(l, bp, inc) == Append(l, WithId(bp, NextId(l, inc)))

(* sbp_remove, hbp_remove: unlink the i-th node; the others keep their    *)
(* order and their ids.                                                   *)
BpRemove(l, i) ==
    [j \in 1 .. Len(l) - 1 |-> IF j < i THEN l[j] ELSE l[j + 1]]

(* sbp_by_id, hbp_by_id: the first node with that id (at most one index). *)
BpById(l, id) ==
    {i \in DOMAIN l : l[i].id = id /\ \A j \in 1 .. i - 1 : l[j].id # id}

(* The search of step_hdl and sbp_hdl: the first node at address a whose  *)
(* current flag is clear (at most one index).                             *)
FirstArmed(l, a) ==
    {i \in DOMAIN l :
        /\ l[i].addr = a /\ ~l[i].current
        /\ \A j \in 1 .. i - 1 : l[j].addr # a \/ l[j].current}

(* hbp_hdl stops its search at the first node at address a, whatever its  *)
(* flag, and only then looks at the flag.                                 *)
FirstAt(l, a) ==
    {i \in DOMAIN l :
        /\ l[i].addr = a /\ ~l[i].current
        /\ \A j \in 1 .. i - 1 : l[j].addr # a}

(* The id order the lists keep: upwards from 1 on an enabled list,        *)
(* downwards from -1 on a disabled one.                                   *)
Rising(l) ==
    \A i, j \in DOMAIN l : 0 < l[i].id /\ (i < j => l[i].id < l[j].id)
Falling(l) ==
    \A i, j \in DOMAIN l : l[i].id < 0 /\ (i < j => l[j].id < l[i].id)

Ids(l) == {l[i].id : i \in DOMAIN l}
Addrs(l) == {l[i].addr : i \in DOMAIN l}

(* How many nodes of the list sit at address a.                           *)
CountAt(l, a) == Cardinality({i \in DOMAIN l : l[i].addr = a})
=======================================================================
