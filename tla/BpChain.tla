----------------------------- MODULE BpChain -----------------------------
(* The breakpoint lists pointer by pointer: sbp_append, sbp_remove,       *)
(* sbp_by_id and the loop of sbp_restore that walks a list while moving   *)
(* its nodes to the other.  hbp_append, hbp_remove and hbp_by_id are the  *)
(* same code for watchpoints.  prv is only ever written and left out.     *)
(*                                                                        *)
(* A definition marked "mutant" is no part of the model: it is the slip   *)
(* in the code that the property named in PROJECT.json would catch.       *)
EXTENDS Integers, Sequences, FiniteSets

CONSTANTS
    Nodes,      \* what malloc may return for a breakpoint
    Places,     \* addresses
    MaxId       \* bound: nothing is appended while an id is MaxId from zero

Nil == 0

ASSUME NodeAssumption ==
    /\ IsFiniteSet(Nodes) /\ Nodes \subseteq Nat \ {Nil}
    /\ MaxId \in Nat

VARIABLES
    e, d,       \* t_slave.e_sbp and d_sbp: the first node, or Nil
    nxt, addr, id, current,     \* the fields of a node
    used,       \* the nodes malloc gave out and nobody freed
    it          \* the loop variable of sbp_restore, Nil outside the loop

vars == <<e, d, nxt, addr, id, current, used, it>>

Init ==
    /\ e = Nil /\ d = Nil /\ it = Nil
    /\ nxt = [n \in Nodes |-> Nil] /\ addr \in [Nodes -> {0}]
    /\ id = [n \in Nodes |-> 0] /\ current = [n \in Nodes |-> FALSE]
    /\ used = {}

-------------------------------------------------------------------------
(* The nodes from r on, at most as many as there are; a chain longer than *)
(* that is a loop.                                                        *)
Path(next, r) ==
    LET upTo[k \in 0 .. Cardinality(Nodes)] ==
            IF k = 0 THEN << >>
            ELSE LET s == upTo[k - 1]
                     n == IF s = << >> THEN r ELSE next[s[Len(s)]]
                 IN  IF n = Nil \/ Len(s) < k - 1 THEN s ELSE Append(s, n)
    IN  upTo[Cardinality(Nodes)]

Chain(r) == Path(nxt, r)
Cells(s) == {s[i] : i \in DOMAIN s}
Tail_(s) == s[Len(s)]

(* sbp_append(r, n, inc) on the links in next, as the new links, head and *)
(* id.                                                                    *)
Appended(next, r, n) ==
    IF r = Nil THEN [next EXCEPT ![n] = Nil]
    ELSE [next EXCEPT ![n] = Nil, ![Tail_(Path(next, r))] = n]
AppendHead(r, n) == IF r = Nil THEN n ELSE r
AppendIdOfHead(next, r, inc) == \* mutant: the id follows the head's
    IF r = Nil THEN inc ELSE id[r] + inc
AppendId(next, r, inc) ==
    IF r = Nil THEN inc ELSE id[Tail_(Path(next, r))] + inc

(* sbp_remove(r, n): the new links and head.  A node the list does not    *)
(* hold only loses its own link.                                          *)
Before(r, n) == {m \in Cells(Chain(r)) : nxt[m] = n}
RemovedCuts(r, n) ==            \* mutant: n's nxt is cleared too early
    [m \in Nodes |-> IF m = n \/ m \in Before(r, n) THEN Nil ELSE nxt[m]]
Removed(r, n) ==
    [m \in Nodes |-> IF m = n THEN Nil
                     ELSE IF r # n /\ m \in Before(r, n) THEN nxt[n]
                     ELSE nxt[m]]
RemoveHead(r, n) == IF r = n THEN nxt[n] ELSE r

(* sbp_by_id.                                                             *)
ById(r, i) ==
    LET s == Chain(r)
    IN  {s[k] : k \in {k \in DOMAIN s :
            id[s[k]] = i /\ \A j \in 1 .. k - 1 : id[s[j]] # i}}

Room == \A n \in Cells(Chain(e)) \cup Cells(Chain(d)) :
            id[n] \in 1 - MaxId .. MaxId - 1

-------------------------------------------------------------------------
(* new_sbp: a zeroed node goes through sbp_enable, which first takes it   *)
(* off the disabled list it was never on.                                 *)
New ==
    /\ it = Nil /\ Room
    /\ \E n \in Nodes \ used, a \in Places :
        LET next == Removed(d, n) IN
        /\ d' = RemoveHead(d, n)
        /\ nxt' = Appended(next, e, n) /\ e' = AppendHead(e, n)
        /\ id' = [id EXCEPT ![n] = AppendId(next, e, 1)]
        /\ addr' = [addr EXCEPT ![n] = a]
        /\ current' = [current EXCEPT ![n] = FALSE]
        /\ used' = used \cup {n}
    /\ UNCHANGED it

(* sbp_disable of the node a stop was taken for.                          *)
Disable ==
    /\ it = Nil /\ Room
    /\ \E n \in Cells(Chain(e)) :
        LET next == Removed(e, n) IN
        /\ ~current[n]
        /\ e' = RemoveHead(e, n)
        /\ nxt' = Appended(next, d, n) /\ d' = AppendHead(d, n)
        /\ id' = [id EXCEPT ![n] = AppendId(next, d, -1)]
        /\ current' = [current EXCEPT ![n] = TRUE]
    /\ UNCHANGED <<addr, used, it>>

(* sbp_restore: the loop begins at the head of the disabled list ...      *)
RestoreBegin ==
    /\ it = Nil /\ Room /\ d # Nil
    /\ it' = d
    /\ UNCHANGED <<e, d, nxt, addr, id, current, used>>

(* ... enables a node and goes on to what is then its successor.          *)
RestoreStep ==
    /\ it # Nil
    /\ LET next == Removed(d, it) IN
        /\ d' = RemoveHead(d, it)
        /\ nxt' = Appended(next, e, it) /\ e' = AppendHead(e, it)
        /\ id' = [id EXCEPT ![it] = AppendId(next, e, 1)]
        /\ current' = [current EXCEPT ![it] = FALSE]
        /\ it' = nxt'[it]
    /\ UNCHANGED <<addr, used>>

(* sbp_delete by id, on the list its sign chooses, and free.              *)
DeleteOf(r, i) ==
    \E n \in ById(r, i) :
        /\ nxt' = Removed(r, n)
        /\ used' = used \ {n}
        /\ IF i < 0 THEN d' = RemoveHead(d, n) /\ UNCHANGED e
           ELSE e' = RemoveHead(e, n) /\ UNCHANGED d
DeleteIds == {id[n] : n \in used}
Delete ==
    /\ it = Nil
    /\ \E i \in DeleteIds : DeleteOf(IF i < 0 THEN d ELSE e, i)
    /\ UNCHANGED <<addr, id, current, it>>

Next == New \/ Disable \/ RestoreBegin \/ RestoreStep \/ Delete

Spec == Init /\ [][Next]_vars

-------------------------------------------------------------------------
(* Properties.                                                            *)

(* The two chains hold the allocated nodes, each once: nothing is lost,   *)
(* nothing is freed while linked, and no walk goes round in a loop.       *)
ChainsHoldUsed ==
    /\ Cells(Chain(e)) \cap Cells(Chain(d)) = {}
    /\ Cells(Chain(e)) \cup Cells(Chain(d)) = used
    /\ Len(Chain(e)) + Len(Chain(d)) = Cardinality(used)

(* The pointers implement lists, and the loop of sbp_restore implements   *)
(* the restoring of one node.                                             *)
Values(s) ==
    [i \in DOMAIN s |->
        [addr |-> addr[s[i]], current |-> current[s[i]], id |-> id[s[i]]]]
Lists == INSTANCE BpMoves WITH elst <- Values(Chain(e)), dlst <- Values(Chain(d))
IsLists == Lists!Spec
==========================================================================
