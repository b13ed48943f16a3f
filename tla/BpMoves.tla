----------------------------- MODULE BpMoves -----------------------------
(* What a pair of breakpoint lists promises: breakpoints are made on the  *)
(* enabled list, a stop moves one to the disabled list, the next restore  *)
(* brings the oldest disabled one back, and a command deletes one by id.  *)
(* Tracer uses these operations on values.                                *)
EXTENDS BpList

CONSTANTS
    Places,     \* addresses
    MaxId       \* bound: nothing is appended while an id is MaxId from zero

VARIABLES elst, dlst

Init == elst = << >> /\ dlst = << >>

Room == \A id \in Ids(elst) \cup Ids(dlst) : id \in 1 - MaxId .. MaxId - 1

New ==
    /\ Room
    /\ \E a \in Places :
        elst' = BpAppend(elst, [addr |-> a, current |-> FALSE, id |-> 0], 1)
    /\ UNCHANGED dlst

Disable ==
    /\ Room
    /\ \E i \in DOMAIN elst :
        /\ elst' = BpRemove(elst, i)
        /\ dlst' = BpAppend(dlst, [elst[i] EXCEPT !.current = TRUE], -1)

Restore ==
    /\ Room /\ dlst # << >>
    /\ elst' = BpAppend(elst, [dlst[1] EXCEPT !.current = FALSE], 1)
    /\ dlst' = BpRemove(dlst, 1)

Delete ==
    \/ \E i \in DOMAIN elst : elst' = BpRemove(elst, i) /\ UNCHANGED dlst
    \/ \E i \in DOMAIN dlst : dlst' = BpRemove(dlst, i) /\ UNCHANGED elst

Next == New \/ Disable \/ Restore \/ Delete

Spec == Init /\ [][Next]_<<elst, dlst>>
==========================================================================
