------------------------ MODULE TracerTextProofs ------------------------
(* The slave's text and the breakpoint lists agree as long as no two      *)
(* breakpoints were set closer than a word, for every program and every   *)
(* word size; the debugger knows its child until it reaped it; what a     *)
(* stop may do: move breakpoints between the lists, show where the slave  *)
(* is, and let it go on from there; and the bits watchpoints leave in     *)
(* DR7.                                                                   *)
EXTENDS TracerProofs, FiniteSetTheorems

Disjoint(a, b) == Word(a) \cap Word(b) = {}

(* The words of a list's breakpoints do not meet one another, nor those   *)
(* of another list.                                                       *)
SelfApart(l) ==
    \A i, j \in DOMAIN l : i # j => Disjoint(l[i].addr, l[j].addr)
Apart(l, m) ==
    \A i \in DOMAIN l, j \in DOMAIN m : Disjoint(l[i].addr, m[j].addr)

Unsaved(l) == \A i \in DOMAIN l : l[i].saved = {}

(* The int3 bytes an enabled list accounts for.                           *)
Armed(l) == {a \in Addrs(l) : Word(a) \subseteq Text}

Dead == slave \in {"exited", "killed", "reaped"}

ListsApart ==
    /\ SelfApart(e_sbp) /\ SelfApart(d_sbp) /\ Apart(e_sbp, d_sbp)
    /\ Unsaved(e_sbp) /\ Unsaved(d_sbp)

TextInv ==
    /\ cmd = "shell" => slave \in {"stopped", "killed", "reaped"}
    /\ "overlap" \notin taint =>
        ListsApart /\ (~Dead => int3 = Armed(e_sbp))

-------------------------------------------------------------------------
(* A word holds its own address.                                          *)
LEMMA OwnWord == \A a \in Addr : a \in Word(a)
  BY WordAssumption DEF Word, Addr

(* The nodes of a list after sbp_append, as far as text is concerned.     *)
LEMMA AppendNodes ==
    ASSUME NEW l \in Seq(Sbp), NEW bp \in Sbp, NEW inc \in Int
    PROVE  LET m == BpAppend(l, bp, inc) IN
           /\ DOMAIN m = DOMAIN l \cup {Len(l) + 1}
           /\ Len(l) + 1 \notin DOMAIN l
           /\ \A i \in DOMAIN l : m[i] = l[i]
           /\ m[Len(l) + 1].addr = bp.addr
           /\ m[Len(l) + 1].saved = bp.saved
<1> DEFINE m == BpAppend(l, bp, inc)
<1>1. Numbered(l)
  <2>1. \A i \in DOMAIN l : l[i] \in Sbp
    OBVIOUS
  <2> QED
    BY <2>1 DEF Numbered, Sbp
<1>2. NextId(l, inc) \in Int
  BY <1>1, NextIdInt
<1>3. WithId(bp, NextId(l, inc)) \in Sbp
  BY <1>2, SbpNodes DEF Nodes
<1>4. /\ WithId(bp, NextId(l, inc)).addr = bp.addr
      /\ WithId(bp, NextId(l, inc)).saved = bp.saved
  BY DEF WithId, Sbp
<1>5. /\ DOMAIN m = 1 .. Len(l) + 1
      /\ \A i \in 1 .. Len(l) : m[i] = l[i]
      /\ m[Len(l) + 1] = WithId(bp, NextId(l, inc))
  BY <1>3, AppendShape
<1>6. DOMAIN l = 1 .. Len(l) /\ Len(l) \in Nat
  OBVIOUS
<1>7. 1 .. Len(l) + 1 = 1 .. Len(l) \cup {Len(l) + 1}
  BY <1>6
<1> HIDE DEF m
<1>8. /\ DOMAIN m = DOMAIN l \cup {Len(l) + 1}
      /\ Len(l) + 1 \notin DOMAIN l
  BY <1>5, <1>6, <1>7
<1> QED
  BY <1>4, <1>5, <1>6, <1>8 DEF m

(* The nodes of a list after sbp_remove.                                  *)
LEMMA RemoveNodes ==
    ASSUME NEW l \in Seq(Sbp), NEW k \in DOMAIN l
    PROVE  LET m == BpRemove(l, k)
               was(i) == IF i < k THEN i ELSE i + 1
           IN
           /\ \A i \in DOMAIN m : /\ was(i) \in DOMAIN l
                                  /\ was(i) # k
                                  /\ m[i] = l[was(i)]
           /\ \A i, j \in DOMAIN m : i # j => was(i) # was(j)
           /\ \A j \in DOMAIN l : j # k => \E i \in DOMAIN m : m[i] = l[j]
<1> DEFINE m == BpRemove(l, k)
           was(i) == IF i < k THEN i ELSE i + 1
<1>1. /\ DOMAIN m = 1 .. Len(l) - 1
      /\ \A i \in 1 .. Len(l) - 1 : m[i] = IF i < k THEN l[i] ELSE l[i + 1]
  BY RemoveShape
<1>2. Len(l) \in Nat /\ DOMAIN l = 1 .. Len(l) /\ k \in 1 .. Len(l)
  OBVIOUS
<1> HIDE DEF m
<1>3. \A i \in DOMAIN m : was(i) \in DOMAIN l /\ was(i) # k
                            /\ m[i] = l[was(i)]
  BY <1>1, <1>2
<1>4. \A i, j \in DOMAIN m : i # j => was(i) # was(j)
  BY <1>1, <1>2
<1>5. ASSUME NEW j \in DOMAIN l, j # k
      PROVE  \E i \in DOMAIN m : m[i] = l[j]
  <2>1. CASE j < k
    <3>1. j \in DOMAIN m /\ m[j] = l[j]
      BY <1>1, <1>2, <2>1
    <3> QED
      BY <3>1
  <2>2. CASE k < j
    <3>1. j - 1 \in DOMAIN m /\ ~(j - 1 < k) /\ (j - 1) + 1 = j
      BY <1>1, <1>2, <2>2
    <3>2. m[j - 1] = l[j]
      BY <1>1, <3>1
    <3> QED
      BY <3>1, <3>2
  <2> QED
    BY <1>2, <1>5, <2>1, <2>2
<1> QED
  BY <1>3, <1>4, <1>5 DEF m

(* Appending a node whose word meets none of the list's keeps the list    *)
(* apart, and adds that node's byte to the armed ones.                    *)
LEMMA AppendApart ==
    ASSUME NEW l \in Seq(Sbp), NEW bp \in Sbp, NEW inc \in Int,
           NEW o \in Seq(Sbp), SelfApart(l), Apart(l, o),
           \A i \in DOMAIN l : Disjoint(l[i].addr, bp.addr),
           \A i \in DOMAIN o : Disjoint(o[i].addr, bp.addr),
           Unsaved(l), bp.saved = {}
    PROVE  LET m == BpAppend(l, bp, inc) IN
           /\ SelfApart(m) /\ Apart(m, o) /\ Apart(o, m) /\ Unsaved(m)
           /\ Armed(m) = Armed(l) \cup
                         {a \in {bp.addr} : Word(a) \subseteq Text}
<1> DEFINE m == BpAppend(l, bp, inc)
           n == Len(l) + 1
<1>1. /\ DOMAIN m = DOMAIN l \cup {n} /\ n \notin DOMAIN l
      /\ \A i \in DOMAIN l : m[i] = l[i]
      /\ m[n].addr = bp.addr /\ m[n].saved = bp.saved
  BY AppendNodes
<1> HIDE DEF m, n
<1>2. SelfApart(m)
  BY <1>1 DEF SelfApart, Disjoint
<1>3. Apart(m, o) /\ Apart(o, m)
  BY <1>1 DEF Apart, Disjoint
<1>4. Unsaved(m)
  BY <1>1 DEF Unsaved
<1>5. Addrs(m) = Addrs(l) \cup {bp.addr}
  BY <1>1 DEF Addrs
<1>6. Armed(m) = Armed(l) \cup {a \in {bp.addr} : Word(a) \subseteq Text}
  BY <1>5 DEF Armed
<1> QED
  BY <1>2, <1>3, <1>4, <1>6 DEF m

(* Removing a node keeps the list apart, and takes just that node's byte  *)
(* from the armed ones.                                                   *)
LEMMA RemoveApart ==
    ASSUME NEW l \in Seq(Sbp), NEW k \in DOMAIN l, NEW o \in Seq(Sbp),
           SelfApart(l), Apart(l, o), Unsaved(l)
    PROVE  LET m == BpRemove(l, k) IN
           /\ SelfApart(m) /\ Apart(m, o) /\ Apart(o, m) /\ Unsaved(m)
           /\ \A i \in DOMAIN m : Disjoint(m[i].addr, l[k].addr)
           /\ Armed(m) = Armed(l) \ Word(l[k].addr)
<1> DEFINE m == BpRemove(l, k)
           was(i) == IF i < k THEN i ELSE i + 1
<1>1. /\ \A i \in DOMAIN m : was(i) \in DOMAIN l /\ was(i) # k
                               /\ m[i] = l[was(i)]
      /\ \A i, j \in DOMAIN m : i # j => was(i) # was(j)
      /\ \A j \in DOMAIN l : j # k => \E i \in DOMAIN m : m[i] = l[j]
  BY RemoveNodes
<1> HIDE DEF m, was
<1>2. SelfApart(m) /\ Unsaved(m)
  BY <1>1 DEF SelfApart, Unsaved
<1>3. Apart(m, o) /\ Apart(o, m)
  BY <1>1 DEF Apart, Disjoint
<1>4. \A i \in DOMAIN m : Disjoint(m[i].addr, l[k].addr)
  BY <1>1 DEF SelfApart
<1>5. \A i \in DOMAIN l : l[i].addr \in Addr
  <2>1. \A i \in DOMAIN l : l[i] \in Sbp
    OBVIOUS
  <2> QED
    BY <2>1 DEF Sbp
<1>6. \A i \in DOMAIN m : m[i].addr \notin Word(l[k].addr)
  BY <1>1, <1>4, <1>5, OwnWord DEF Disjoint
<1>7. \A j \in DOMAIN l : l[j].addr \notin Word(l[k].addr) => j # k
  BY <1>5, OwnWord
<1>8. Addrs(m) = Addrs(l) \ Word(l[k].addr)
  BY <1>1, <1>6, <1>7 DEF Addrs
<1>9. Armed(m) = Armed(l) \ Word(l[k].addr)
  BY <1>8 DEF Armed
<1> QED
  BY <1>2, <1>3, <1>4, <1>9 DEF m

-------------------------------------------------------------------------
(* The text after the three moves.                                        *)

(* sbp_set on a node apart from both lists.                               *)
LEMMA EnableText ==
    ASSUME ListInv, NEW bp \in Sbp, NEW d \in Seq(Sbp),
           SbpEnable(bp),
           SelfApart(e_sbp), Apart(e_sbp, d), Unsaved(e_sbp),
           ~Dead => int3 = Armed(e_sbp),
           \A i \in DOMAIN e_sbp : Disjoint(e_sbp[i].addr, bp.addr),
           \A i \in DOMAIN d : Disjoint(d[i].addr, bp.addr)
    PROVE  /\ SelfApart(e_sbp') /\ Apart(e_sbp', d) /\ Unsaved(e_sbp')
           /\ Traceable => int3' = Armed(e_sbp')
<1> DEFINE saved == IF Patchable(bp.addr) THEN int3 \cap Word(bp.addr)
                    ELSE {}
           new == [bp EXCEPT !.saved = saved, !.current = FALSE]
<1>1. Traceable => ~Dead
  BY DEF Traceable, Dead
<1>2. e_sbp \in Seq(Sbp) /\ int3 \subseteq Text
  BY DEF ListInv, SoftPart, EnabledList
<1>3. \A i \in DOMAIN e_sbp : e_sbp[i].addr \in Addr
  <2>1. \A i \in DOMAIN e_sbp : e_sbp[i] \in Sbp
    BY <1>2
  <2> QED
    BY <2>1 DEF Sbp
<1>4. saved = {}
  <2>1. CASE Patchable(bp.addr)
    <3>1. int3 = Armed(e_sbp)
      BY <1>1, <2>1 DEF Patchable
    <3>2. \A a \in Armed(e_sbp) : a \notin Word(bp.addr)
      BY <1>3, OwnWord DEF Armed, Addrs, Disjoint
    <3> QED
      BY <3>1, <3>2
  <2>2. CASE ~Patchable(bp.addr)
    BY <2>2
  <2> QED
    BY <2>1, <2>2
<1>5. new \in Sbp /\ new.addr = bp.addr /\ new.saved = {}
  BY <1>2, <1>4 DEF Sbp
<1>6. e_sbp' = BpAppend(e_sbp, new, 1)
  BY DEF SbpEnable
<1> HIDE DEF new, saved
<1>7. /\ SelfApart(e_sbp') /\ Apart(e_sbp', d) /\ Unsaved(e_sbp')
      /\ Armed(e_sbp') = Armed(e_sbp) \cup
                          {a \in {bp.addr} : Word(a) \subseteq Text}
  BY <1>2, <1>5, <1>6, AppendApart
<1>8. ASSUME Traceable PROVE int3' = Armed(e_sbp')
  <2>1. int3 = Armed(e_sbp)
    BY <1>1, <1>8
  <2>2. int3' = int3 \cup {a \in {bp.addr} : Word(a) \subseteq Text}
    BY <1>8 DEF SbpEnable, Patchable
  <2> QED
    BY <1>7, <2>1, <2>2
<1> QED
  BY <1>7, <1>8

(* sbp_unset writes the program's own bytes back over one word.           *)
LEMMA UnsetText ==
    ASSUME NEW bp \in Sbp, bp.saved = {}, SbpUnset(bp), Traceable,
           int3 = Armed(e_sbp)
    PROVE  int3' = Armed(e_sbp) \ (IF Word(bp.addr) \subseteq Text
                                   THEN Word(bp.addr) ELSE {})
  BY DEF SbpUnset, Patchable

(* A byte armed in an unmapped word there is none.                        *)
LEMMA UnmappedText ==
    ASSUME NEW l \in Seq(Sbp), NEW k \in DOMAIN l, SelfApart(l),
           ~(Word(l[k].addr) \subseteq Text)
    PROVE  Armed(l) \ Word(l[k].addr) = Armed(l)
<1>1. \A i \in DOMAIN l : l[i].addr \in Addr
  <2>1. \A i \in DOMAIN l : l[i] \in Sbp
    OBVIOUS
  <2> QED
    BY <2>1 DEF Sbp
<1>2. \A i \in DOMAIN l : i # k => l[i].addr \notin Word(l[k].addr)
  BY <1>1, OwnWord DEF SelfApart, Disjoint
<1>3. \A a \in Armed(l) : a \notin Word(l[k].addr)
  BY <1>2 DEF Armed, Addrs
<1> QED
  BY <1>3

(* sbp_disable.                                                           *)
LEMMA DisableText ==
    ASSUME ListInv, ListsApart, ~Dead => int3 = Armed(e_sbp), Traceable,
           NEW i \in DOMAIN e_sbp, SbpDisable(i)
    PROVE  ListsApart' /\ int3' = Armed(e_sbp')
<1>1. e_sbp \in Seq(Sbp) /\ d_sbp \in Seq(Sbp)
  BY DEF ListInv, SoftPart, EnabledList, DisabledList
<1>2. e_sbp[i] \in Sbp /\ e_sbp[i].saved = {}
  BY <1>1 DEF ListsApart, Unsaved
<1>3. int3 = Armed(e_sbp)
  BY DEF Traceable, Dead
<1>4. /\ SelfApart(e_sbp') /\ Apart(e_sbp', d_sbp) /\ Unsaved(e_sbp')
      /\ \A j \in DOMAIN e_sbp' : Disjoint(e_sbp'[j].addr, e_sbp[i].addr)
      /\ Armed(e_sbp') = Armed(e_sbp) \ Word(e_sbp[i].addr)
  <2>1. e_sbp' = BpRemove(e_sbp, i)
    BY DEF SbpDisable
  <2> QED
    BY <1>1, <2>1, RemoveApart DEF ListsApart
<1>5. int3' = Armed(e_sbp')
  <2>1. int3' = Armed(e_sbp) \ (IF Word(e_sbp[i].addr) \subseteq Text
                                THEN Word(e_sbp[i].addr) ELSE {})
    BY <1>2, <1>3, UnsetText DEF SbpDisable
  <2> QED
    BY <1>1, <1>4, <2>1, UnmappedText DEF ListsApart
<1> DEFINE new == [e_sbp[i] EXCEPT !.current = TRUE]
<1>6. new \in Sbp /\ new.addr = e_sbp[i].addr /\ new.saved = {}
  BY <1>2 DEF Sbp
<1>7. d_sbp' = BpAppend(d_sbp, new, -1)
  BY DEF SbpDisable
<1>8. \A j \in DOMAIN d_sbp : Disjoint(d_sbp[j].addr, e_sbp[i].addr)
  BY DEF ListsApart, Apart, Disjoint
<1>9. e_sbp' \in Seq(Sbp)
  BY <1>1, RemoveShape DEF SbpDisable
<1>10. Apart(d_sbp, e_sbp')
  BY <1>4 DEF Apart, Disjoint
<1> HIDE DEF new
<1>11. SelfApart(d_sbp') /\ Apart(e_sbp', d_sbp') /\ Unsaved(d_sbp')
  <2>1. /\ \A j \in DOMAIN d_sbp : Disjoint(d_sbp[j].addr, new.addr)
        /\ \A j \in DOMAIN e_sbp' : Disjoint(e_sbp'[j].addr, new.addr)
    BY <1>4, <1>6, <1>8
  <2>2. SelfApart(d_sbp) /\ Unsaved(d_sbp)
    BY DEF ListsApart
  <2>3. -1 \in Int
    OBVIOUS
  <2>4. LET m == BpAppend(d_sbp, new, -1) IN
        /\ SelfApart(m) /\ Apart(e_sbp', m) /\ Unsaved(m)
    <3> DEFINE o == e_sbp'
    <3>1. /\ o \in Seq(Sbp) /\ Apart(d_sbp, o)
          /\ \A j \in DOMAIN o : Disjoint(o[j].addr, new.addr)
      BY <1>9, <1>10, <2>1
    <3> HIDE DEF o
    <3>2. LET m == BpAppend(d_sbp, new, -1) IN
          /\ SelfApart(m) /\ Apart(o, m) /\ Unsaved(m)
      BY <1>1, <1>6, <2>1, <2>2, <2>3, <3>1, AppendApart
    <3> QED
      BY <3>2 DEF o
  <2> QED
    BY <1>7, <2>4
<1> QED
  BY <1>4, <1>5, <1>11 DEF ListsApart

(* sbp_restore on a live slave or a dead one.                             *)
LEMMA RestoreText ==
    ASSUME ListInv, ListsApart, ~Dead => int3 = Armed(e_sbp), RestoreSbp
    PROVE  ListsApart' /\ (Traceable => int3' = Armed(e_sbp'))
<1>1. e_sbp \in Seq(Sbp) /\ d_sbp \in Seq(Sbp)
  BY DEF ListInv, SoftPart, EnabledList, DisabledList
<1>2. CASE UNCHANGED softBps
  BY <1>2 DEF softBps, ListsApart, Traceable, Dead
<1>3. CASE /\ d_sbp # << >> /\ SbpEnable(d_sbp[1])
           /\ d_sbp' = BpRemove(d_sbp, 1)
  <2>1. 1 \in DOMAIN d_sbp /\ d_sbp[1] \in Sbp
    BY <1>1, <1>3, HeadIndex
  <2>2. Apart(d_sbp, e_sbp)
    BY DEF ListsApart, Apart, Disjoint
  <2>3. /\ SelfApart(d_sbp') /\ Apart(e_sbp, d_sbp') /\ Unsaved(d_sbp')
        /\ \A i \in DOMAIN d_sbp' :
              Disjoint(d_sbp'[i].addr, d_sbp[1].addr)
    BY <1>1, <1>3, <2>1, <2>2, RemoveApart DEF ListsApart
  <2>4. d_sbp' \in Seq(Sbp)
    BY <1>1, <1>3, <2>1, RemoveShape
  <2>5. \A i \in DOMAIN e_sbp : Disjoint(e_sbp[i].addr, d_sbp[1].addr)
    BY <2>1 DEF ListsApart, Apart
  <2>6. /\ SelfApart(e_sbp') /\ Apart(e_sbp', d_sbp') /\ Unsaved(e_sbp')
        /\ Traceable => int3' = Armed(e_sbp')
    BY <1>3, <2>1, <2>3, <2>4, <2>5, EnableText DEF ListsApart
  <2> QED
    BY <2>3, <2>6 DEF ListsApart
<1> QED
  BY <1>2, <1>3 DEF RestoreSbp

-------------------------------------------------------------------------
(* Every action keeps the text and the lists in agreement.                *)

LEMMA TextInvInit == Init => TextInv
<1> SUFFICES ASSUME Init PROVE TextInv
  OBVIOUS
<1>1. e_sbp = << >> /\ d_sbp = << >> /\ int3 = {} /\ cmd = "start"
  BY DEF Init
<1>2. ListsApart /\ Armed(e_sbp) = {}
  BY <1>1 DEF ListsApart, SelfApart, Apart, Unsaved, Armed, Addrs
<1> QED
  BY <1>1, <1>2 DEF TextInv

LEMMA SlaveStepKeepsText ==
    ASSUME ListInv, TextInv, SlaveStep
    PROVE  TextInv'
<1>1. UNCHANGED <<int3, e_sbp, d_sbp, cmd, taint>>
  BY DEF SlaveStep
<1>2. ~Dead' => ~Dead
  BY DEF SlaveStep, ExecTrap, Execute, Derail, ExecInt3, HwTrap,
         ExitSlave, Signalled, Killed, Dead, AfterInstr
<1>3. cmd = "shell" => slave' \in {"stopped", "killed", "reaped"}
  BY DEF SlaveStep, ExecTrap, Execute, Derail, ExecInt3, HwTrap,
         ExitSlave, Signalled, Killed, TextInv
<1>4. ListsApart => ListsApart'
  BY <1>1 DEF ListsApart
<1> QED
  BY <1>1, <1>2, <1>3, <1>4 DEF TextInv

LEMMA NewSbpKeepsText ==
    ASSUME ListInv, TextInv, NEW a \in BreakAddrs, NewSbp(a)
    PROVE  TextInv'
<1> SUFFICES ASSUME "overlap" \notin taint'
             PROVE  ListsApart' /\ (~Dead' => int3' = Armed(e_sbp'))
  BY DEF NewSbp, TextInv, process
<1>1. /\ "overlap" \notin taint
      /\ \A b \in Addrs(e_sbp) \cup Addrs(d_sbp) : Disjoint(a, b)
  BY DEF NewSbp, Disjoint
<1>2. ListsApart /\ (~Dead => int3 = Armed(e_sbp))
  BY <1>1 DEF TextInv
<1> DEFINE bp == [addr |-> a, saved |-> {}, current |-> FALSE, id |-> 0]
<1>3. bp \in Sbp /\ bp.addr = a
  BY CommandAssumption DEF Sbp, Addr
<1>4. /\ \A i \in DOMAIN e_sbp : Disjoint(e_sbp[i].addr, bp.addr)
      /\ \A i \in DOMAIN d_sbp : Disjoint(d_sbp[i].addr, bp.addr)
  BY <1>1 DEF Addrs, Disjoint
<1>5. d_sbp \in Seq(Sbp)
  BY DEF ListInv, SoftPart, DisabledList
<1>6. SbpEnable(bp)
  BY DEF NewSbp
<1> HIDE DEF bp
<1>7. /\ SelfApart(e_sbp') /\ Apart(e_sbp', d_sbp) /\ Unsaved(e_sbp')
      /\ Traceable => int3' = Armed(e_sbp')
  BY <1>2, <1>3, <1>4, <1>5, <1>6, EnableText DEF ListsApart
<1>8. d_sbp' = d_sbp /\ slave' = slave /\ AtShell
  BY DEF NewSbp, process
<1>9. ~Dead => Traceable
  BY <1>8 DEF TextInv, AtShell, Dead, Traceable
<1> QED
  BY <1>2, <1>7, <1>8, <1>9 DEF ListsApart, Dead

LEMMA DeleteSbpKeepsText ==
    ASSUME ListInv, TextInv, NEW id, DeleteSbp(id)
    PROVE  TextInv'
<1> SUFFICES ASSUME "overlap" \notin taint'
             PROVE  ListsApart' /\ (~Dead' => int3' = Armed(e_sbp'))
  BY DEF DeleteSbp, TextInv
<1> DEFINE l == IF id < 0 THEN d_sbp ELSE e_sbp
<1>1. PICK i \in BpById(l, id) :
        /\ SbpUnset(l[i])
        /\ taint' = IF l[i].addr # rip THEN taint \cup {"moved"} ELSE taint
        /\ IF id < 0 THEN d_sbp' = BpRemove(d_sbp, i) /\ UNCHANGED e_sbp
           ELSE e_sbp' = BpRemove(e_sbp, i) /\ UNCHANGED d_sbp
  BY DEF DeleteSbp
<1>2. ListsApart /\ (~Dead => int3 = Armed(e_sbp))
  BY <1>1 DEF TextInv
<1>3. i \in DOMAIN l
  BY DEF BpById
<1>4. e_sbp \in Seq(Sbp) /\ d_sbp \in Seq(Sbp)
  BY DEF ListInv, SoftPart, EnabledList, DisabledList
<1>5. l[i] \in Sbp /\ l[i].saved = {}
  BY <1>2, <1>3, <1>4 DEF ListsApart, Unsaved
<1>6. slave' = slave /\ (~Dead => Traceable)
  BY DEF DeleteSbp, TextInv, AtShell, Dead, Traceable
<1>7. ~Dead => int3' = Armed(e_sbp) \ (IF Word(l[i].addr) \subseteq Text
                                       THEN Word(l[i].addr) ELSE {})
  BY <1>1, <1>2, <1>5, <1>6, UnsetText
<1>8. Apart(d_sbp, e_sbp)
  BY <1>2 DEF ListsApart, Apart, Disjoint
<1>9. CASE id < 0
  <2>1. d_sbp' = BpRemove(d_sbp, i) /\ e_sbp' = e_sbp /\ i \in DOMAIN d_sbp
    BY <1>1, <1>3, <1>9
  <2>2. SelfApart(d_sbp') /\ Apart(e_sbp, d_sbp') /\ Unsaved(d_sbp')
    BY <1>2, <1>4, <1>8, <2>1, RemoveApart DEF ListsApart
  <2>3. \A j \in DOMAIN e_sbp : e_sbp[j].addr \notin Word(d_sbp[i].addr)
    <3>1. \A j \in DOMAIN e_sbp : e_sbp[j] \in Sbp
      BY <1>4
    <3>2. \A j \in DOMAIN e_sbp : e_sbp[j].addr \in Addr
      BY <3>1 DEF Sbp
    <3> QED
      BY <1>2, <2>1, <3>2, OwnWord DEF ListsApart, Apart, Disjoint
  <2>4. \A x \in Armed(e_sbp) : x \notin Word(d_sbp[i].addr)
    BY <2>3 DEF Armed, Addrs
  <2>5. ~Dead => int3' = Armed(e_sbp)
    BY <1>7, <1>9, <2>4
  <2> QED
    BY <1>2, <1>6, <2>1, <2>2, <2>5 DEF ListsApart, Dead
<1>10. CASE ~(id < 0)
  <2>1. e_sbp' = BpRemove(e_sbp, i) /\ d_sbp' = d_sbp /\ i \in DOMAIN e_sbp
    BY <1>1, <1>3, <1>10
  <2>2. /\ SelfApart(e_sbp') /\ Apart(e_sbp', d_sbp) /\ Unsaved(e_sbp')
        /\ Armed(e_sbp') = Armed(e_sbp) \ Word(e_sbp[i].addr)
    BY <1>2, <1>4, <2>1, RemoveApart DEF ListsApart
  <2>3. ~Dead => int3' = Armed(e_sbp')
    BY <1>2, <1>4, <1>7, <1>10, <2>1, <2>2, UnmappedText DEF ListsApart
  <2> QED
    BY <1>2, <1>6, <2>1, <2>2, <2>3 DEF ListsApart, Dead
<1> QED
  BY <1>9, <1>10

(* The handlers of a stop, which leave taint alone.                       *)
LEMMA TakeBreakKeepsText ==
    ASSUME ListInv, TextInv, TakeBreak
    PROVE  TextInv'
<1> SUFFICES ASSUME "overlap" \notin taint'
             PROVE  ListsApart' /\ (~Dead' => int3' = Armed(e_sbp'))
  BY DEF TakeBreak, TextInv
<1>1. ListsApart /\ (~Dead => int3 = Armed(e_sbp))
  BY DEF TakeBreak, TextInv
<1>2. Traceable /\ ~Dead
  BY DEF TakeBreak, Traceable, Dead
<1>3. CASE UNCHANGED softBps
  BY <1>1, <1>2, <1>3 DEF softBps, ListsApart
<1>4. CASE \E i \in SbpHit : SbpDisable(i)
  BY <1>1, <1>2, <1>4, DisableText DEF SbpHit, FirstArmed
<1> QED
  BY <1>3, <1>4 DEF TakeBreak

LEMMA RestoreKeepsText ==
    ASSUME ListInv, TextInv, SbpRestore, UNCHANGED taint,
           Traceable \/ slave' = "reaped",
           slave' \in {"stopped", "reaped"} \/ cmd' # "shell"
    PROVE  TextInv'
<1> SUFFICES ASSUME "overlap" \notin taint'
             PROVE  ListsApart' /\ (~Dead' => int3' = Armed(e_sbp'))
  BY DEF TextInv
<1>1. ListsApart /\ (~Dead => int3 = Armed(e_sbp))
  BY DEF TextInv
<1>2. ListsApart' /\ (Traceable => int3' = Armed(e_sbp'))
  BY <1>1, RestoreText DEF SbpRestore
<1> QED
  BY <1>2 DEF Dead

(* Handlers that leave text and lists alone.                              *)
LEMMA IdleKeepsText ==
    ASSUME TextInv, UNCHANGED softBps,
           "overlap" \notin taint' => "overlap" \notin taint,
           Dead => Dead',
           slave' \in {"stopped", "killed", "reaped"} \/ cmd' # "shell"
    PROVE  TextInv'
<1>1. ListsApart => ListsApart'
  BY DEF softBps, ListsApart
<1> QED
  BY <1>1 DEF TextInv, softBps

LEMMA CommandKeepsText ==
    ASSUME ListInv, TextInv, Command
    PROVE  TextInv'
<1>1. CASE StartSlave
  BY <1>1, IdleKeepsText DEF StartSlave, softBps, Dead
<1>2. CASE Step
  BY <1>2, IdleKeepsText DEF Step, softBps, Dead
<1>3. CASE BlindCont
  BY <1>3, IdleKeepsText DEF BlindCont, softBps, Dead
<1>4. CASE ResumeDead
  <2>1. CASE SbpRestore
    BY <1>4, <2>1, RestoreKeepsText DEF ResumeDead
  <2>2. CASE UNCHANGED softBps
    BY <1>4, <2>2, IdleKeepsText DEF ResumeDead, Dead
  <2> QED
    BY <1>4, <2>1, <2>2 DEF ResumeDead
<1>5. CASE TakeBreak
  BY <1>5, TakeBreakKeepsText
<1>6. CASE TakeTrap
  BY <1>6, RestoreKeepsText DEF TakeTrap, Traceable, InTakeStep
<1>7. CASE TakeSignal
  BY <1>7, RestoreKeepsText DEF TakeSignal, Traceable
<1>8. CASE TakeDeath
  BY <1>8, RestoreKeepsText DEF TakeDeath
<1>9. CASE TakeArm
  BY <1>9, RestoreKeepsText DEF TakeArm, Traceable
<1>10. CASE TakeArmDeath
  BY <1>10, IdleKeepsText DEF TakeArmDeath, Dead
<1>11. CASE \E a \in BreakAddrs : NewSbp(a)
  BY <1>11, NewSbpKeepsText
<1>12. CASE \E id \in Ids(e_sbp) \cup Ids(d_sbp) : DeleteSbp(id)
  BY <1>12, DeleteSbpKeepsText
<1>13. CASE \E arg \in WatchArgs : NewHbp(arg)
  BY <1>13, IdleKeepsText DEF NewHbp, process, Dead
<1>14. CASE \E id \in Ids(e_hbp) \cup Ids(d_hbp) : DeleteHbp(id)
  BY <1>14, IdleKeepsText DEF DeleteHbp, process, Dead, TextInv, AtShell
<1>15. CASE Quit
  BY <1>15, IdleKeepsText DEF Quit, process, Dead
<1> QED
  BY <1>1, <1>2, <1>3, <1>4, <1>5, <1>6, <1>7, <1>8, <1>9, <1>10, <1>11,
     <1>12, <1>13, <1>14, <1>15 DEF Command

LEMMA NextKeepsText == ListInv /\ TextInv /\ [Next]_vars => TextInv'
<1> SUFFICES ASSUME ListInv, TextInv, [Next]_vars PROVE TextInv'
  OBVIOUS
<1>1. CASE SlaveStep
  BY <1>1, SlaveStepKeepsText
<1>2. CASE Command
  BY <1>2, CommandKeepsText
<1>3. CASE UNCHANGED vars
  <2>1. ListsApart => ListsApart'
    BY <1>3 DEF vars, ListsApart
  <2> QED
    BY <1>3, <2>1 DEF vars, TextInv, Dead
<1> QED
  BY <1>1, <1>2, <1>3 DEF Next

-------------------------------------------------------------------------
(* As long as no two breakpoints were set closer than a word, the int3    *)
(* bytes of a live slave are those of the enabled breakpoints on mapped   *)
(* words and the saved words hold no int3: setting, hitting, restoring    *)
(* and deleting breakpoints in any order leaves the program's own bytes.  *)
THEOREM TextIsKept == Spec => []TextMatchesLists
<1>1. TextInv => TextMatchesLists
  BY DEF TextInv, TextMatchesLists, ListsApart, Unsaved, Armed, Dead
<1>2. Spec => []TextInv
  BY ListInvariance, TextInvInit, NextKeepsText, PTL DEF Spec
<1> QED
  BY <1>1, <1>2, PTL

(* t_slave.pid is set to -1 exactly when the child has been reaped.       *)
THEOREM PidIsChild == Spec => []PidUntilReaped
<1>1. Init => PidUntilReaped
  BY DEF Init, PidUntilReaped
<1>2. PidUntilReaped /\ [Next]_vars => PidUntilReaped'
  <2> SUFFICES ASSUME PidUntilReaped, [Next]_vars PROVE PidUntilReaped'
    OBVIOUS
  <2> USE DEF PidUntilReaped
  <2>1. CASE SlaveStep
    BY <2>1 DEF SlaveStep, ExecTrap, Execute, Derail, ExecInt3, HwTrap,
                ExitSlave, Signalled, Killed, AfterInstr
  <2>2. CASE Command
    <3>1. CASE StartSlave \/ Step \/ BlindCont \/ ResumeDead
      BY <3>1 DEF StartSlave, Step, BlindCont, ResumeDead
    <3>2. CASE TakeBreak \/ TakeTrap \/ TakeSignal \/ TakeDeath
      BY <3>2 DEF TakeBreak, TakeTrap, TakeSignal, TakeDeath
    <3>3. CASE TakeArm \/ TakeArmDeath
      BY <3>3 DEF TakeArm, TakeArmDeath
    <3>4. CASE \E a \in BreakAddrs : NewSbp(a)
      BY <3>4 DEF NewSbp, process
    <3>5. CASE \E id \in Ids(e_sbp) \cup Ids(d_sbp) : DeleteSbp(id)
      BY <3>5 DEF DeleteSbp
    <3>6. CASE \E arg \in WatchArgs : NewHbp(arg)
      BY <3>6 DEF NewHbp, process
    <3>7. CASE \E id \in Ids(e_hbp) \cup Ids(d_hbp) : DeleteHbp(id)
      BY <3>7 DEF DeleteHbp, process
    <3>8. CASE Quit
      BY <3>8 DEF Quit, process
    <3> QED
      BY <2>2, <3>1, <3>2, <3>3, <3>4, <3>5, <3>6, <3>7, <3>8 DEF Command
  <2>3. CASE UNCHANGED vars
    BY <2>3 DEF vars
  <2> QED
    BY <2>1, <2>2, <2>3 DEF Next
<1> QED
  BY <1>1, <1>2, PTL DEF Spec

-------------------------------------------------------------------------
(* What a stop may do. *)

(* The nodes at an address. *)
NodesAt(l, a) == {i \in DOMAIN l : l[i].addr = a}

LEMMA CountFinite ==
    ASSUME NEW S, NEW l \in Seq(S), NEW a
    PROVE  /\ IsFiniteSet(NodesAt(l, a))
           /\ CountAt(l, a) = Cardinality(NodesAt(l, a))
           /\ CountAt(l, a) \in Nat
<1>1. NodesAt(l, a) \subseteq 1 .. Len(l) /\ Len(l) \in Nat
  BY DEF NodesAt
<1>2. IsFiniteSet(1 .. Len(l))
  BY <1>1, FS_Interval
<1>3. IsFiniteSet(NodesAt(l, a))
  BY <1>1, <1>2, FS_Subset
<1>4. CountAt(l, a) = Cardinality(NodesAt(l, a))
  BY DEF CountAt, NodesAt
<1> QED
  BY <1>3, <1>4, FS_CardinalityType

One(bp, a) == IF bp.addr = a THEN 1 ELSE 0

LEMMA CountAppend ==
    ASSUME NEW l \in Seq(Sbp), NEW bp \in Sbp, NEW inc \in Int, NEW a
    PROVE  CountAt(BpAppend(l, bp, inc), a) = CountAt(l, a) + One(bp, a)
<1> DEFINE m == BpAppend(l, bp, inc)
           n == Len(l) + 1
<1>1. /\ DOMAIN m = DOMAIN l \cup {n} /\ n \notin DOMAIN l
      /\ \A i \in DOMAIN l : m[i] = l[i]
      /\ m[n].addr = bp.addr
  BY AppendNodes
<1>2. CountAt(m, a) = Cardinality(NodesAt(m, a))
  BY DEF CountAt, NodesAt
<1> HIDE DEF m, n
<1>3. /\ IsFiniteSet(NodesAt(l, a))
      /\ CountAt(l, a) = Cardinality(NodesAt(l, a))
      /\ CountAt(l, a) \in Nat
  BY CountFinite
<1>4. CASE bp.addr = a
  <2>1. NodesAt(m, a) = NodesAt(l, a) \cup {n} /\ n \notin NodesAt(l, a)
    BY <1>1, <1>4 DEF NodesAt
  <2>2. Cardinality(NodesAt(m, a)) = Cardinality(NodesAt(l, a)) + 1
    BY <1>3, <2>1, FS_AddElement
  <2> QED
    BY <1>2, <1>3, <1>4, <2>2 DEF One, m
<1>5. CASE bp.addr # a
  <2>1. NodesAt(m, a) = NodesAt(l, a)
    BY <1>1, <1>5 DEF NodesAt
  <2> QED
    BY <1>2, <1>3, <1>5, <2>1 DEF One, m
<1> QED
  BY <1>4, <1>5

LEMMA CountRemove ==
    ASSUME NEW l \in Seq(Sbp), NEW k \in DOMAIN l, NEW a
    PROVE  CountAt(BpRemove(l, k), a) = CountAt(l, a) - One(l[k], a)
<1> DEFINE m == BpRemove(l, k)
           was(i) == IF i < k THEN i ELSE i + 1
           f == [i \in NodesAt(m, a) |-> was(i)]
           rest == NodesAt(l, a) \ {k}
<1>1. /\ m \in Seq(Sbp) /\ DOMAIN m = 1 .. Len(l) - 1
      /\ \A i \in 1 .. Len(l) - 1 : m[i] = IF i < k THEN l[i] ELSE l[i + 1]
  BY RemoveShape
<1>2. Len(l) \in Nat /\ DOMAIN l = 1 .. Len(l) /\ k \in 1 .. Len(l)
  OBVIOUS
<1> HIDE DEF m
<1>3. \A i \in NodesAt(m, a) : was(i) \in rest
  BY <1>1, <1>2 DEF NodesAt
<1>4. \A i, j \in NodesAt(m, a) : was(i) = was(j) => i = j
  BY <1>1, <1>2 DEF NodesAt
<1>5. ASSUME NEW j \in rest PROVE \E i \in NodesAt(m, a) : was(i) = j
  <2>1. j \in 1 .. Len(l) /\ j # k /\ l[j].addr = a
    BY <1>2 DEF NodesAt
  <2>2. CASE j < k
    <3>1. j \in NodesAt(m, a) /\ was(j) = j
      BY <1>1, <1>2, <2>1, <2>2 DEF NodesAt
    <3> QED
      BY <3>1
  <2>3. CASE k < j
    <3>1. j - 1 \in 1 .. Len(l) - 1 /\ ~(j - 1 < k) /\ j - 1 + 1 = j
      BY <1>2, <2>1, <2>3
    <3>2. m[j - 1] = l[j]
      BY <1>1, <3>1
    <3>3. j - 1 \in NodesAt(m, a)
      BY <1>1, <2>1, <3>1, <3>2 DEF NodesAt
    <3>4. was(j - 1) = j
      BY <3>1
    <3> QED
      BY <3>3, <3>4
  <2> QED
    BY <1>2, <2>1, <2>2, <2>3
<1>6. ExistsBijection(NodesAt(m, a), rest)
  <2> HIDE DEF rest, was
  <2>1. f \in [NodesAt(m, a) -> rest]
    BY <1>3
  <2>2. f \in Injection(NodesAt(m, a), rest)
    BY <1>4, <2>1 DEF Injection, IsInjective
  <2>3. f \in Surjection(NodesAt(m, a), rest)
    BY <1>5, <2>1 DEF Surjection
  <2> QED
    BY <2>2, <2>3 DEF Bijection, ExistsBijection
<1>7. /\ IsFiniteSet(NodesAt(m, a)) /\ IsFiniteSet(NodesAt(l, a))
      /\ CountAt(m, a) = Cardinality(NodesAt(m, a))
      /\ CountAt(l, a) = Cardinality(NodesAt(l, a))
      /\ CountAt(l, a) \in Nat
  BY <1>1, CountFinite
<1>8. Cardinality(rest) = Cardinality(NodesAt(m, a))
  BY <1>6, <1>7, FS_Bijection
<1>9. Cardinality(rest) = IF k \in NodesAt(l, a)
                         THEN Cardinality(NodesAt(l, a)) - 1
                         ELSE Cardinality(NodesAt(l, a))
  BY <1>7, FS_RemoveElement
<1>10. k \in NodesAt(l, a) <=> l[k].addr = a
  BY DEF NodesAt
<1> QED
  BY <1>7, <1>8, <1>9, <1>10 DEF One, m

-------------------------------------------------------------------------
(* A move between the lists loses no breakpoint and doubles none. *)

SbpCount(a) == CountAt(e_sbp, a) + CountAt(d_sbp, a)
HbpCount == Len(e_hbp) + Len(d_hbp)

LEMMA CountIsNat ==
    ASSUME SoftPart, NEW a
    PROVE  CountAt(e_sbp, a) \in Nat /\ CountAt(d_sbp, a) \in Nat
<1>1. e_sbp \in Seq(Sbp) /\ d_sbp \in Seq(Sbp)
  BY DEF SoftPart, EnabledList, DisabledList
<1> QED
  BY <1>1, CountFinite

LEMMA DisableCounts ==
    ASSUME SoftPart, NEW i \in DOMAIN e_sbp, SbpDisable(i), NEW a
    PROVE  CountAt(e_sbp', a) + CountAt(d_sbp', a) = SbpCount(a)
<1>1. e_sbp \in Seq(Sbp) /\ d_sbp \in Seq(Sbp) /\ e_sbp[i] \in Sbp
  BY DEF SoftPart, EnabledList, DisabledList
<1> DEFINE new == [e_sbp[i] EXCEPT !.current = TRUE]
<1>2. new \in Sbp /\ new.addr = e_sbp[i].addr
  BY <1>1 DEF Sbp
<1>3. e_sbp' = BpRemove(e_sbp, i) /\ d_sbp' = BpAppend(d_sbp, new, -1)
  BY DEF SbpDisable
<1> HIDE DEF new
<1>4. -1 \in Int
  OBVIOUS
<1>5. CountAt(d_sbp', a) = CountAt(d_sbp, a) + One(new, a)
  BY <1>1, <1>2, <1>3, <1>4, CountAppend
<1>6. CountAt(e_sbp', a) = CountAt(e_sbp, a) - One(e_sbp[i], a)
  BY <1>1, <1>3, CountRemove
<1>7. One(new, a) = One(e_sbp[i], a) /\ One(new, a) \in Nat
  BY <1>2 DEF One
<1> QED
  BY <1>5, <1>6, <1>7, CountIsNat DEF SbpCount

LEMMA RestoreCounts ==
    ASSUME SoftPart, RestoreSbp, NEW a
    PROVE  CountAt(e_sbp', a) + CountAt(d_sbp', a) = SbpCount(a)
<1>1. CASE UNCHANGED softBps
  BY <1>1 DEF softBps, SbpCount
<1>2. CASE /\ d_sbp # << >> /\ SbpEnable(d_sbp[1])
           /\ d_sbp' = BpRemove(d_sbp, 1)
  <2>1. /\ e_sbp \in Seq(Sbp) /\ d_sbp \in Seq(Sbp)
        /\ 1 \in DOMAIN d_sbp /\ d_sbp[1] \in Sbp
    BY <1>2, HeadIndex DEF SoftPart, EnabledList, DisabledList
  <2> DEFINE bp == d_sbp[1]
             saved == IF Patchable(bp.addr) THEN int3 \cap Word(bp.addr)
                      ELSE {}
             new == [bp EXCEPT !.saved = saved, !.current = FALSE]
  <2>2. saved \subseteq Text
    BY DEF SoftPart
  <2>3. new \in Sbp /\ new.addr = bp.addr
    <3> HIDE DEF saved
    <3> QED
      BY <2>1, <2>2 DEF Sbp
  <2>4. e_sbp' = BpAppend(e_sbp, new, 1)
    BY <1>2 DEF SbpEnable
  <2> HIDE DEF new
  <2>5. CountAt(e_sbp', a) = CountAt(e_sbp, a) + One(new, a)
    BY <2>1, <2>3, <2>4, CountAppend
  <2>6. CountAt(d_sbp', a) = CountAt(d_sbp, a) - One(bp, a)
    BY <1>2, <2>1, CountRemove
  <2>7. One(new, a) = One(bp, a) /\ One(new, a) \in Nat
    BY <2>3 DEF One
  <2> QED
    BY <2>5, <2>6, <2>7, CountIsNat DEF SbpCount
<1> QED
  BY <1>1, <1>2 DEF RestoreSbp

(* The lengths of the watchpoint lists. *)
LEMMA MoveLengths ==
    ASSUME NEW l \in Seq(Hbp), NEW k \in DOMAIN l, NEW m \in Seq(Hbp),
           NEW bp \in Hbp, NEW inc \in Int
    PROVE  Len(BpRemove(l, k)) + Len(BpAppend(m, bp, inc)) = Len(l) + Len(m)
<1>1. Numbered(m)
  <2>1. \A i \in DOMAIN m : m[i] \in Hbp
    OBVIOUS
  <2> QED
    BY <2>1 DEF Numbered, Hbp
<1>2. NextId(m, inc) \in Int
  BY <1>1, NextIdInt
<1>3. WithId(bp, NextId(m, inc)) \in Hbp
  BY <1>2, HbpNodes DEF Nodes
<1>4. Len(BpAppend(m, bp, inc)) = Len(m) + 1
  BY <1>3, AppendShape
<1>5. Len(BpRemove(l, k)) = Len(l) - 1
  BY RemoveShape
<1>6. Len(l) \in Nat /\ Len(m) \in Nat
  OBVIOUS
<1> QED
  BY <1>4, <1>5, <1>6

LEMMA DisableLengths ==
    ASSUME HardPart, NEW i \in DOMAIN e_hbp, HbpDisable(i)
    PROVE  Len(e_hbp') + Len(d_hbp') = HbpCount
<1>1. e_hbp \in Seq(Hbp) /\ d_hbp \in Seq(Hbp) /\ e_hbp[i] \in Hbp
  BY DEF HardPart, EnabledList, DisabledList
<1> DEFINE new == [e_hbp[i] EXCEPT !.current = TRUE]
<1>2. new \in Hbp
  BY <1>1 DEF Hbp
<1>3. e_hbp' = BpRemove(e_hbp, i) /\ d_hbp' = BpAppend(d_hbp, new, -1)
  BY DEF HbpDisable
<1>4. -1 \in Int
  OBVIOUS
<1> HIDE DEF new
<1> QED
  BY <1>1, <1>2, <1>3, <1>4, MoveLengths DEF HbpCount

LEMMA RestoreLengths ==
    ASSUME HardPart, RestoreHbp
    PROVE  Len(e_hbp') + Len(d_hbp') = HbpCount
<1>1. CASE UNCHANGED hardBps
  BY <1>1 DEF hardBps, HbpCount
<1>2. CASE /\ d_hbp # << >> /\ HbpSet(d_hbp[1])
           /\ e_hbp' = BpAppend(e_hbp,
                          [d_hbp[1] EXCEPT !.current = FALSE], 1)
           /\ d_hbp' = BpRemove(d_hbp, 1)
  <2>1. /\ e_hbp \in Seq(Hbp) /\ d_hbp \in Seq(Hbp)
        /\ 1 \in DOMAIN d_hbp /\ d_hbp[1] \in Hbp
    BY <1>2, HeadIndex DEF HardPart, EnabledList, DisabledList
  <2> DEFINE new == [d_hbp[1] EXCEPT !.current = FALSE]
  <2>2. new \in Hbp
    BY <2>1 DEF Hbp
  <2>3. e_hbp' = BpAppend(e_hbp, new, 1)
    BY <1>2
  <2> HIDE DEF new
  <2>4. Len(BpRemove(d_hbp, 1)) + Len(BpAppend(e_hbp, new, 1))
            = Len(d_hbp) + Len(e_hbp)
    BY <2>1, <2>2, MoveLengths
  <2>5. /\ Len(d_hbp') + Len(e_hbp') = Len(d_hbp) + Len(e_hbp)
        /\ Len(d_hbp') \in Nat /\ Len(e_hbp') \in Nat
        /\ Len(d_hbp) \in Nat /\ Len(e_hbp) \in Nat
    <3>1. d_hbp' \in Seq(Hbp) /\ e_hbp' \in Seq(Hbp)
      BY RestoreKeepsHard DEF HardPart, EnabledList, DisabledList
    <3> QED
      BY <1>2, <2>1, <2>3, <2>4, <3>1
  <2> QED
    BY <2>5 DEF HbpCount
<1> QED
  BY <1>1, <1>2 DEF RestoreHbp

Kept ==
    /\ \A a \in BreakAddrs :
        CountAt(e_sbp', a) + CountAt(d_sbp', a) = SbpCount(a)
    /\ Len(e_hbp') + Len(d_hbp') = HbpCount

LEMMA MovesKeep ==
    ListInv /\ [Next]_vars => [cmd # "shell" \/ slave' # slave => Kept]_vars
<1> SUFFICES ASSUME ListInv, Next, cmd # "shell" \/ slave' # slave PROVE Kept
  OBVIOUS
<1> USE DEF Kept
<1>1. ASSUME UNCHANGED <<e_sbp, d_sbp, e_hbp, d_hbp>> PROVE Kept
  BY <1>1 DEF SbpCount, HbpCount
<1>2. ASSUME SbpRestore PROVE Kept
  BY <1>2, RestoreCounts, RestoreLengths DEF ListInv, SbpRestore
<1>3. CASE SlaveStep
  BY <1>1, <1>3 DEF SlaveStep
<1>4. CASE StartSlave \/ TakeArmDeath \/ Step \/ BlindCont
  BY <1>1, <1>4 DEF StartSlave, TakeArmDeath, Step, BlindCont, softBps, hardBps
<1>7. CASE ResumeDead
  BY <1>1, <1>2, <1>7 DEF ResumeDead, softBps, hardBps
<1>8. CASE \/ \E a \in BreakAddrs : NewSbp(a)
           \/ \E id \in Ids(e_sbp) \cup Ids(d_sbp) : DeleteSbp(id)
           \/ \E arg \in WatchArgs : NewHbp(arg)
           \/ \E id \in Ids(e_hbp) \cup Ids(d_hbp) : DeleteHbp(id)
           \/ Quit
  BY <1>8 DEF NewSbp, DeleteSbp, NewHbp, DeleteHbp, Quit, AtShell, process
<1>5. CASE TakeTrap \/ TakeSignal \/ TakeDeath \/ TakeArm
  BY <1>2, <1>5 DEF TakeTrap, TakeSignal, TakeDeath, TakeArm
<1>6. CASE TakeBreak
  <2>1. \A a \in BreakAddrs :
            CountAt(e_sbp', a) + CountAt(d_sbp', a) = SbpCount(a)
    <3>1. CASE UNCHANGED softBps
      BY <3>1 DEF softBps, SbpCount
    <3>2. CASE \E i \in SbpHit : SbpDisable(i)
      BY <3>2, DisableCounts DEF ListInv, SbpHit, FirstArmed
    <3> QED
      BY <1>6, <3>1, <3>2 DEF TakeBreak
  <2>2. Len(e_hbp') + Len(d_hbp') = HbpCount
    <3>1. CASE UNCHANGED hardBps
      BY <3>1 DEF hardBps, HbpCount
    <3>2. CASE \E i \in HbpHit : HbpDisable(i)
      BY <3>2, DisableLengths DEF ListInv, HbpHit, FirstAt
    <3> QED
      BY <1>6, <3>1, <3>2 DEF TakeBreak
  <2> QED
    BY <2>1, <2>2
<1> QED
  BY <1>3, <1>4, <1>5, <1>6, <1>7, <1>8 DEF Next, Command

(* Whatever a stop was taken for, and when the slave was found dead, the  *)
(* handlers of take_step only move breakpoints between the lists: none is *)
(* lost or doubled.                                                       *)
THEOREM StopsMove == Spec => StopsKeepBps
<1>1. [cmd # "shell" \/ slave' # slave => Kept]_vars
      => [cmd # "shell" \/ slave' # slave =>
            /\ \A a \in BreakAddrs :
                CountAt(e_sbp', a) + CountAt(d_sbp', a)
                    = CountAt(e_sbp, a) + CountAt(d_sbp, a)
            /\ Len(e_hbp') + Len(d_hbp') = Len(e_hbp) + Len(d_hbp)]_vars
  BY DEF Kept, SbpCount, HbpCount
<1> QED
  BY <1>1, MovesKeep, ListInvariance, PTL DEF Spec, StopsKeepBps

-------------------------------------------------------------------------
(* The copy of the registers.  Every handler that hands the prompt back   *)
(* with a stopped slave has read them, or written rip and its copy.       *)

LEMMA NextKeepsRegs == RegsAreSlaves /\ [Next]_vars => RegsAreSlaves'
<1> SUFFICES ASSUME RegsAreSlaves, [Next]_vars PROVE RegsAreSlaves'
  OBVIOUS
<1> USE DEF RegsAreSlaves
<1>1. CASE SlaveStep
  BY <1>1 DEF SlaveStep, ExecTrap, Execute, Derail, ExecInt3, HwTrap,
              ExitSlave, Signalled, Killed, AfterInstr
<1>2. CASE StartSlave \/ Step \/ BlindCont \/ ResumeDead
  BY <1>2 DEF StartSlave, Step, BlindCont, ResumeDead
<1>3. CASE TakeTrap \/ TakeSignal \/ TakeDeath
  BY <1>3 DEF TakeTrap, TakeSignal, TakeDeath
<1>4. CASE TakeArm \/ TakeArmDeath
  BY <1>4 DEF TakeArm, TakeArmDeath
<1>5. CASE TakeBreak
  <2>1. CASE regs' = rip /\ UNCHANGED <<rip, softBps>>
    BY <2>1
  <2>2. CASE \E i \in SbpHit : SbpDisable(i)
    BY <1>5, <2>2 DEF TakeBreak, SbpDisable, SbpUnset, Traceable
  <2> QED
    BY <1>5, <2>1, <2>2 DEF TakeBreak
<1>6. CASE \E a \in BreakAddrs : NewSbp(a)
  BY <1>6 DEF NewSbp, process
<1>7. CASE \E id \in Ids(e_sbp) \cup Ids(d_sbp) : DeleteSbp(id)
  <2>1. slave' = slave /\ \E bp : SbpUnset(bp)
    BY <1>7 DEF DeleteSbp
  <2> QED
    BY <2>1 DEF SbpUnset, Traceable
<1>8. CASE \E arg \in WatchArgs : NewHbp(arg)
  BY <1>8 DEF NewHbp, process
<1>9. CASE \E id \in Ids(e_hbp) \cup Ids(d_hbp) : DeleteHbp(id)
  BY <1>9 DEF DeleteHbp, process
<1>10. CASE Quit
  BY <1>10 DEF Quit, process
<1>11. CASE UNCHANGED vars
  BY <1>11 DEF vars
<1> QED
  BY <1>1, <1>2, <1>3, <1>4, <1>5, <1>6, <1>7, <1>8, <1>9, <1>10, <1>11
  DEF Next, Command

(* While commands are read, the debugger's copy of rip is where the       *)
(* stopped slave is: update_slave_state and the write-back of sbp_unset   *)
(* leave no stale copy.                                                   *)
THEOREM RegsCopied == Spec => []RegsAreSlaves
<1>1. Init => RegsAreSlaves
  BY DEF Init, RegsAreSlaves
<1> QED
  BY <1>1, NextKeepsRegs, PTL DEF Spec

-------------------------------------------------------------------------
(* Transparency: where the slave goes on from.                            *)

(* Every breakpoint was set by b.                                         *)
AddrsGiven == Addrs(e_sbp) \cup Addrs(d_sbp) \subseteq BreakAddrs

(* Once it stopped, the slave is where its program is, or one byte past   *)
(* it because it just executed the int3 of an enabled breakpoint, which   *)
(* only the handlers of take_step are then left to see.                   *)
DueInv ==
    /\ cmd \in {"shell", "quit"} =>
        slave \in {"stopped", "killed", "reaped"}
    /\ Spaced /\ taint = {} =>
        /\ slave \in {"running", "stopped", "signal"} => rip = due
        /\ slave = "trap" =>
            \/ rip = due
            \/ rip = due + 1 /\ due \in int3 /\ InTakeStep
        /\ slave = "running" /\ cmd = "arm" => rip \notin int3

LEMMA AppendAddrs ==
    ASSUME NEW l \in Seq(Sbp), NEW bp \in Sbp, NEW inc \in Int
    PROVE  Addrs(BpAppend(l, bp, inc)) = Addrs(l) \cup {bp.addr}
<1> DEFINE m == BpAppend(l, bp, inc)
           n == Len(l) + 1
<1>1. /\ DOMAIN m = DOMAIN l \cup {n}
      /\ n \notin DOMAIN l
      /\ \A i \in DOMAIN l : m[i] = l[i]
      /\ m[n].addr = bp.addr
  BY AppendNodes
<1> HIDE DEF m, n
<1>2. Addrs(m) = Addrs(l) \cup {bp.addr}
  BY <1>1 DEF Addrs
<1> QED
  BY <1>2 DEF m

LEMMA RemoveAddrs ==
    ASSUME NEW l \in Seq(Sbp), NEW k \in DOMAIN l
    PROVE  Addrs(BpRemove(l, k)) \subseteq Addrs(l)
<1> DEFINE m == BpRemove(l, k)
<1>1. \A i \in DOMAIN m : \E j \in DOMAIN l : m[i] = l[j]
  BY RemoveNodes
<1> HIDE DEF m
<1>2. Addrs(m) \subseteq Addrs(l)
  BY <1>1 DEF Addrs
<1> QED
  BY <1>2 DEF m

LEMMA EnableAddrs ==
    ASSUME ListInv, NEW bp \in Sbp, SbpEnable(bp)
    PROVE  Addrs(e_sbp') = Addrs(e_sbp) \cup {bp.addr}
<1> DEFINE saved == IF Patchable(bp.addr) THEN int3 \cap Word(bp.addr)
                    ELSE {}
           new == [bp EXCEPT !.saved = saved, !.current = FALSE]
<1>1. e_sbp \in Seq(Sbp) /\ int3 \subseteq Text
  BY DEF ListInv, SoftPart, EnabledList
<1>2. new \in Sbp /\ new.addr = bp.addr
  BY <1>1 DEF Sbp
<1>3. e_sbp' = BpAppend(e_sbp, new, 1)
  BY DEF SbpEnable
<1> HIDE DEF new, saved
<1> QED
  BY <1>1, <1>2, <1>3, AppendAddrs

LEMMA DisableAddrs ==
    ASSUME ListInv, AddrsGiven, NEW i \in DOMAIN e_sbp, SbpDisable(i)
    PROVE  AddrsGiven'
<1>1. e_sbp \in Seq(Sbp) /\ d_sbp \in Seq(Sbp) /\ e_sbp[i] \in Sbp
  BY DEF ListInv, SoftPart, EnabledList, DisabledList
<1> DEFINE new == [e_sbp[i] EXCEPT !.current = TRUE]
<1>2. new \in Sbp /\ new.addr = e_sbp[i].addr
  BY <1>1 DEF Sbp
<1>3. e_sbp[i].addr \in Addrs(e_sbp)
  BY DEF Addrs
<1>4. e_sbp' = BpRemove(e_sbp, i) /\ d_sbp' = BpAppend(d_sbp, new, -1)
  BY DEF SbpDisable
<1>5. -1 \in Int
  OBVIOUS
<1> HIDE DEF new
<1>6. Addrs(d_sbp') = Addrs(d_sbp) \cup {e_sbp[i].addr}
  BY <1>1, <1>2, <1>4, <1>5, AppendAddrs
<1>7. Addrs(e_sbp') \subseteq Addrs(e_sbp)
  BY <1>1, <1>4, RemoveAddrs
<1> QED
  BY <1>3, <1>6, <1>7 DEF AddrsGiven

LEMMA RestoreAddrs ==
    ASSUME ListInv, AddrsGiven, RestoreSbp
    PROVE  AddrsGiven'
<1>1. CASE UNCHANGED softBps
  BY <1>1 DEF softBps, AddrsGiven
<1>2. CASE /\ d_sbp # << >> /\ SbpEnable(d_sbp[1])
           /\ d_sbp' = BpRemove(d_sbp, 1)
  <2>1. d_sbp \in Seq(Sbp)
    BY DEF ListInv, SoftPart, DisabledList
  <2>2. 1 \in DOMAIN d_sbp /\ d_sbp[1] \in Sbp
    BY <1>2, <2>1, HeadIndex
  <2>3. d_sbp[1].addr \in Addrs(d_sbp)
    BY <2>2 DEF Addrs
  <2>4. Addrs(e_sbp') = Addrs(e_sbp) \cup {d_sbp[1].addr}
    BY <1>2, <2>2, EnableAddrs
  <2>5. Addrs(d_sbp') \subseteq Addrs(d_sbp)
    BY <1>2, <2>1, <2>2, RemoveAddrs
  <2> QED
    BY <2>3, <2>4, <2>5 DEF AddrsGiven
<1> QED
  BY <1>1, <1>2 DEF RestoreSbp

LEMMA NextKeepsAddrs == ListInv /\ AddrsGiven /\ [Next]_vars => AddrsGiven'
<1> SUFFICES ASSUME ListInv, AddrsGiven, [Next]_vars PROVE AddrsGiven'
  OBVIOUS
<1>1. ASSUME UNCHANGED <<e_sbp, d_sbp>> PROVE AddrsGiven'
  BY <1>1 DEF AddrsGiven
<1>2. CASE SlaveStep
  BY <1>1, <1>2 DEF SlaveStep
<1>3. CASE StartSlave \/ Step \/ BlindCont \/ TakeArmDeath \/ Quit
  BY <1>1, <1>3 DEF StartSlave, Step, BlindCont, TakeArmDeath, Quit,
                    softBps
<1>4. CASE TakeTrap \/ TakeSignal \/ TakeDeath \/ TakeArm
  BY <1>4, RestoreAddrs
  DEF TakeTrap, TakeSignal, TakeDeath, TakeArm, SbpRestore
<1>5. CASE ResumeDead
  BY <1>1, <1>5, RestoreAddrs DEF ResumeDead, SbpRestore, softBps
<1>6. CASE TakeBreak
  <2>1. CASE UNCHANGED softBps
    BY <1>1, <2>1 DEF softBps
  <2>2. CASE \E i \in SbpHit : SbpDisable(i)
    BY <2>2, DisableAddrs DEF SbpHit, FirstArmed
  <2> QED
    BY <1>6, <2>1, <2>2 DEF TakeBreak
<1>7. ASSUME NEW a \in BreakAddrs, NewSbp(a) PROVE AddrsGiven'
  <2> DEFINE bp == [addr |-> a, saved |-> {}, current |-> FALSE, id |-> 0]
  <2>1. bp \in Sbp /\ bp.addr = a
    BY CommandAssumption DEF Sbp, Addr
  <2>2. SbpEnable(bp) /\ d_sbp' = d_sbp
    BY <1>7 DEF NewSbp
  <2> HIDE DEF bp
  <2>3. Addrs(e_sbp') = Addrs(e_sbp) \cup {a}
    BY <2>1, <2>2, EnableAddrs
  <2> QED
    BY <2>2, <2>3 DEF AddrsGiven
<1>8. ASSUME NEW id, DeleteSbp(id) PROVE AddrsGiven'
  <2> DEFINE l == IF id < 0 THEN d_sbp ELSE e_sbp
  <2>1. PICK i \in BpById(l, id) :
          IF id < 0 THEN d_sbp' = BpRemove(d_sbp, i) /\ UNCHANGED e_sbp
          ELSE e_sbp' = BpRemove(e_sbp, i) /\ UNCHANGED d_sbp
    BY <1>8 DEF DeleteSbp
  <2>2. i \in DOMAIN l
    BY DEF BpById
  <2>3. e_sbp \in Seq(Sbp) /\ d_sbp \in Seq(Sbp)
    BY DEF ListInv, SoftPart, EnabledList, DisabledList
  <2>4. CASE id < 0
    BY <2>1, <2>2, <2>3, <2>4, RemoveAddrs DEF AddrsGiven
  <2>5. CASE ~(id < 0)
    BY <2>1, <2>2, <2>3, <2>5, RemoveAddrs DEF AddrsGiven
  <2> QED
    BY <2>4, <2>5
<1>9. CASE \/ \E arg \in WatchArgs : NewHbp(arg)
           \/ \E id \in Ids(e_hbp) \cup Ids(d_hbp) : DeleteHbp(id)
  BY <1>1, <1>9 DEF NewHbp, DeleteHbp, softBps
<1>10. CASE UNCHANGED vars
  BY <1>1, <1>10 DEF vars
<1> QED
  BY <1>2, <1>3, <1>4, <1>5, <1>6, <1>7, <1>8, <1>9, <1>10
  DEF Next, Command
(* Which breakpoint a SIGTRAP of take_step is taken for: the one whose    *)
(* address the program has reached, if its int3 was executed; else one at *)
(* rip itself, if there is any.                                           *)
LEMMA HitIsDue ==
    ASSUME ListInv, TextInv, AddrsGiven, DueInv, Spaced, taint = {},
           slave = "trap"
    PROVE  /\ \A i \in SbpHit : i \in DOMAIN e_sbp /\ e_sbp[i].addr = due
           /\ SbpHit = {} => rip = due
<1>1. due \in Instr /\ due \in Nat
  BY ProgramAssumption DEF ListInv, ProcessPart
<1>2. /\ e_sbp \in Seq(Sbp) /\ \A i \in DOMAIN e_sbp : ~e_sbp[i].current
  BY DEF ListInv, SoftPart, EnabledList
<1>3. SelfApart(e_sbp) /\ int3 = Armed(e_sbp)
  BY DEF TextInv, ListsApart, Dead
<1>4. \A i \in DOMAIN e_sbp : e_sbp[i].addr \in Nat
  <2>1. \A i \in DOMAIN e_sbp : e_sbp[i] \in Sbp
    BY <1>2
  <2> QED
    BY <2>1 DEF Sbp, Addr
<1>5. \A i \in DOMAIN e_sbp : e_sbp[i].addr \in BreakAddrs
  BY DEF AddrsGiven, Addrs
<1>6. CASE rip = due
  <2>1. FirstArmed(e_sbp, rip - 1) = {}
    <3>1. \A i \in DOMAIN e_sbp : e_sbp[i].addr # rip - 1
      BY <1>1, <1>4, <1>5, <1>6 DEF Spaced
    <3> QED
      BY <3>1 DEF FirstArmed
  <2>2. SbpHit = FirstArmed(e_sbp, due)
    BY <1>6, <2>1 DEF SbpHit
  <2> QED
    BY <1>6, <2>2 DEF FirstArmed
<1>7. CASE rip = due + 1 /\ due \in int3
  <2>1. PICK k \in DOMAIN e_sbp : e_sbp[k].addr = due
    BY <1>3, <1>7 DEF Armed, Addrs
  <2>2. FirstArmed(e_sbp, rip) = {}
    <3>1. due + 1 \in Word(due) /\ due + 1 \in Word(due + 1)
      BY <1>1, WordAssumption DEF Word
    <3>2. \A i \in DOMAIN e_sbp : e_sbp[i].addr # due + 1
      BY <1>1, <1>3, <2>1, <3>1 DEF SelfApart, Disjoint
    <3> QED
      BY <1>7, <3>2 DEF FirstArmed
  <2>3. rip - 1 = due
    BY <1>1, <1>7
  <2>4. SbpHit = FirstArmed(e_sbp, due)
    BY <2>2, <2>3 DEF SbpHit
  <2>5. k \in FirstArmed(e_sbp, due)
    <3>1. due \in Word(due)
      BY <1>1, OwnWord DEF Addr
    <3>2. \A j \in DOMAIN e_sbp : j # k => e_sbp[j].addr # due
      BY <1>3, <2>1, <3>1 DEF SelfApart, Disjoint
    <3>3. DOMAIN e_sbp = 1 .. Len(e_sbp) /\ Len(e_sbp) \in Nat
      BY <1>2
    <3>4. \A j \in 1 .. k - 1 : j \in DOMAIN e_sbp /\ j # k
      BY <3>3
    <3> QED
      BY <1>2, <2>1, <3>2, <3>4 DEF FirstArmed
  <2> QED
    BY <2>4, <2>5 DEF FirstArmed
<1> QED
  BY <1>6, <1>7 DEF DueInv

LEMMA SlaveStepKeepsDue ==
    ASSUME ListInv, TextInv, DueInv, SlaveStep
    PROVE  DueInv'
<1>1. UNCHANGED <<int3, cmd, taint>>
  BY DEF SlaveStep
<1>2. slave = "running" => cmd \notin {"shell", "quit"}
  BY DEF DueInv
<1>3. cmd \in Commands /\ due \in Instr
  BY DEF ListInv, ProcessPart
<1> USE DEF DueInv, InTakeStep, Commands, AfterInstr
<1>4. CASE ExecTrap    BY <1>1, <1>2, <1>3, <1>4 DEF ExecTrap
<1>5. CASE Execute     BY <1>1, <1>2, <1>3, <1>5 DEF Execute
<1>6. CASE Derail
  BY <1>1, <1>2, <1>3, <1>6 DEF Derail
<1>7. CASE ExecInt3    BY <1>1, <1>2, <1>3, <1>7 DEF ExecInt3
<1>8. CASE HwTrap      BY <1>1, <1>2, <1>3, <1>8 DEF HwTrap
<1>9. CASE ExitSlave   BY <1>1, <1>2, <1>3, <1>9 DEF ExitSlave
<1>10. CASE Signalled  BY <1>1, <1>2, <1>3, <1>10 DEF Signalled
<1>11. CASE Killed     BY <1>1, <1>2, <1>3, <1>11 DEF Killed
<1> QED
  BY <1>4, <1>5, <1>6, <1>7, <1>8, <1>9, <1>10, <1>11 DEF SlaveStep

LEMMA CommandKeepsDue ==
    ASSUME ListInv, TextInv, AddrsGiven, DueInv, Command
    PROVE  DueInv'
<1> USE DEF DueInv, InTakeStep
<1>1. CASE StartSlave
  BY <1>1 DEF StartSlave
<1>2. CASE Step
  BY <1>2 DEF Step
<1>3. CASE BlindCont
  BY <1>3 DEF BlindCont
<1>4. CASE ResumeDead \/ TakeDeath \/ TakeArmDeath
  BY <1>4 DEF ResumeDead, TakeDeath, TakeArmDeath
<1>5. CASE TakeBreak
  <2>1. slave' = "stopped" /\ cmd' = "shell" /\ UNCHANGED <<due, taint>>
    BY <1>5 DEF TakeBreak
  <2>2. ASSUME Spaced, taint = {} PROVE rip' = due
    <3>1. slave = "trap"
      BY <1>5 DEF TakeBreak
    <3>2. /\ \A i \in SbpHit : i \in DOMAIN e_sbp /\ e_sbp[i].addr = due
          /\ SbpHit = {} => rip = due
      BY <2>2, <3>1, HitIsDue
    <3>3. CASE SbpHit = {}
      BY <1>5, <3>2, <3>3 DEF TakeBreak
    <3>4. CASE SbpHit # {}
      BY <1>5, <3>1, <3>2, <3>4
      DEF TakeBreak, SbpDisable, SbpUnset, Traceable
    <3> QED
      BY <3>3, <3>4
  <2> QED
    BY <2>1, <2>2
<1>6. CASE TakeTrap
  <2>1. Spaced /\ taint = {} => rip = due
    BY <1>6, HitIsDue DEF TakeTrap
  <2> QED
    BY <1>6, <2>1 DEF TakeTrap
<1>7. CASE TakeSignal
  BY <1>7 DEF TakeSignal
<1>8. CASE TakeArm
  BY <1>8 DEF TakeArm
<1>9. CASE \E a \in BreakAddrs : NewSbp(a)
  BY <1>9 DEF NewSbp, process, AtShell
<1>10. CASE \E id \in Ids(e_sbp) \cup Ids(d_sbp) : DeleteSbp(id)
  <2>1. /\ AtShell /\ UNCHANGED <<slave, due, cmd>>
        /\ \E bp : /\ SbpUnset(bp)
                   /\ taint' = IF bp.addr # rip THEN taint \cup {"moved"}
                               ELSE taint
    BY <1>10 DEF DeleteSbp
  <2>2. taint' = {} => rip' = rip /\ taint = {}
    BY <2>1 DEF SbpUnset
  <2> QED
    BY <2>1, <2>2 DEF AtShell
<1>11. CASE \E arg \in WatchArgs : NewHbp(arg)
  BY <1>11 DEF NewHbp, process, softBps
<1>12. CASE \E id \in Ids(e_hbp) \cup Ids(d_hbp) : DeleteHbp(id)
  BY <1>12 DEF DeleteHbp, process, softBps
<1>13. CASE Quit
  BY <1>13 DEF Quit, process, softBps, AtShell
<1> QED
  BY <1>1, <1>2, <1>3, <1>4, <1>5, <1>6, <1>7, <1>8, <1>9, <1>10, <1>11,
     <1>12, <1>13 DEF Command

(* Whatever the program and its breakpoints, provided none is directly    *)
(* followed by an instruction that can be reached without it, each resume *)
(* goes on from the instruction the program had reached -- unless         *)
(* breakpoints overlapped, one away from rip was deleted, or rb stepped   *)
(* onto an int3.                                                          *)
THEOREM BreakpointsTransparent == Spec => []GoesOnWhereDue
<1>1. Init => AddrsGiven /\ DueInv
  BY DEF Init, AddrsGiven, Addrs, DueInv
<1>2. /\ ListInv /\ TextInv /\ AddrsGiven /\ DueInv /\ [Next]_vars
      => DueInv'
  <2>1. CASE UNCHANGED vars
    BY <2>1 DEF vars, DueInv, InTakeStep
  <2> QED
    BY <2>1, SlaveStepKeepsDue, CommandKeepsDue DEF Next
<1>3. DueInv => GoesOnWhereDue
  BY DEF DueInv, GoesOnWhereDue
<1>4. Spec => []TextInv
  BY ListInvariance, TextInvInit, NextKeepsText, PTL DEF Spec
<1> QED
  BY <1>1, <1>2, <1>3, <1>4, ListInvariance, NextKeepsAddrs, PTL DEF Spec

-------------------------------------------------------------------------
(* DR7 with one-byte watchpoints only: HBP_SET_DR7 then makes no bit      *)
(* above 16, so that the kernel finds no type it refuses and takes every  *)
(* value hbp_set and hbp_unset write.                                     *)

Large(b) == 2^b \in Nat /\ 2^17 <= 2^b

LEMMA LargePowers == \A b \in 17 .. 30 : Large(b)
<1>17. Large(17)
  BY SMT DEF Large
<1>18. Large(18)
  BY SMT DEF Large
<1>19. Large(19)
  BY SMT DEF Large
<1>20. Large(20)
  BY SMT DEF Large
<1>21. Large(21)
  BY SMT DEF Large
<1>22. Large(22)
  BY SMT DEF Large
<1>23. Large(23)
  BY SMT DEF Large
<1>24. Large(24)
  BY SMT DEF Large
<1>25. Large(25)
  BY SMT DEF Large
<1>26. Large(26)
  BY SMT DEF Large
<1>27. Large(27)
  BY SMT DEF Large
<1>28. Large(28)
  BY SMT DEF Large
<1>29. Large(29)
  BY SMT DEF Large
<1>30. Large(30)
  BY SMT DEF Large
<1>31. \A b \in {17, 18, 19, 20, 21, 22, 23} : Large(b)
  BY <1>17, <1>18, <1>19, <1>20, <1>21, <1>22, <1>23, Zenon
<1>32. \A b \in {24, 25, 26, 27, 28, 29, 30} : Large(b)
  BY <1>24, <1>25, <1>26, <1>27, <1>28, <1>29, <1>30, Zenon
<1>33. \A b \in 17 .. 30 : \/ b \in {17, 18, 19, 20, 21, 22, 23}
                          \/ b \in {24, 25, 26, 27, 28, 29, 30}
  OBVIOUS
<1> QED
  BY <1>31, <1>32, <1>33

(* A number below a power of two has not that bit.                        *)
LEMMA NoBit ==
    ASSUME NEW n \in Nat, NEW p \in Nat, n < p
    PROVE  (n \div p) % 2 = 0
  BY SMT

LEMMA LowBits ==
    ASSUME NEW n \in Nat, n < 2^17
    PROVE  BitsOf(n) \subseteq 0 .. 16
<1>1. ASSUME NEW b \in 17 .. 30 PROVE (n \div 2^b) % 2 # 1
  <2> DEFINE p == 2^b
  <2> DEFINE limit == 2^17
  <2>0. limit \in Nat
    BY SMT
  <2>1. p \in Nat /\ limit <= p
    BY LargePowers, Zenon DEF Large
  <2> HIDE DEF p, limit
  <2>2. n < p
    <3>1. n < limit
      BY DEF limit
    <3> QED
      BY <2>0, <2>1, <3>1
  <2>3. (n \div p) % 2 = 0
    BY <2>1, <2>2, NoBit
  <2> QED
    BY <2>3 DEF p
<1>2. \A b \in 0 .. 30 : b \in 0 .. 16 \/ b \in 17 .. 30
  OBVIOUS
<1> QED
  BY <1>1, <1>2 DEF BitsOf

LEMMA ByteBits ==
    ASSUME NEW bp \in Hbp, bp.len = 0
    PROVE  BitsOfBp(bp) \subseteq 0 .. 16
<1>1. bp.regnum \in {0, 1, 2, 3} /\ bp.scope \in {0, 1}
        /\ bp.access \in {0, 1, 2, 3}
  BY DEF Hbp, Slots, Accesses
<1>2. Dr7Scope(bp.regnum, bp.scope) \in 0 .. 9
  <2>1. 2^0 = 1 /\ 2^1 = 2 /\ 2^2 = 4 /\ 2^3 = 8
    BY SMT
  <2>2. 2^bp.regnum \in {1, 2, 4, 8}
    BY <1>1, <2>1, Zenon
  <2> QED
    BY <1>1, <2>2 DEF Dr7Scope
<1>3. /\ Dr7Type(bp.regnum, bp.access) \in Nat
      /\ Dr7Type(bp.regnum, bp.access) < 2^17
  BY <1>1, SMT DEF Dr7Type
<1>4. Dr7Len(bp.regnum, 0) \in 0 .. 12
  BY <1>1, SMT DEF Dr7Len
<1>5. \A n \in 0 .. 12 : n \in Nat /\ n < 2^17
  BY SMT
<1>6. BitsOf(Dr7Scope(bp.regnum, bp.scope)) \subseteq 0 .. 16
  BY <1>2, <1>5, LowBits
<1>7. BitsOf(Dr7Type(bp.regnum, bp.access)) \subseteq 0 .. 16
  BY <1>3, LowBits
<1>8. BitsOf(Dr7Len(bp.regnum, 0)) \subseteq 0 .. 16
  BY <1>4, <1>5, LowBits
<1> QED
  BY <1>6, <1>7, <1>8 DEF BitsOfBp, Dr7Bits

LEMMA LowAccepted ==
    ASSUME NEW new, new \subseteq 0 .. 16
    PROVE  Acceptable(new)
<1>1. ASSUME NEW i \in Slots
      PROVE  ~OnIo(new, i) /\ OneByte(new, i)
  <2>1. i \in 0 .. 3
    BY DEF Slots
  <2>2. 17 + 4 * i \notin new /\ 18 + 4 * i \notin new
          /\ 19 + 4 * i \notin new
    BY <2>1
  <2> QED
    BY <2>2 DEF OnIo, OneByte
<1> QED
  BY <1>1 DEF Acceptable

-------------------------------------------------------------------------
(* The bits of a list's watchpoints, and what the moves do to them.       *)

Claimed(l) == UNION {BitsOfBp(l[i]) : i \in DOMAIN l}
Bytes(l) == \A i \in DOMAIN l : l[i].len = 0

LEMMA AppendClaimed ==
    ASSUME NEW l \in Seq(Hbp), NEW bp \in Hbp, NEW inc \in Int
    PROVE  LET m == BpAppend(l, bp, inc) IN
           /\ Claimed(m) = Claimed(l) \cup BitsOfBp(bp)
           /\ Bytes(l) /\ bp.len = 0 => Bytes(m)
<1> DEFINE m == BpAppend(l, bp, inc)
           n == Len(l) + 1
           new == WithId(bp, NextId(l, inc))
<1>1. NextId(l, inc) \in Int
  <2>1. \A i \in DOMAIN l : l[i] \in Hbp
    OBVIOUS
  <2>2. Numbered(l)
    BY <2>1 DEF Numbered, Hbp
  <2> QED
    BY <2>2, NextIdInt
<1>2. new \in Hbp
  BY <1>1, HbpNodes DEF Nodes
<1>3. /\ new.len = bp.len /\ new.regnum = bp.regnum
      /\ new.scope = bp.scope /\ new.access = bp.access
  BY DEF WithId, Hbp
<1>4. BitsOfBp(new) = BitsOfBp(bp)
  BY <1>3 DEF BitsOfBp
<1>5. /\ DOMAIN m = 1 .. n /\ m[n] = new
      /\ \A i \in 1 .. Len(l) : m[i] = l[i]
  BY <1>2, AppendShape
<1>6. DOMAIN m = DOMAIN l \cup {n} /\ \A i \in DOMAIN l : m[i] = l[i]
  <2>1. DOMAIN l = 1 .. Len(l) /\ Len(l) \in Nat
    OBVIOUS
  <2>2. 1 .. n = 1 .. Len(l) \cup {n}
    BY <2>1
  <2> QED
    BY <1>5, <2>1, <2>2
<1> HIDE DEF m, n, new
<1>7. Claimed(m) = Claimed(l) \cup BitsOfBp(bp)
  <2>1. \A b : b \in Claimed(m) <=>
               \E i \in DOMAIN l \cup {n} : b \in BitsOfBp(m[i])
    BY <1>6 DEF Claimed
  <2>2. \A b : b \in Claimed(l) <=> \E i \in DOMAIN l : b \in BitsOfBp(l[i])
    BY DEF Claimed
  <2>3. BitsOfBp(m[n]) = BitsOfBp(bp)
    BY <1>4, <1>5
  <2> QED
    BY <1>6, <2>1, <2>2, <2>3
<1>8. ASSUME Bytes(l), bp.len = 0 PROVE Bytes(m)
  BY <1>3, <1>5, <1>6, <1>8 DEF Bytes
<1> QED
  BY <1>7, <1>8 DEF m

LEMMA RemoveClaimed ==
    ASSUME NEW l \in Seq(Hbp), NEW k \in DOMAIN l
    PROVE  LET m == BpRemove(l, k) IN
           /\ Claimed(l) \ BitsOfBp(l[k]) \subseteq Claimed(m)
           /\ Bytes(l) => Bytes(m)
<1> DEFINE m == BpRemove(l, k)
<1>1. /\ DOMAIN m = 1 .. Len(l) - 1
      /\ \A i \in 1 .. Len(l) - 1 : m[i] = IF i < k THEN l[i] ELSE l[i + 1]
  BY RemoveShape
<1>2. Len(l) \in Nat /\ DOMAIN l = 1 .. Len(l) /\ k \in 1 .. Len(l)
  OBVIOUS
<1> HIDE DEF m
<1>3. \A i \in DOMAIN m : \E j \in DOMAIN l : m[i] = l[j]
  <2>1. \A i \in DOMAIN m : i \in DOMAIN l /\ i + 1 \in DOMAIN l
    BY <1>1, <1>2
  <2> QED
    BY <1>1, <2>1
<1>4. ASSUME NEW j \in DOMAIN l, j # k
      PROVE  \E i \in DOMAIN m : m[i] = l[j]
  <2>1. CASE j < k
    <3>1. j \in DOMAIN m /\ m[j] = l[j]
      BY <1>1, <1>2, <2>1
    <3> QED
      BY <3>1
  <2>2. CASE k < j
    <3>1. j - 1 \in DOMAIN m /\ ~(j - 1 < k) /\ (j - 1) + 1 = j
      BY <1>1, <1>2, <2>2
    <3>2. m[j - 1] = l[j]
      BY <1>1, <3>1
    <3> QED
      BY <3>1, <3>2
  <2> QED
    BY <1>2, <1>4, <2>1, <2>2
<1>5. Claimed(l) \ BitsOfBp(l[k]) \subseteq Claimed(m)
  <2> SUFFICES ASSUME NEW j \in DOMAIN l, NEW b \in BitsOfBp(l[j]),
                      b \notin BitsOfBp(l[k])
               PROVE  b \in Claimed(m)
    BY DEF Claimed
  <2>1. j # k
    OBVIOUS
  <2>2. PICK i \in DOMAIN m : m[i] = l[j]
    BY <1>4, <2>1
  <2> QED
    BY <2>2 DEF Claimed
<1>6. Bytes(l) => Bytes(m)
  BY <1>3 DEF Bytes
<1> QED
  BY <1>5, <1>6 DEF m

LEMMA ClaimedLow ==
    ASSUME NEW l \in Seq(Hbp), Bytes(l)
    PROVE  Claimed(l) \subseteq 0 .. 16
<1>1. \A i \in DOMAIN l : l[i] \in Hbp /\ l[i].len = 0
  BY DEF Bytes
<1>2. \A i \in DOMAIN l : BitsOfBp(l[i]) \subseteq 0 .. 16
  BY <1>1, ByteBits
<1> QED
  BY <1>2 DEF Claimed

-------------------------------------------------------------------------
(* The invariant: the lists hold one-byte watchpoints, and the bits of a  *)
(* live slave's DR7 belong to the enabled ones.                           *)

BytesGiven == \A arg \in WatchArgs : arg.len = 0

ByteLists == Bytes(e_hbp) /\ Bytes(d_hbp)

WatchInv ==
    BytesGiven => ByteLists /\ (~Dead => dr7 \subseteq Claimed(e_hbp))

LEMMA UnsetWatch ==
    ASSUME HardPart, ByteLists, dr7 \subseteq Claimed(e_hbp),
           NEW bp \in Hbp, Traceable, HbpUnset(bp)
    PROVE  dr7' \subseteq dr7 \ BitsOfBp(bp)
<1>1. dr7 \subseteq 0 .. 16
  BY ClaimedLow DEF HardPart, EnabledList, ByteLists
<1>2. Acceptable(dr7 \ BitsOfBp(bp))
  <2>1. dr7 \ BitsOfBp(bp) \subseteq 0 .. 16
    BY <1>1
  <2> QED
    BY <2>1, LowAccepted
<1> QED
  BY <1>2 DEF HbpUnset, UnsetDr7, Written

LEMMA SetWatch ==
    ASSUME NEW bp \in Hbp, HbpSet(bp)
    PROVE  dr7' \subseteq dr7 \cup BitsOfBp(bp)
  BY DEF HbpSet, SetDr7, Written

LEMMA DisableWatch ==
    ASSUME HardPart, ByteLists, dr7 \subseteq Claimed(e_hbp), Traceable,
           NEW i \in DOMAIN e_hbp, HbpDisable(i)
    PROVE  ByteLists' /\ dr7' \subseteq Claimed(e_hbp')
<1>1. e_hbp \in Seq(Hbp) /\ d_hbp \in Seq(Hbp)
  BY DEF HardPart, EnabledList, DisabledList
<1>2. e_hbp[i] \in Hbp /\ e_hbp[i].len = 0
  BY <1>1 DEF ByteLists, Bytes
<1>3. dr7' \subseteq dr7 \ BitsOfBp(e_hbp[i])
  BY <1>2, UnsetWatch DEF HbpDisable
<1>4. /\ Claimed(e_hbp) \ BitsOfBp(e_hbp[i]) \subseteq Claimed(e_hbp')
      /\ Bytes(e_hbp')
  <2>1. e_hbp' = BpRemove(e_hbp, i)
    BY DEF HbpDisable
  <2> QED
    BY <1>1, <2>1, RemoveClaimed DEF ByteLists
<1> DEFINE new == [e_hbp[i] EXCEPT !.current = TRUE]
<1>5. new \in Hbp /\ new.len = 0
  BY <1>2 DEF Hbp
<1>6. d_hbp' = BpAppend(d_hbp, new, -1) /\ -1 \in Int
  BY DEF HbpDisable
<1> HIDE DEF new
<1>7. Bytes(d_hbp')
  BY <1>1, <1>5, <1>6, AppendClaimed DEF ByteLists
<1> QED
  BY <1>3, <1>4, <1>7 DEF ByteLists

LEMMA RestoreWatch ==
    ASSUME HardPart, ByteLists, RestoreHbp
    PROVE  /\ ByteLists'
           /\ dr7 \subseteq Claimed(e_hbp) => dr7' \subseteq Claimed(e_hbp')
<1>1. CASE UNCHANGED hardBps
  BY <1>1 DEF hardBps, ByteLists
<1>2. CASE /\ d_hbp # << >> /\ HbpSet(d_hbp[1])
           /\ e_hbp' = BpAppend(e_hbp,
                          [d_hbp[1] EXCEPT !.current = FALSE], 1)
           /\ d_hbp' = BpRemove(d_hbp, 1)
  <2>1. e_hbp \in Seq(Hbp) /\ d_hbp \in Seq(Hbp)
    BY DEF HardPart, EnabledList, DisabledList
  <2>2. 1 \in DOMAIN d_hbp /\ d_hbp[1] \in Hbp
    BY <1>2, <2>1, HeadIndex
  <2>3. d_hbp[1].len = 0
    BY <2>2 DEF ByteLists, Bytes
  <2> DEFINE new == [d_hbp[1] EXCEPT !.current = FALSE]
  <2>4. new \in Hbp /\ new.len = 0
    BY <2>2, <2>3 DEF Hbp
  <2>5. BitsOfBp(new) = BitsOfBp(d_hbp[1])
    <3>1. /\ new.len = d_hbp[1].len /\ new.regnum = d_hbp[1].regnum
          /\ new.scope = d_hbp[1].scope /\ new.access = d_hbp[1].access
      BY <2>2 DEF Hbp
    <3> QED
      BY <3>1 DEF BitsOfBp
  <2>6. e_hbp' = BpAppend(e_hbp, new, 1)
    BY <1>2
  <2> HIDE DEF new
  <2>7. /\ Claimed(e_hbp') = Claimed(e_hbp) \cup BitsOfBp(new)
        /\ Bytes(e_hbp')
    BY <2>1, <2>4, <2>6, AppendClaimed DEF ByteLists
  <2>8. Bytes(d_hbp')
    BY <1>2, <2>1, <2>2, RemoveClaimed DEF ByteLists
  <2>9. dr7' \subseteq dr7 \cup BitsOfBp(d_hbp[1])
    BY <1>2, <2>2, SetWatch
  <2> QED
    BY <2>5, <2>7, <2>8, <2>9 DEF ByteLists
<1> QED
  BY <1>1, <1>2 DEF RestoreHbp

(* The actions.                                                           *)
LEMMA IdleKeepsWatch ==
    ASSUME WatchInv, UNCHANGED hardBps, Dead => Dead'
    PROVE  WatchInv'
  BY DEF WatchInv, hardBps, ByteLists, BytesGiven

LEMMA SbpRestoreKeepsWatch ==
    ASSUME ListInv, WatchInv, SbpRestore, Dead => Dead'
    PROVE  WatchInv'
<1> SUFFICES ASSUME BytesGiven
             PROVE  ByteLists' /\ (~Dead' => dr7' \subseteq Claimed(e_hbp'))
  BY DEF WatchInv, BytesGiven
<1>1. ByteLists /\ (~Dead => dr7 \subseteq Claimed(e_hbp))
  BY DEF WatchInv
<1> QED
  BY <1>1, RestoreWatch DEF ListInv, SbpRestore

LEMMA TakeBreakKeepsWatch ==
    ASSUME ListInv, WatchInv, TakeBreak
    PROVE  WatchInv'
<1> SUFFICES ASSUME BytesGiven
             PROVE  ByteLists' /\ (~Dead' => dr7' \subseteq Claimed(e_hbp'))
  BY DEF WatchInv, BytesGiven
<1>1. Traceable /\ ~Dead
  BY DEF TakeBreak, Traceable, Dead
<1>2. ByteLists /\ dr7 \subseteq Claimed(e_hbp)
  BY <1>1 DEF WatchInv
<1>3. CASE UNCHANGED hardBps
  BY <1>2, <1>3 DEF hardBps, ByteLists
<1>4. CASE \E i \in HbpHit : HbpDisable(i)
  BY <1>1, <1>2, <1>4, DisableWatch DEF ListInv, HbpHit, FirstAt
<1> QED
  BY <1>3, <1>4 DEF TakeBreak

LEMMA NewHbpKeepsWatch ==
    ASSUME ListInv, WatchInv, NEW arg \in WatchArgs, NewHbp(arg)
    PROVE  WatchInv'
<1> SUFFICES ASSUME BytesGiven
             PROVE  ByteLists' /\ dr7' \subseteq Claimed(e_hbp')
  BY DEF WatchInv, BytesGiven
<1>1. PICK r \in FreeSlot(e_hbp) :
        LET bp == [addr |-> arg.addr, access |-> arg.access,
                   len |-> arg.len, scope |-> arg.scope, regnum |-> r,
                   current |-> FALSE, id |-> 0]
        IN  HbpSet(bp) /\ e_hbp' = BpAppend(e_hbp, bp, 1)
  BY DEF NewHbp
<1> DEFINE bp == [addr |-> arg.addr, access |-> arg.access,
                  len |-> arg.len, scope |-> arg.scope, regnum |-> r,
                  current |-> FALSE, id |-> 0]
<1>2. bp \in Hbp /\ bp.len = 0
  BY CommandAssumption DEF Hbp, Addr, FreeSlot, BytesGiven
<1>3. ByteLists /\ dr7 \subseteq Claimed(e_hbp)
  BY DEF NewHbp, WatchInv, Dead
<1>4. e_hbp \in Seq(Hbp)
  BY DEF ListInv, HardPart, EnabledList
<1>5. HbpSet(bp) /\ e_hbp' = BpAppend(e_hbp, bp, 1)
  BY <1>1
<1> HIDE DEF bp
<1>6. /\ Claimed(e_hbp') = Claimed(e_hbp) \cup BitsOfBp(bp)
      /\ Bytes(e_hbp')
  BY <1>2, <1>3, <1>4, <1>5, AppendClaimed DEF ByteLists
<1>7. dr7' \subseteq dr7 \cup BitsOfBp(bp)
  BY <1>2, <1>5, SetWatch
<1>8. UNCHANGED d_hbp
  BY DEF NewHbp
<1> QED
  BY <1>3, <1>6, <1>7, <1>8 DEF ByteLists

LEMMA DeleteHbpKeepsWatch ==
    ASSUME ListInv, TextInv, WatchInv, NEW id, DeleteHbp(id)
    PROVE  WatchInv'
<1> SUFFICES ASSUME BytesGiven
             PROVE  ByteLists' /\ (~Dead' => dr7' \subseteq Claimed(e_hbp'))
  BY DEF WatchInv, BytesGiven
<1> DEFINE l == IF id < 0 THEN d_hbp ELSE e_hbp
<1>1. PICK i \in BpById(l, id) :
        /\ HbpUnset(l[i])
        /\ IF id < 0 THEN d_hbp' = BpRemove(d_hbp, i) /\ UNCHANGED e_hbp
           ELSE e_hbp' = BpRemove(e_hbp, i) /\ UNCHANGED d_hbp
  BY DEF DeleteHbp
<1>2. i \in DOMAIN l
  BY DEF BpById
<1>3. e_hbp \in Seq(Hbp) /\ d_hbp \in Seq(Hbp)
  BY DEF ListInv, HardPart, EnabledList, DisabledList
<1>4. l[i] \in Hbp
  BY <1>2, <1>3
<1>5. ByteLists /\ (~Dead => dr7 \subseteq Claimed(e_hbp))
  BY DEF WatchInv
<1>6. ~Dead' => Traceable /\ ~Dead
  BY DEF DeleteHbp, process, AtShell, TextInv, Dead, Traceable
<1>7. ~Dead' => dr7' \subseteq dr7 \ BitsOfBp(l[i])
  BY <1>1, <1>4, <1>5, <1>6, UnsetWatch DEF ListInv
<1>8. CASE id < 0
  <2>1. Bytes(d_hbp') /\ UNCHANGED e_hbp
    BY <1>1, <1>2, <1>3, <1>5, <1>8, RemoveClaimed DEF ByteLists
  <2> QED
    BY <1>5, <1>6, <1>7, <2>1 DEF ByteLists
<1>9. CASE ~(id < 0)
  <2>1. i \in DOMAIN e_hbp /\ l[i] = e_hbp[i]
          /\ e_hbp' = BpRemove(e_hbp, i) /\ UNCHANGED d_hbp
    BY <1>1, <1>2, <1>9
  <2>2. /\ Claimed(e_hbp) \ BitsOfBp(l[i]) \subseteq Claimed(e_hbp')
        /\ Bytes(e_hbp')
    BY <1>3, <1>5, <2>1, RemoveClaimed DEF ByteLists
  <2> QED
    BY <1>5, <1>6, <1>7, <2>1, <2>2 DEF ByteLists
<1> QED
  BY <1>8, <1>9

LEMMA SlaveStepKeepsWatch ==
    ASSUME WatchInv, SlaveStep
    PROVE  WatchInv'
<1>1. Dead => Dead'
  BY DEF SlaveStep, ExecTrap, Execute, Derail, ExecInt3, HwTrap,
         ExitSlave, Signalled, Killed, Dead, AfterInstr
<1>2. UNCHANGED hardBps
  BY DEF SlaveStep, hardBps
<1> QED
  BY <1>1, <1>2, IdleKeepsWatch

LEMMA CommandKeepsWatch ==
    ASSUME ListInv, TextInv, WatchInv, Command
    PROVE  WatchInv'
<1>1. CASE StartSlave
  BY <1>1, IdleKeepsWatch DEF StartSlave, hardBps, Dead
<1>2. CASE Step
  BY <1>2, IdleKeepsWatch DEF Step, hardBps, Dead
<1>3. CASE BlindCont
  BY <1>3, IdleKeepsWatch DEF BlindCont, hardBps, Dead
<1>4. CASE ResumeDead
  <2>1. Dead'
    BY <1>4 DEF ResumeDead, Dead
  <2>2. CASE SbpRestore
    BY <2>1, <2>2, SbpRestoreKeepsWatch
  <2>3. CASE UNCHANGED hardBps
    BY <2>1, <2>3, IdleKeepsWatch
  <2> QED
    BY <1>4, <2>2, <2>3 DEF ResumeDead
<1>5. CASE TakeBreak
  BY <1>5, TakeBreakKeepsWatch
<1>6. CASE TakeTrap
  BY <1>6, SbpRestoreKeepsWatch DEF TakeTrap, Dead
<1>7. CASE TakeSignal
  BY <1>7, SbpRestoreKeepsWatch DEF TakeSignal, Dead
<1>8. CASE TakeDeath
  BY <1>8, SbpRestoreKeepsWatch DEF TakeDeath, Dead
<1>9. CASE TakeArm
  BY <1>9, SbpRestoreKeepsWatch DEF TakeArm, Dead
<1>10. CASE TakeArmDeath
  BY <1>10, IdleKeepsWatch DEF TakeArmDeath, Dead
<1>11. CASE \E a \in BreakAddrs : NewSbp(a)
  BY <1>11, IdleKeepsWatch DEF NewSbp, process, Dead
<1>12. CASE \E id \in Ids(e_sbp) \cup Ids(d_sbp) : DeleteSbp(id)
  BY <1>12, IdleKeepsWatch DEF DeleteSbp, Dead
<1>13. CASE \E arg \in WatchArgs : NewHbp(arg)
  BY <1>13, NewHbpKeepsWatch
<1>14. CASE \E id \in Ids(e_hbp) \cup Ids(d_hbp) : DeleteHbp(id)
  BY <1>14, DeleteHbpKeepsWatch
<1>15. CASE Quit
  BY <1>15, IdleKeepsWatch DEF Quit, process, Dead
<1> QED
  BY <1>1, <1>2, <1>3, <1>4, <1>5, <1>6, <1>7, <1>8, <1>9, <1>10, <1>11,
     <1>12, <1>13, <1>14, <1>15 DEF Command

LEMMA NextKeepsWatch ==
    ListInv /\ TextInv /\ WatchInv /\ [Next]_vars => WatchInv'
<1> SUFFICES ASSUME ListInv, TextInv, WatchInv, [Next]_vars PROVE WatchInv'
  OBVIOUS
<1>1. CASE SlaveStep
  BY <1>1, SlaveStepKeepsWatch
<1>2. CASE Command
  BY <1>2, CommandKeepsWatch
<1>3. CASE UNCHANGED vars
  BY <1>3, IdleKeepsWatch DEF vars, hardBps, Dead
<1> QED
  BY <1>1, <1>2, <1>3 DEF Next

(* With one-byte watchpoints, however they are set, hit, restored and     *)
(* deleted and whoever owns which register, hbp_set and hbp_unset leave   *)
(* no bit in a live slave's DR7 that no enabled watchpoint asks for.      *)
THEOREM WatchesOwned == Spec => []BitsAreWanted
<1>1. WatchInv => BitsAreWanted
  BY DEF WatchInv, BitsAreWanted, Claimed, BytesGiven, Dead
<1>2. Init => WatchInv
  BY DEF Init, WatchInv, ByteLists, Bytes
<1>3. Spec => []TextInv
  BY ListInvariance, TextInvInit, NextKeepsText, PTL DEF Spec
<1>4. Spec => []WatchInv
  BY <1>2, <1>3, ListInvariance, NextKeepsWatch, PTL DEF Spec
<1> QED
  BY <1>1, <1>4, PTL
=========================================================================
