-------------------------- MODULE TracerProofs --------------------------
(* Proofs about Tracer for every program, every set of command arguments  *)
(* and every bound.                                                       *)
EXTENDS Tracer, TLAPS

-------------------------------------------------------------------------
(* The list operators of BpList.                                          *)

(* Append leaves the list as it was in front of one renumbered node.      *)
LEMMA AppendShape ==
    ASSUME NEW S, NEW l \in Seq(S), NEW bp, NEW inc \in Int,
           WithId(bp, NextId(l, inc)) \in S
    PROVE  /\ BpAppend(l, bp, inc) \in Seq(S)
           /\ Len(BpAppend(l, bp, inc)) = Len(l) + 1
           /\ DOMAIN BpAppend(l, bp, inc) = 1 .. Len(l) + 1
           /\ \A i \in 1 .. Len(l) : BpAppend(l, bp, inc)[i] = l[i]
           /\ BpAppend(l, bp, inc)[Len(l) + 1]
                = WithId(bp, NextId(l, inc))
<1> DEFINE e == WithId(bp, NextId(l, inc))
<1>1. BpAppend(l, bp, inc) = Append(l, e)
  BY DEF BpAppend
<1>2. e \in S
  OBVIOUS
<1> HIDE DEF e
<1>3. /\ Append(l, e) \in Seq(S) /\ Len(Append(l, e)) = Len(l) + 1
      /\ \A i \in 1 .. Len(l) : Append(l, e)[i] = l[i]
      /\ Append(l, e)[Len(l) + 1] = e
  BY <1>2
<1>4. DOMAIN Append(l, e) = 1 .. Len(l) + 1
  BY <1>3
<1> QED
  BY <1>1, <1>3, <1>4 DEF e

(* Remove takes one node out and shifts the ones behind it.               *)
LEMMA RemoveShape ==
    ASSUME NEW S, NEW l \in Seq(S), NEW k \in DOMAIN l
    PROVE  /\ BpRemove(l, k) \in Seq(S)
           /\ Len(BpRemove(l, k)) = Len(l) - 1
           /\ DOMAIN BpRemove(l, k) = 1 .. Len(l) - 1
           /\ \A i \in 1 .. Len(l) - 1 :
                BpRemove(l, k)[i] = IF i < k THEN l[i] ELSE l[i + 1]
<1>1. Len(l) \in Nat /\ DOMAIN l = 1 .. Len(l) /\ k \in 1 .. Len(l)
  OBVIOUS
<1>2. Len(l) - 1 \in Nat
  BY <1>1
<1>3. \A i \in 1 .. Len(l) - 1 : (IF i < k THEN l[i] ELSE l[i + 1]) \in S
  BY <1>1
<1>4. BpRemove(l, k) \in [1 .. Len(l) - 1 -> S]
  BY <1>3 DEF BpRemove
<1>5. BpRemove(l, k) \in Seq(S)
  BY <1>2, <1>4
<1>6. DOMAIN BpRemove(l, k) = 1 .. Len(l) - 1
  BY DEF BpRemove
<1>7. Len(BpRemove(l, k)) = Len(l) - 1
  BY <1>2, <1>4, <1>5
<1> QED
  BY <1>5, <1>6, <1>7 DEF BpRemove

(* The first node of a non-empty list is there to be removed.             *)
LEMMA HeadIndex ==
    ASSUME NEW S, NEW l \in Seq(S), l # << >>
    PROVE  1 \in DOMAIN l /\ l[1] \in S
  OBVIOUS

(* Nodes are numbered by whole numbers.                                   *)
Numbered(l) == \A i \in DOMAIN l : l[i].id \in Int

LEMMA NextIdInt ==
    ASSUME NEW S, NEW l \in Seq(S), Numbered(l), NEW inc \in Int
    PROVE  NextId(l, inc) \in Int
<1>1. CASE l = << >>
  BY <1>1 DEF NextId
<1>2. CASE l # << >>
  <2>1. Len(l) \in DOMAIN l
    BY <1>2
  <2> QED
    BY <1>2, <2>1 DEF NextId, Numbered
<1> QED
  BY <1>1, <1>2

(* Appending with 1 keeps an rising list rising.                  *)
LEMMA AppendRising ==
    ASSUME NEW S, NEW l \in Seq(S), Numbered(l), Rising(l), NEW bp,
           WithId(bp, NextId(l, 1)) \in S,
           WithId(bp, NextId(l, 1)).id = NextId(l, 1)
    PROVE  Rising(BpAppend(l, bp, 1))
<1> DEFINE m == BpAppend(l, bp, 1)
<1>1. /\ DOMAIN m = 1 .. Len(l) + 1
      /\ \A i \in 1 .. Len(l) : m[i] = l[i]
      /\ m[Len(l) + 1] = WithId(bp, NextId(l, 1))
  BY AppendShape
<1>2. m[Len(l) + 1].id = NextId(l, 1)
  BY <1>1
<1>3. Len(l) \in Nat /\ DOMAIN l = 1 .. Len(l)
  OBVIOUS
<1>4. NextId(l, 1) \in Int /\ 0 < NextId(l, 1)
  <2>1. CASE l = << >>
    BY <2>1 DEF NextId
  <2>2. CASE l # << >>
    <3>1. Len(l) \in DOMAIN l
      BY <2>2
    <3> QED
      BY <2>2, <3>1 DEF NextId, Numbered, Rising
  <2> QED
    BY <2>1, <2>2
<1>5. \A i \in 1 .. Len(l) : l[i].id < NextId(l, 1)
  <2> TAKE i \in 1 .. Len(l)
  <2>1. l # << >> /\ Len(l) \in DOMAIN l /\ i \in DOMAIN l
    BY <1>3
  <2>2. l[i].id \in Int /\ l[Len(l)].id \in Int
    BY <2>1 DEF Numbered
  <2>3. i < Len(l) => l[i].id < l[Len(l)].id
    BY <2>1 DEF Rising
  <2>4. i = Len(l) \/ i < Len(l)
    <3>1. i \in Int /\ Len(l) \in Int /\ i <= Len(l)
      BY <1>3
    <3> QED
      BY <3>1
  <2> QED
    BY <2>1, <2>2, <2>3, <2>4 DEF NextId
<1> HIDE DEF m
<1>6. \A i, j \in DOMAIN m : 0 < m[i].id /\ (i < j => m[i].id < m[j].id)
  <2> TAKE i, j \in DOMAIN m
  <2>1. 0 < m[i].id
    BY <1>1, <1>2, <1>3, <1>4 DEF Rising
  <2>2. ASSUME i < j PROVE m[i].id < m[j].id
    <3>1. i \in 1 .. Len(l) /\ m[i] = l[i]
      BY <1>1, <1>3, <2>2
    <3>2. CASE j = Len(l) + 1
      BY <1>2, <1>5, <3>1, <3>2
    <3>3. CASE j \in 1 .. Len(l)
      BY <1>1, <1>3, <2>2, <3>1, <3>3 DEF Rising
    <3> QED
      BY <1>1, <1>3, <3>2, <3>3
  <2> QED
    BY <2>1, <2>2
<1> QED
  BY <1>6 DEF Rising, m

(* Appending with -1 keeps a falling list falling.                 *)
LEMMA AppendFalling ==
    ASSUME NEW S, NEW l \in Seq(S), Numbered(l), Falling(l), NEW bp,
           WithId(bp, NextId(l, -1)) \in S,
           WithId(bp, NextId(l, -1)).id = NextId(l, -1)
    PROVE  Falling(BpAppend(l, bp, -1))
<1> DEFINE m == BpAppend(l, bp, -1)
<1>1. /\ DOMAIN m = 1 .. Len(l) + 1
      /\ \A i \in 1 .. Len(l) : m[i] = l[i]
      /\ m[Len(l) + 1] = WithId(bp, NextId(l, -1))
  BY AppendShape
<1>2. m[Len(l) + 1].id = NextId(l, -1)
  BY <1>1
<1>3. Len(l) \in Nat /\ DOMAIN l = 1 .. Len(l)
  OBVIOUS
<1>4. NextId(l, -1) \in Int /\ NextId(l, -1) < 0
  <2>1. CASE l = << >>
    BY <2>1 DEF NextId
  <2>2. CASE l # << >>
    <3>1. Len(l) \in DOMAIN l
      BY <2>2
    <3> QED
      BY <2>2, <3>1 DEF NextId, Numbered, Falling
  <2> QED
    BY <2>1, <2>2
<1>5. \A i \in 1 .. Len(l) : NextId(l, -1) < l[i].id
  <2> TAKE i \in 1 .. Len(l)
  <2>1. l # << >> /\ Len(l) \in DOMAIN l /\ i \in DOMAIN l
    BY <1>3
  <2>2. l[i].id \in Int /\ l[Len(l)].id \in Int
    BY <2>1 DEF Numbered
  <2>3. i < Len(l) => l[Len(l)].id < l[i].id
    BY <2>1 DEF Falling
  <2>4. i = Len(l) \/ i < Len(l)
    <3>1. i \in Int /\ Len(l) \in Int /\ i <= Len(l)
      BY <1>3
    <3> QED
      BY <3>1
  <2> QED
    BY <2>1, <2>2, <2>3, <2>4 DEF NextId
<1> HIDE DEF m
<1>6. \A i, j \in DOMAIN m : m[i].id < 0 /\ (i < j => m[j].id < m[i].id)
  <2> TAKE i, j \in DOMAIN m
  <2>1. m[i].id < 0
    BY <1>1, <1>2, <1>3, <1>4 DEF Falling
  <2>2. ASSUME i < j PROVE m[j].id < m[i].id
    <3>1. i \in 1 .. Len(l) /\ m[i] = l[i]
      BY <1>1, <1>3, <2>2
    <3>2. CASE j = Len(l) + 1
      BY <1>2, <1>5, <3>1, <3>2
    <3>3. CASE j \in 1 .. Len(l)
      BY <1>1, <1>3, <2>2, <3>1, <3>3 DEF Falling
    <3> QED
      BY <1>1, <1>3, <3>2, <3>3
  <2> QED
    BY <2>1, <2>2
<1> QED
  BY <1>6 DEF Falling, m

(* Removing a node keeps either order, and the numbering.                 *)
LEMMA RemoveKeepsOrder ==
    ASSUME NEW S, NEW l \in Seq(S), NEW k \in DOMAIN l
    PROVE  /\ Rising(l) => Rising(BpRemove(l, k))
           /\ Falling(l) => Falling(BpRemove(l, k))
<1> DEFINE m == BpRemove(l, k)
           was(i) == IF i < k THEN i ELSE i + 1
<1>1. /\ DOMAIN m = 1 .. Len(l) - 1
      /\ \A i \in 1 .. Len(l) - 1 : m[i] = IF i < k THEN l[i] ELSE l[i + 1]
  BY RemoveShape
<1>2. Len(l) \in Nat /\ DOMAIN l = 1 .. Len(l) /\ k \in Int
  OBVIOUS
<1> HIDE DEF m
<1>3. \A i \in DOMAIN m : was(i) \in DOMAIN l /\ m[i] = l[was(i)]
  BY <1>1, <1>2
<1>4. \A i, j \in DOMAIN m : i < j => was(i) < was(j)
  BY <1>1, <1>2
<1> HIDE DEF was
<1>5. Rising(l) => Rising(m)
  BY <1>3, <1>4 DEF Rising
<1>6. Falling(l) => Falling(m)
  BY <1>3, <1>4 DEF Falling
<1> QED
  BY <1>5, <1>6 DEF m

-----------------------------------------------------------------------
(* Records that renumbering keeps what they are.                          *)
Nodes(S) ==
    \A bp \in S :
        /\ bp.id \in Int
        /\ \A n \in Int :
            /\ WithId(bp, n) \in S
            /\ WithId(bp, n).id = n
            /\ WithId(bp, n).current = bp.current

(* The invariant of an enabled and of a disabled list.                    *)
EnabledList(S, l) ==
    l \in Seq(S) /\ Rising(l) /\ \A i \in DOMAIN l : ~l[i].current
DisabledList(S, l) ==
    l \in Seq(S) /\ Falling(l) /\ \A i \in DOMAIN l : l[i].current

(* Appending to an enabled list a node with a clear flag.                 *)
LEMMA AppendEnabled ==
    ASSUME NEW S, Nodes(S), NEW l, EnabledList(S, l), NEW bp \in S, ~bp.current
    PROVE  EnabledList(S, BpAppend(l, bp, 1))
<1>1. l \in Seq(S) /\ Numbered(l) /\ Rising(l)
  <2>1. l \in Seq(S) /\ Rising(l)
    BY DEF EnabledList
  <2>2. \A i \in DOMAIN l : l[i] \in S
    BY <2>1
  <2>3. \A i \in DOMAIN l : l[i].id \in Int
    BY <2>2 DEF Nodes
  <2> QED
    BY <2>1, <2>3 DEF Numbered
<1>2. NextId(l, 1) \in Int
  BY <1>1, NextIdInt
<1>3. /\ WithId(bp, NextId(l, 1)) \in S
      /\ WithId(bp, NextId(l, 1)).id = NextId(l, 1)
      /\ ~WithId(bp, NextId(l, 1)).current
  BY <1>2 DEF Nodes
<1>4. Rising(BpAppend(l, bp, 1))
  BY <1>1, <1>3, AppendRising
<1>5. /\ BpAppend(l, bp, 1) \in Seq(S)
      /\ DOMAIN BpAppend(l, bp, 1) = 1 .. Len(l) + 1
      /\ \A i \in 1 .. Len(l) : BpAppend(l, bp, 1)[i] = l[i]
      /\ BpAppend(l, bp, 1)[Len(l) + 1] = WithId(bp, NextId(l, 1))
  BY <1>1, <1>3, AppendShape
<1>6. \A i \in DOMAIN l : ~l[i].current
  BY DEF EnabledList
<1>7. \A i \in 1 .. Len(l) + 1 : i \in DOMAIN l \/ i = Len(l) + 1
  BY <1>1
<1> QED
  BY <1>1, <1>3, <1>4, <1>5, <1>6, <1>7 DEF EnabledList

(* Appending to a disabled list a node with its flag set.                 *)
LEMMA AppendDisabled ==
    ASSUME NEW S, Nodes(S), NEW l, DisabledList(S, l), NEW bp \in S, bp.current
    PROVE  DisabledList(S, BpAppend(l, bp, -1))
<1>1. l \in Seq(S) /\ Numbered(l) /\ Falling(l)
  <2>1. l \in Seq(S) /\ Falling(l)
    BY DEF DisabledList
  <2>2. \A i \in DOMAIN l : l[i] \in S
    BY <2>1
  <2>3. \A i \in DOMAIN l : l[i].id \in Int
    BY <2>2 DEF Nodes
  <2> QED
    BY <2>1, <2>3 DEF Numbered
<1>2. NextId(l, -1) \in Int
  BY <1>1, NextIdInt
<1>3. /\ WithId(bp, NextId(l, -1)) \in S
      /\ WithId(bp, NextId(l, -1)).id = NextId(l, -1)
      /\ WithId(bp, NextId(l, -1)).current
  BY <1>2 DEF Nodes
<1>4. Falling(BpAppend(l, bp, -1))
  BY <1>1, <1>3, AppendFalling
<1>5. /\ BpAppend(l, bp, -1) \in Seq(S)
      /\ DOMAIN BpAppend(l, bp, -1) = 1 .. Len(l) + 1
      /\ \A i \in 1 .. Len(l) : BpAppend(l, bp, -1)[i] = l[i]
      /\ BpAppend(l, bp, -1)[Len(l) + 1] = WithId(bp, NextId(l, -1))
  BY <1>1, <1>3, AppendShape
<1>6. \A i \in DOMAIN l : l[i].current
  BY DEF DisabledList
<1>7. \A i \in 1 .. Len(l) + 1 : i \in DOMAIN l \/ i = Len(l) + 1
  BY <1>1
<1> QED
  BY <1>1, <1>3, <1>4, <1>5, <1>6, <1>7 DEF DisabledList

(* Removing a node of either list.                                        *)
LEMMA RemoveNode ==
    ASSUME NEW S, Nodes(S), NEW l, NEW k \in DOMAIN l
    PROVE  /\ EnabledList(S, l) => EnabledList(S, BpRemove(l, k))
           /\ DisabledList(S, l) => DisabledList(S, BpRemove(l, k))
<1>1. ASSUME l \in Seq(S)
      PROVE  /\ BpRemove(l, k) \in Seq(S)
             /\ \A i \in DOMAIN BpRemove(l, k) :
                    \E j \in DOMAIN l : BpRemove(l, k)[i] = l[j]
  <2>1. /\ BpRemove(l, k) \in Seq(S)
        /\ DOMAIN BpRemove(l, k) = 1 .. Len(l) - 1
        /\ \A i \in 1 .. Len(l) - 1 :
             BpRemove(l, k)[i] = IF i < k THEN l[i] ELSE l[i + 1]
    BY <1>1, RemoveShape
  <2>2. \A i \in 1 .. Len(l) - 1 : i \in DOMAIN l /\ i + 1 \in DOMAIN l
    BY <1>1
  <2> QED
    BY <2>1, <2>2
<1> QED
  BY <1>1, RemoveKeepsOrder DEF EnabledList, DisabledList

-------------------------------------------------------------------------
(* Types.                                                                 *)

(* The inductive invariant has one part per group of variables that the   *)
(* handlers change together.                                              *)
ProcessPart ==
    /\ slave \in SlaveStates /\ cmd \in Commands
    /\ rip \in Addr /\ due \in Instr /\ regs \in Addr
    /\ pid \in BOOLEAN
    /\ taint \subseteq {"overlap", "moved", "blind"}

SoftPart ==
    int3 \subseteq Text /\ EnabledList(Sbp, e_sbp) /\ DisabledList(Sbp, d_sbp)

HardPart ==
    /\ dr \in [Slots -> Addr] /\ dr7 \subseteq 0 .. 31
    /\ EnabledList(Hbp, e_hbp) /\ DisabledList(Hbp, d_hbp)

ListInv == ProcessPart /\ SoftPart /\ HardPart

-------------------------------------------------------------------------
(* Renumbering a node keeps its type and its flag.                        *)
LEMMA SbpNodes == Nodes(Sbp)
  BY DEF Nodes, WithId, Sbp

LEMMA HbpNodes == Nodes(Hbp)
  BY DEF Nodes, WithId, Hbp

-------------------------------------------------------------------------
(* What the handlers do to the soft breakpoints.                          *)

LEMMA EnableKeepsSoft ==
    ASSUME SoftPart, NEW bp \in Sbp, SbpEnable(bp)
    PROVE  int3' \subseteq Text /\ EnabledList(Sbp, e_sbp')
<1> DEFINE saved == IF Patchable(bp.addr) THEN int3 \cap Word(bp.addr)
                    ELSE {}
           new == [bp EXCEPT !.saved = saved, !.current = FALSE]
<1>1. new \in Sbp /\ ~new.current
  BY DEF SoftPart, Sbp
<1>2. e_sbp' = BpAppend(e_sbp, new, 1)
  BY DEF SbpEnable
<1>3. int3' \subseteq Text
  BY WordAssumption DEF SbpEnable, SoftPart, Patchable, Word, Sbp, Addr
<1> QED
  BY <1>1, <1>2, <1>3, AppendEnabled, SbpNodes DEF SoftPart

LEMMA UnsetKeepsText ==
    ASSUME SoftPart, NEW bp \in Sbp, SbpUnset(bp), rip \in Addr
    PROVE  int3' \subseteq Text /\ rip' \in Addr /\ regs' \in Addr
  BY DEF SbpUnset, SoftPart, Sbp

LEMMA DisableKeepsSoft ==
    ASSUME SoftPart, NEW i \in DOMAIN e_sbp, SbpDisable(i), rip \in Addr
    PROVE  SoftPart' /\ rip' \in Addr /\ regs' \in Addr
<1>1. e_sbp[i] \in Sbp
  BY DEF SoftPart, EnabledList
<1>2. SbpUnset(e_sbp[i])
  BY DEF SbpDisable
<1>3. int3' \subseteq Text /\ rip' \in Addr /\ regs' \in Addr
  BY <1>1, <1>2, UnsetKeepsText
<1>4. EnabledList(Sbp, e_sbp')
  BY RemoveNode, SbpNodes DEF SbpDisable, SoftPart
<1> DEFINE new == [e_sbp[i] EXCEPT !.current = TRUE]
<1>5. new \in Sbp /\ new.current
  BY <1>1 DEF Sbp
<1>6. d_sbp' = BpAppend(d_sbp, new, -1)
  BY DEF SbpDisable
<1>7. DisabledList(Sbp, d_sbp')
  BY <1>5, <1>6, AppendDisabled, SbpNodes DEF SoftPart
<1> QED
  BY <1>3, <1>4, <1>7 DEF SoftPart

LEMMA RestoreKeepsSoft ==
    ASSUME SoftPart, RestoreSbp
    PROVE  SoftPart'
<1>1. CASE UNCHANGED softBps
  BY <1>1 DEF SoftPart, softBps
<1>2. CASE /\ d_sbp # << >> /\ SbpEnable(d_sbp[1])
           /\ d_sbp' = BpRemove(d_sbp, 1)
  <2>1. 1 \in DOMAIN d_sbp /\ d_sbp[1] \in Sbp
    BY <1>2, HeadIndex DEF SoftPart, DisabledList
  <2>2. int3' \subseteq Text /\ EnabledList(Sbp, e_sbp')
    BY <1>2, <2>1, EnableKeepsSoft
  <2>3. DisabledList(Sbp, d_sbp')
    BY <1>2, <2>1, RemoveNode, SbpNodes DEF SoftPart
  <2> QED
    BY <2>2, <2>3 DEF SoftPart
<1> QED
  BY <1>1, <1>2 DEF RestoreSbp

-------------------------------------------------------------------------
(* What the handlers do to the watchpoints.                               *)

LEMMA Dr7Stays ==
    ASSUME NEW dr7a, dr7a \subseteq 0 .. 31, NEW bp
    PROVE  /\ SetDr7(dr7a, bp) \subseteq 0 .. 31
           /\ UnsetDr7(dr7a, bp) \subseteq 0 .. 31
<1>1. BitsOfBp(bp) \subseteq 0 .. 31
  <2>1. \A n : BitsOf(n) \subseteq 0 .. 31
    BY DEF BitsOf
  <2> QED
    BY <2>1 DEF BitsOfBp, Dr7Bits
<1> QED
  BY <1>1 DEF SetDr7, UnsetDr7, Written

LEMMA SetKeepsRegs ==
    ASSUME HardPart, NEW bp \in Hbp, HbpSet(bp) \/ HbpUnset(bp)
    PROVE  dr' \in [Slots -> Addr] /\ dr7' \subseteq 0 .. 31
<1>1. dr7' \subseteq 0 .. 31
  <2>1. dr7 \subseteq 0 .. 31
    BY DEF HardPart
  <2>2. dr7' = dr7 \/ dr7' = SetDr7(dr7, bp) \/ dr7' = UnsetDr7(dr7, bp)
    BY DEF HbpSet, HbpUnset
  <2> QED
    BY <2>1, <2>2, Dr7Stays
<1>2. dr' \in [Slots -> Addr]
  BY DEF HbpSet, HbpUnset, HardPart, Hbp
<1> QED
  BY <1>1, <1>2

LEMMA DisableKeepsHard ==
    ASSUME HardPart, NEW i \in DOMAIN e_hbp, HbpDisable(i)
    PROVE  HardPart'
<1>1. e_hbp[i] \in Hbp
  BY DEF HardPart, EnabledList
<1>2. HbpUnset(e_hbp[i])
  BY DEF HbpDisable
<1>3. dr' \in [Slots -> Addr] /\ dr7' \subseteq 0 .. 31
  BY <1>1, <1>2, SetKeepsRegs
<1>4. EnabledList(Hbp, e_hbp')
  BY RemoveNode, HbpNodes DEF HbpDisable, HardPart
<1> DEFINE new == [e_hbp[i] EXCEPT !.current = TRUE]
<1>5. new \in Hbp /\ new.current
  BY <1>1 DEF Hbp
<1>6. d_hbp' = BpAppend(d_hbp, new, -1)
  BY DEF HbpDisable
<1>7. DisabledList(Hbp, d_hbp')
  BY <1>5, <1>6, AppendDisabled, HbpNodes DEF HardPart
<1> QED
  BY <1>3, <1>4, <1>7 DEF HardPart

LEMMA RestoreKeepsHard ==
    ASSUME HardPart, RestoreHbp
    PROVE  HardPart'
<1>1. CASE UNCHANGED hardBps
  BY <1>1 DEF HardPart, hardBps
<1>2. CASE /\ d_hbp # << >> /\ HbpSet(d_hbp[1])
           /\ e_hbp' = BpAppend(e_hbp,
                          [d_hbp[1] EXCEPT !.current = FALSE], 1)
           /\ d_hbp' = BpRemove(d_hbp, 1)
  <2>1. 1 \in DOMAIN d_hbp /\ d_hbp[1] \in Hbp
    BY <1>2, HeadIndex DEF HardPart, DisabledList
  <2>2. dr' \in [Slots -> Addr] /\ dr7' \subseteq 0 .. 31
    BY <1>2, <2>1, SetKeepsRegs
  <2> DEFINE new == [d_hbp[1] EXCEPT !.current = FALSE]
  <2>3. new \in Hbp /\ ~new.current
    BY <2>1 DEF Hbp
  <2>4. EnabledList(Hbp, e_hbp')
    BY <1>2, <2>3, AppendEnabled, HbpNodes DEF HardPart
  <2>5. DisabledList(Hbp, d_hbp')
    BY <1>2, <2>1, RemoveNode, HbpNodes DEF HardPart
  <2> QED
    BY <2>2, <2>4, <2>5 DEF HardPart
<1> QED
  BY <1>1, <1>2 DEF RestoreHbp

-------------------------------------------------------------------------
(* The invariant holds initially and every action keeps it.               *)

LEMMA ListInvInit == Init => ListInv
<1> SUFFICES ASSUME Init PROVE ListInv
  OBVIOUS
<1>1. ProcessPart
  BY ProgramAssumption
  DEF Init, ProcessPart, SlaveStates, Commands, Addr
<1>2. SoftPart
  BY DEF Init, SoftPart, EnabledList, DisabledList, Rising, Falling
<1>3. HardPart
  BY DEF Init, HardPart, EnabledList, DisabledList, Rising, Falling,
         Slots, Addr
<1> QED
  BY <1>1, <1>2, <1>3 DEF ListInv

LEMMA SlaveStepKeepsListInv ==
    ASSUME ListInv, SlaveStep
    PROVE  ListInv'
<1>1. SoftPart' /\ HardPart'
  BY DEF SlaveStep, ListInv, SoftPart, HardPart
<1>2. slave' \in SlaveStates /\ rip' \in Addr /\ due' \in Instr
  <2> USE ProgramAssumption
      DEF ListInv, ProcessPart, SlaveStates, Addr, AfterInstr
  <2>1. CASE ExecTrap    BY <2>1 DEF ExecTrap
  <2>2. CASE Execute     BY <2>2 DEF Execute
  <2>3. CASE Derail      BY <2>3 DEF Derail
  <2>4. CASE ExecInt3    BY <2>4 DEF ExecInt3
  <2>5. CASE HwTrap      BY <2>5 DEF HwTrap
  <2>6. CASE ExitSlave   BY <2>6 DEF ExitSlave
  <2>7. CASE Signalled   BY <2>7 DEF Signalled
  <2>8. CASE Killed      BY <2>8 DEF Killed
  <2> QED
    BY <2>1, <2>2, <2>3, <2>4, <2>5, <2>6, <2>7, <2>8 DEF SlaveStep
<1>3. ProcessPart'
  BY <1>2 DEF SlaveStep, ListInv, ProcessPart
<1> QED
  BY <1>1, <1>3 DEF ListInv

(* The commands that create or destroy a breakpoint.                      *)
LEMMA NewSbpKeepsListInv ==
    ASSUME ListInv, NEW a \in BreakAddrs, NewSbp(a)
    PROVE  ListInv'
<1> DEFINE bp == [addr |-> a, saved |-> {}, current |-> FALSE, id |-> 0]
<1>1. bp \in Sbp
  BY CommandAssumption DEF Sbp, Addr
<1>2. int3' \subseteq Text /\ EnabledList(Sbp, e_sbp')
  BY <1>1, EnableKeepsSoft DEF NewSbp, ListInv
<1>3. SoftPart'
  BY <1>2 DEF NewSbp, ListInv, SoftPart
<1>4. ProcessPart' /\ HardPart'
  BY DEF NewSbp, ListInv, ProcessPart, HardPart, process, hardBps
<1> QED
  BY <1>3, <1>4 DEF ListInv

LEMMA DeleteSbpKeepsListInv ==
    ASSUME ListInv, NEW id, DeleteSbp(id)
    PROVE  ListInv'
<1> DEFINE l == IF id < 0 THEN d_sbp ELSE e_sbp
<1>1. PICK i \in BpById(l, id) :
        /\ SbpUnset(l[i])
        /\ taint' = IF l[i].addr # rip THEN taint \cup {"moved"} ELSE taint
        /\ IF id < 0 THEN d_sbp' = BpRemove(d_sbp, i) /\ UNCHANGED e_sbp
           ELSE e_sbp' = BpRemove(e_sbp, i) /\ UNCHANGED d_sbp
  BY DEF DeleteSbp
<1>2. i \in DOMAIN l
  BY DEF BpById
<1>3. l[i] \in Sbp
  BY <1>2 DEF ListInv, SoftPart, EnabledList, DisabledList
<1>4. int3' \subseteq Text /\ rip' \in Addr /\ regs' \in Addr
  BY <1>1, <1>3, UnsetKeepsText DEF ListInv, ProcessPart
<1>5. EnabledList(Sbp, e_sbp') /\ DisabledList(Sbp, d_sbp')
  BY <1>1, <1>2, RemoveNode, SbpNodes DEF ListInv, SoftPart
<1>6. ProcessPart'
  BY <1>1, <1>4 DEF DeleteSbp, ListInv, ProcessPart
<1>7. HardPart'
  BY DEF DeleteSbp, ListInv, HardPart, hardBps
<1> QED
  BY <1>4, <1>5, <1>6, <1>7 DEF ListInv, SoftPart

LEMMA NewHbpKeepsListInv ==
    ASSUME ListInv, NEW arg \in WatchArgs, NewHbp(arg)
    PROVE  ListInv'
<1>1. PICK r \in FreeSlot(e_hbp) :
        LET bp == [addr |-> arg.addr, access |-> arg.access,
                   len |-> arg.len, scope |-> arg.scope, regnum |-> r,
                   current |-> FALSE, id |-> 0]
        IN  HbpSet(bp) /\ e_hbp' = BpAppend(e_hbp, bp, 1)
  BY DEF NewHbp
<1> DEFINE bp == [addr |-> arg.addr, access |-> arg.access,
                  len |-> arg.len, scope |-> arg.scope, regnum |-> r,
                  current |-> FALSE, id |-> 0]
<1>2. bp \in Hbp /\ ~bp.current
  BY CommandAssumption DEF Hbp, Addr, FreeSlot
<1>3. dr' \in [Slots -> Addr] /\ dr7' \subseteq 0 .. 31
  BY <1>1, <1>2, SetKeepsRegs DEF ListInv
<1>4. EnabledList(Hbp, e_hbp')
  BY <1>1, <1>2, AppendEnabled, HbpNodes DEF ListInv, HardPart
<1>5. HardPart'
  BY <1>3, <1>4 DEF NewHbp, ListInv, HardPart
<1>6. ProcessPart' /\ SoftPart'
  BY DEF NewHbp, ListInv, ProcessPart, SoftPart, process, softBps
<1> QED
  BY <1>5, <1>6 DEF ListInv

LEMMA DeleteHbpKeepsListInv ==
    ASSUME ListInv, NEW id, DeleteHbp(id)
    PROVE  ListInv'
<1> DEFINE l == IF id < 0 THEN d_hbp ELSE e_hbp
<1>1. PICK i \in BpById(l, id) :
        /\ HbpUnset(l[i])
        /\ IF id < 0 THEN d_hbp' = BpRemove(d_hbp, i) /\ UNCHANGED e_hbp
           ELSE e_hbp' = BpRemove(e_hbp, i) /\ UNCHANGED d_hbp
  BY DEF DeleteHbp
<1>2. i \in DOMAIN l
  BY DEF BpById
<1>3. l[i] \in Hbp
  BY <1>2 DEF ListInv, HardPart, EnabledList, DisabledList
<1>4. dr' \in [Slots -> Addr] /\ dr7' \subseteq 0 .. 31
  BY <1>1, <1>3, SetKeepsRegs DEF ListInv
<1>5. EnabledList(Hbp, e_hbp') /\ DisabledList(Hbp, d_hbp')
  BY <1>1, <1>2, RemoveNode, HbpNodes DEF ListInv, HardPart
<1>6. ProcessPart' /\ SoftPart'
  BY DEF DeleteHbp, ListInv, ProcessPart, SoftPart, process, softBps
<1> QED
  BY <1>4, <1>5, <1>6 DEF ListInv, HardPart

(* A break taken: bp_hdl's moves of either kind.                          *)
LEMMA TakeBreakKeepsListInv ==
    ASSUME ListInv, TakeBreak
    PROVE  ListInv'
<1>1. HardPart'
  <2>1. CASE UNCHANGED hardBps
    BY <2>1 DEF ListInv, HardPart, hardBps
  <2>2. CASE \E i \in HbpHit : HbpDisable(i)
    BY <2>2, DisableKeepsHard DEF ListInv, HbpHit, FirstAt
  <2> QED
    BY <2>1, <2>2 DEF TakeBreak
<1>2. SoftPart' /\ rip' \in Addr /\ regs' \in Addr
  <2>1. CASE regs' = rip /\ UNCHANGED <<rip, softBps>>
    BY <2>1 DEF ListInv, ProcessPart, SoftPart, softBps
  <2>2. CASE \E i \in SbpHit : SbpDisable(i)
    BY <2>2, DisableKeepsSoft
    DEF ListInv, ProcessPart, SbpHit, FirstArmed
  <2> QED
    BY <2>1, <2>2 DEF TakeBreak
<1>3. ProcessPart'
  BY <1>2 DEF TakeBreak, ListInv, ProcessPart, SlaveStates, Commands
<1> QED
  BY <1>1, <1>2, <1>3 DEF ListInv

(* sbp_restore, in every handler that calls it.                           *)
LEMMA RestoreKeepsLists ==
    ASSUME ListInv, SbpRestore
    PROVE  SoftPart' /\ HardPart'
  BY RestoreKeepsSoft, RestoreKeepsHard DEF ListInv, SbpRestore

LEMMA CommandKeepsListInv ==
    ASSUME ListInv, Command
    PROVE  ListInv'
<1> USE DEF ListInv, ProcessPart, SlaveStates, Commands
<1>1. CASE StartSlave
  BY <1>1 DEF StartSlave, SoftPart, HardPart
<1>2. CASE Step
  BY <1>2 DEF Step, SoftPart, HardPart
<1>3. CASE BlindCont
  BY <1>3 DEF BlindCont, SoftPart, HardPart
<1>4. CASE ResumeDead
  <2>1. SoftPart' /\ HardPart'
    BY <1>4, RestoreKeepsLists
    DEF ResumeDead, SoftPart, HardPart, softBps, hardBps
  <2> QED
    BY <1>4, <2>1 DEF ResumeDead
<1>5. CASE TakeBreak
  BY <1>5, TakeBreakKeepsListInv
<1>6. CASE TakeTrap
  BY <1>6, RestoreKeepsLists DEF TakeTrap
<1>7. CASE TakeSignal
  BY <1>7, RestoreKeepsLists DEF TakeSignal
<1>8. CASE TakeDeath
  BY <1>8, RestoreKeepsLists DEF TakeDeath
<1>9. CASE TakeArm
  BY <1>9, RestoreKeepsLists DEF TakeArm
<1>10. CASE TakeArmDeath
  BY <1>10 DEF TakeArmDeath, SoftPart, HardPart, softBps, hardBps
<1>11. CASE \E a \in BreakAddrs : NewSbp(a)
  BY <1>11, NewSbpKeepsListInv
<1>12. CASE \E id \in Ids(e_sbp) \cup Ids(d_sbp) : DeleteSbp(id)
  BY <1>12, DeleteSbpKeepsListInv
<1>13. CASE \E arg \in WatchArgs : NewHbp(arg)
  BY <1>13, NewHbpKeepsListInv
<1>14. CASE \E id \in Ids(e_hbp) \cup Ids(d_hbp) : DeleteHbp(id)
  BY <1>14, DeleteHbpKeepsListInv
<1>15. CASE Quit
  BY <1>15 DEF Quit, SoftPart, HardPart, process, softBps, hardBps
<1> QED
  BY <1>1, <1>2, <1>3, <1>4, <1>5, <1>6, <1>7, <1>8, <1>9, <1>10, <1>11,
     <1>12, <1>13, <1>14, <1>15 DEF Command

LEMMA NextKeepsListInv == ListInv /\ [Next]_vars => ListInv'
<1> SUFFICES ASSUME ListInv, [Next]_vars PROVE ListInv'
  OBVIOUS
<1>1. CASE SlaveStep
  BY <1>1, SlaveStepKeepsListInv
<1>2. CASE Command
  BY <1>2, CommandKeepsListInv
<1>3. CASE UNCHANGED vars
  BY <1>3 DEF vars, ListInv, ProcessPart, SoftPart, HardPart
<1> QED
  BY <1>1, <1>2, <1>3 DEF Next

-------------------------------------------------------------------------
(* The list invariant holds in every reachable state.                     *)
THEOREM ListInvariance == Spec => []ListInv
  BY ListInvInit, NextKeepsListInv, PTL DEF Spec

(* Every variable of the debugger and of the process keeps its type.      *)
THEOREM TypeCorrect == Spec => []TypeOK
<1>1. ListInv => TypeOK
  BY DEF ListInv, ProcessPart, SoftPart, HardPart, EnabledList,
         DisabledList, TypeOK
<1> QED
  BY <1>1, ListInvariance, PTL

(* However breakpoints are set, hit, restored and deleted, the id bl or   *)
(* hbl prints names one node, on the list its sign says.                  *)
THEOREM IdsUnambiguous == Spec => []IdsNameOneBp
<1>1. ListInv => IdsNameOneBp
  BY DEF ListInv, SoftPart, HardPart, EnabledList, DisabledList,
         IdsNameOneBp
<1> QED
  BY <1>1, ListInvariance, PTL

(* The current flag is clear on the enabled lists and set on the disabled *)
(* ones, so step_hdl, sbp_hdl and hbp_hdl never skip an enabled node.     *)
THEOREM FlagsAgree == Spec => []FlagMatchesList
<1>1. ListInv => FlagMatchesList
  BY DEF ListInv, SoftPart, HardPart, EnabledList, DisabledList,
         FlagMatchesList
<1> QED
  BY <1>1, ListInvariance, PTL
=========================================================================
