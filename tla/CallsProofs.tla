-------------------------- MODULE CallsProofs --------------------------
(* Proofs about Calls: its types, that the list is never walked off its   *)
(* end unless the PLT was entered, that two updates in one function make  *)
(* it the current one, and that the list is the one the slave's stack     *)
(* calls for as long as nothing was met that the updates cannot see --    *)
(* for every program, every symbol table that does not overlap, and       *)
(* however deep the stack and long the list.                              *)
EXTENDS Calls, FiniteSetTheorems, SequenceTheorems, TLAPS

-------------------------------------------------------------------------
(* Least and greatest numbers.                                            *)

(* A set of numbers has a least one, since < is well founded.             *)
LEMMA LeastNumber ==
    ASSUME NEW T \in SUBSET Nat, T # {}
    PROVE  \E x \in T : \A y \in T : x <= y
<1> DEFINE R == OpToRel(<, Nat)
<1>1. PICK x \in T : \A y \in T : <<y, x>> \notin R
  <2>1. IsWellFoundedOn(R, Nat)
    BY NatLessThanWellFounded
  <2> HIDE DEF R
  <2> QED
    BY <2>1, WFMin
<1>2. ASSUME NEW y \in T, y < x PROVE FALSE
  <2>1. <<y, x>> \in Nat \X Nat
    OBVIOUS
  <2>2. <<y, x>>[1] < <<y, x>>[2]
    BY <1>2
  <2>3. <<y, x>> \in R
    BY <2>1, <2>2 DEF OpToRel
  <2> QED
    BY <2>3, <1>1
<1> HIDE DEF R
<1>3. \A y \in T : x <= y
  BY <1>2
<1> QED
  BY <1>3

(* A set of numbers that is not empty has its least in it. *)
LEMMA MinIn ==
    ASSUME NEW T \in SUBSET Nat, T # {}
    PROVE  Min(T) \in T /\ \A y \in T : Min(T) <= y
  BY LeastNumber DEF Min

(* A finite set of numbers has a greatest one: otherwise a smallest set   *)
(* without would lose an element and be smaller.                          *)
LEMMA MaxIn ==
    ASSUME NEW T \in SUBSET Nat, T # {}, IsFiniteSet(T)
    PROVE  Max(T) \in T /\ \A y \in T : y <= Max(T)
<1> DEFINE Has(U) == \E x \in U : \A y \in U : x >= y
           K == {n \in Nat : \E U \in SUBSET T :
                    U # {} /\ IsFiniteSet(U) /\ Cardinality(U) = n /\ ~Has(U)}
<1>1. K = {}
  <2> SUFFICES ASSUME K # {} PROVE FALSE
    OBVIOUS
  <2> HIDE DEF K
  <2>1. PICK n \in K : \A m \in K : n <= m
    <3>1. K \in SUBSET Nat
      BY DEF K
    <3> QED
      BY <3>1, LeastNumber
  <2>2. PICK U \in SUBSET T :
            U # {} /\ IsFiniteSet(U) /\ Cardinality(U) = n /\ ~Has(U)
    BY <2>1 DEF K
  <2>3. PICK x \in U : TRUE
    BY <2>2
  <2> DEFINE V == U \ {x}
  <2>4. /\ V \in SUBSET T /\ IsFiniteSet(V)
        /\ Cardinality(V) = n - 1 /\ Cardinality(V) \in Nat
        /\ n \in Nat
    BY <2>1, <2>2, <2>3, FS_RemoveElement, FS_CardinalityType DEF K
  <2>5. n - 1 \notin K
    BY <2>1, <2>4
  <2>6. V = {} \/ Has(V)
    BY <2>4, <2>5 DEF K
  <2>7. CASE V = {}
    <3>1. \A y \in U : y = x
      BY <2>7
    <3>2. x \in Nat
      BY <2>2, <2>3
    <3>3. Has(U)
      BY <2>3, <3>1, <3>2
    <3> QED
      BY <2>2, <3>3
  <2>8. CASE Has(V)
    <3>1. PICK m \in V : \A y \in V : m >= y
      BY <2>8
    <3>2. x \in Nat /\ m \in Nat /\ m \in U /\ \A y \in U : y \in Nat
      BY <2>2, <2>3, <3>1
    <3>3. \A y \in U : y = x \/ m >= y
      BY <3>1
    <3>4. (\A y \in U : m >= y) \/ (\A y \in U : x >= y)
      BY <3>2, <3>3
    <3> QED
      BY <2>2, <2>3, <3>2, <3>4
  <2> QED
    BY <2>6, <2>7, <2>8
<1>2. Cardinality(T) \in Nat
  BY FS_CardinalityType
<1>3. Has(T)
  BY <1>1, <1>2
<1>4. PICK x \in T : \A y \in T : x >= y
  BY <1>3
<1>5. Max(T) \in T /\ \A y \in T : Max(T) >= y
  BY <1>4 DEF Max
<1> QED
  BY <1>5

(* The same for indices.                                                  *)
LEMMA MaxIndex ==
    ASSUME NEW n \in Nat, NEW T \in SUBSET (1 .. n), T # {}
    PROVE  Max(T) \in T /\ \A y \in T : y <= Max(T)
<1>1. T \in SUBSET Nat
  OBVIOUS
<1>2. IsFiniteSet(T)
  <2>1. IsFiniteSet(1 .. n)
    <3>1. 1 \in Int /\ n \in Int
      OBVIOUS
    <3> QED
      BY <3>1, FS_Interval
  <2> QED
    BY <2>1, FS_Subset
<1> QED
  BY <1>1, <1>2, MaxIn

-------------------------------------------------------------------------
(* fnt_new.                                                               *)

(* A sequence with one element put in.                                    *)
LEMMA InsertAtType ==
    ASSUME NEW S, NEW s \in Seq(S), NEW i \in 1 .. Len(s) + 1, NEW x \in S
    PROVE  InsertAt(s, i, x) \in Seq(S)
<1>1. Len(s) \in Nat /\ DOMAIN s = 1 .. Len(s)
      /\ \A k \in 1 .. Len(s) : s[k] \in S
  OBVIOUS
<1>2. \A k \in 1 .. i - 1 : s[k] \in S
  BY <1>1
<1>3. \A k \in i .. Len(s) : s[k] \in S
  BY <1>1
<1>4. SubSeq(s, 1, i - 1) \in Seq(S)
  BY <1>2, SubSeqProperties
<1>5. SubSeq(s, i, Len(s)) \in Seq(S)
  BY <1>1, <1>3, SubSeqProperties
<1>6. <<x>> \in Seq(S)
  OBVIOUS
<1> QED
  BY <1>4, <1>5, <1>6 DEF InsertAt

(* Entering a target keeps the list one of addresses, or of the end mark. *)
LEMMA FsymNewType ==
    ASSUME NEW l \in Seq(Code \cup {0}), NEW a \in Code
    PROVE  FsymNew(l, a) \in Seq(Code \cup {0})
<1> DEFINE T == {i \in DOMAIN l : \A j \in 2 .. i : l[j] < a}
           at == Max(T)
<1>1. CASE l = << >> \/ l[1] > a
  <2>1. <<a>> \in Seq(Code \cup {0})
    OBVIOUS
  <2>2. FsymNew(l, a) = <<a>> \o l
    BY <1>1 DEF FsymNew
  <2> QED
    BY <2>1, <2>2
<1>2. CASE l # << >>
  <2>1. /\ Len(l) \in Nat /\ DOMAIN l = 1 .. Len(l) /\ Len(l) # 0
    BY <1>2, EmptySeq
  <2>2. 1 \in T
    BY <2>1
  <2>3. at \in 1 .. Len(l)
    <3>1. T \in SUBSET (1 .. Len(l)) /\ T # {}
      BY <2>1, <2>2
    <3> HIDE DEF T
    <3> QED
      BY <2>1, <3>1, MaxIndex
  <2> HIDE DEF at
  <2>4. InsertAt(l, at + 1, 0) \in Seq(Code \cup {0})
    <3>1. at + 1 \in 1 .. Len(l) + 1
      BY <2>1, <2>3
    <3>2. 0 \in Code \cup {0}
      OBVIOUS
    <3> QED
      BY <3>1, <3>2, InsertAtType
  <2>5. FsymNew(l, a) \in {<<a>> \o l, l, InsertAt(l, at + 1, 0)}
    BY DEF FsymNew, at
  <2>6. <<a>> \o l \in Seq(Code \cup {0})
    <3>1. <<a>> \in Seq(Code \cup {0})
      OBVIOUS
    <3> QED
      BY <3>1
  <2> QED
    BY <2>4, <2>5, <2>6
<1> QED
  BY <1>1, <1>2

(* fsym_from_call, step by step: the function its recursion defines.      *)
Passed(p, f, a) ==
    IF a = 0 THEN << >>
    ELSE IF IsTarget(p, a) THEN FsymNew(f[a - 1], Programs[p][a].to)
    ELSE f[a - 1]

(* The table of targets is a function that says of each address what the  *)
(* scan has entered when it has passed it.                                *)
LEMMA FsymDef ==
    ASSUME NEW p
    PROVE  Fsym(p) = (CHOOSE f : f = [a \in 0 .. Max(Code) |->
                                        Passed(p, f, a)])[Max(Code)]
  BY DEF Fsym, Passed

(* Every program makes a list of targets.                                 *)
LEMMA FsymType ==
    ASSUME NEW p \in DOMAIN Programs
    PROVE  Fsym(p) \in Seq(Code \cup {0})
<1> DEFINE S == Seq(Code \cup {0})
           M == Max(Code)
           Sat(f, n) == \A a \in 0 .. n : f[a] = Passed(p, f, a)
           Q(f) == f = [a \in 0 .. M |-> Passed(p, f, a)]
<1>1. M \in Nat
  <2>1. Code \in SUBSET Nat /\ Code # {} /\ IsFiniteSet(Code)
    BY ProgramAssumption
  <2> QED
    BY <2>1, MaxIn
<1>2. ASSUME NEW f, NEW a \in Nat, a > 0 => f[a - 1] \in S
      PROVE  Passed(p, f, a) \in S
  <2>1. << >> \in S
    OBVIOUS
  <2>2. IsTarget(p, a) => Programs[p][a].to \in Code
    BY ProgramAssumption DEF IsTarget
  <2> HIDE DEF S
  <2>3. a = 0 \/ a > 0
    OBVIOUS
  <2>4. CASE a > 0 /\ IsTarget(p, a)
    <3>1. FsymNew(f[a - 1], Programs[p][a].to) \in S
      BY <1>2, <2>2, <2>4, FsymNewType DEF S
    <3> QED
      BY <2>4, <3>1 DEF Passed
  <2> QED
    BY <1>2, <2>1, <2>3, <2>4 DEF Passed
<1> HIDE DEF S, M
<1>3. \A n \in Nat : \E g : g \in [0 .. n -> S] /\ Sat(g, n)
  <2> DEFINE K == {n \in Nat : ~\E g : g \in [0 .. n -> S] /\ Sat(g, n)}
  <2> SUFFICES ASSUME K # {} PROVE FALSE
    OBVIOUS
  <2>1. PICK n \in K : \A m \in K : n <= m
    <3>1. K \in SUBSET Nat
      OBVIOUS
    <3> HIDE DEF K
    <3> QED
      BY <3>1, LeastNumber
  <2>2. n \in Nat
    BY <2>1
  <2>3. CASE n = 0
    <3> DEFINE g == [a \in 0 .. 0 |-> << >>]
    <3>1. Passed(p, g, 0) = << >> /\ << >> \in S
      BY DEF Passed, S
    <3>2. g \in [0 .. 0 -> S] /\ Sat(g, 0)
      BY <3>1
    <3> HIDE DEF g
    <3> QED
      BY <2>1, <2>3, <3>2
  <2>4. CASE n # 0
    <3>0. n - 1 \in Nat /\ ~(n <= n - 1)
      BY <2>2, <2>4
    <3>1. n - 1 \in Nat /\ n - 1 \notin K
      <4> HIDE DEF K
      <4> QED
        BY <2>1, <3>0
    <3>2. PICK g : g \in [0 .. n - 1 -> S] /\ Sat(g, n - 1)
      BY <3>1
    <3> DEFINE h == [a \in 0 .. n |-> IF a = n THEN Passed(p, g, n) ELSE g[a]]
    <3>3. g[n - 1] \in S
      BY <2>2, <3>1, <3>2
    <3>4. Passed(p, g, n) \in S
      BY <1>2, <2>2, <3>3
    <3>5. \A a \in 0 .. n : a # n => a \in 0 .. n - 1
      BY <2>2
    <3>6. h \in [0 .. n -> S]
      BY <3>2, <3>4, <3>5
    <3>7. \A a \in 0 .. n : a # 0 => h[a - 1] = g[a - 1]
      BY <2>2
    <3> HIDE DEF h
    <3>8. \A a \in 0 .. n : Passed(p, h, a) = Passed(p, g, a)
      BY <3>7 DEF Passed
    <3>9. \A a \in 0 .. n : h[a] = IF a = n THEN Passed(p, g, n) ELSE g[a]
      BY DEF h
    <3>10. Sat(h, n)
      BY <3>2, <3>5, <3>8, <3>9
    <3> QED
      BY <2>1, <3>6, <3>10
  <2> QED
    BY <2>3, <2>4
<1>4. \E f : Q(f)
  <2>1. PICK g : g \in [0 .. M -> S] /\ Sat(g, M)
    BY <1>1, <1>3
  <2>2. g = [a \in 0 .. M |-> g[a]]
    BY <2>1
  <2>3. Q(g)
    BY <2>1, <2>2
  <2> QED
    BY <2>3
<1>5. ASSUME NEW f, Q(f) PROVE f[M] \in S
  <2> DEFINE K == {a \in 0 .. M : f[a] \notin S}
  <2>1. K = {}
    <3> SUFFICES ASSUME K # {} PROVE FALSE
      OBVIOUS
    <3>1. PICK a \in K : \A m \in K : a <= m
      <4>1. K \in SUBSET Nat
        BY <1>1
      <4> HIDE DEF K
      <4> QED
        BY <4>1, LeastNumber
    <3>2. a \in Nat /\ a \in 0 .. M /\ f[a] \notin S
      BY <1>1, <3>1
    <3>3. a > 0 => f[a - 1] \in S
      <4> SUFFICES ASSUME a > 0, f[a - 1] \notin S PROVE FALSE
        OBVIOUS
      <4>1. a - 1 \in K
        BY <1>1, <3>2
      <4> QED
        BY <3>1, <3>2, <4>1
    <3>4. Passed(p, f, a) \in S
      BY <1>2, <3>2, <3>3
    <3>5. f[a] = Passed(p, f, a)
      BY <1>5, <3>2, Zenon
    <3> QED
      BY <3>2, <3>4, <3>5
  <2>2. M \in 0 .. M
    BY <1>1
  <2> QED
    BY <2>1, <2>2
<1>6. Q(CHOOSE f : Q(f))
  BY <1>4
<1>7. Fsym(p) = (CHOOSE f : Q(f))[M]
  BY FsymDef, Zenon DEF M
<1> HIDE DEF Q
<1>8. Fsym(p) \in S
  BY <1>5, <1>6, <1>7
<1> QED
  BY <1>8 DEF S

-------------------------------------------------------------------------
(* Entries.                                                               *)

Syms == [start : Code, size : Nat, plt : BOOLEAN, own : BOOLEAN]
EntryAt == [start : Code, end : Nat, size : Nat, unknown : BOOLEAN,
            jmp : BOOLEAN, rip : Code]
Types == /\ prog \in DOMAIN Programs /\ stripped \in BOOLEAN
         /\ fsym \in Seq(Code \cup {0})
         /\ stripped \/ fsym = << >>

(* fnt_stripped gives a function that ends behind where it starts.        *)
LEMMA FntStrippedType ==
    ASSUME Types, NEW a \in Code
    PROVE  FntStripped(a) \subseteq Syms
<1> DEFINE notBelow == {i \in DOMAIN fsym : fsym[i] >= a}
           before == {i \in DOMAIN fsym :
                        fsym[i] # 0 /\ \A j \in notBelow : i < j}
<1>1. CASE a \notin Local \/ notBelow = {} \/ before = {}
  <2>1. FntStripped(a) = {}
    BY <1>1 DEF FntStripped
  <2> QED
    BY <2>1
<1>2. CASE a \in Local /\ notBelow # {} /\ before # {}
  <2> DEFINE start == fsym[Max(before)]
             next == fsym[Min(notBelow)]
  <2>1. /\ Len(fsym) \in Nat /\ DOMAIN fsym = 1 .. Len(fsym)
        /\ \A i \in 1 .. Len(fsym) :
              fsym[i] \in Code \cup {0} /\ fsym[i] \in Nat
    <3>1. fsym \in Seq(Code \cup {0})
      BY DEF Types
    <3>2. Len(fsym) \in Nat /\ DOMAIN fsym = 1 .. Len(fsym)
          /\ \A i \in 1 .. Len(fsym) : fsym[i] \in Code \cup {0}
      BY <3>1
    <3>3. \A x \in Code \cup {0} : x \in Nat
      BY ProgramAssumption
    <3> QED
      BY <3>2, <3>3
  <2>2. FntStripped(a) = {[start |-> start, size |-> next - start,
                           plt |-> FALSE, own |-> FALSE]}
    BY <1>2 DEF FntStripped
  <2>3. Max(before) \in before
    <3>1. before \in SUBSET (1 .. Len(fsym)) /\ before # {}
      BY <1>2, <2>1
    <3> HIDE DEF before
    <3> QED
      BY <2>1, <3>1, MaxIndex
  <2>4. Min(notBelow) \in notBelow
    <3>1. notBelow \in SUBSET Nat /\ notBelow # {}
      BY <1>2, <2>1
    <3> HIDE DEF notBelow
    <3> QED
      BY <3>1, MinIn
  <2>5. /\ Max(before) \in 1 .. Len(fsym) /\ start # 0
        /\ Max(before) \notin notBelow
    <3>1. Max(before) \in 1 .. Len(fsym) /\ start # 0
          /\ \A j \in notBelow : Max(before) < j
      BY <2>1, <2>3
    <3> QED
      BY <3>1
  <2>6. Min(notBelow) \in 1 .. Len(fsym) /\ next >= a
    BY <2>1, <2>4
  <2>7. start < a /\ start \in Code /\ start \in Nat /\ next \in Nat
    <3>1. a \in Nat
      BY ProgramAssumption
    <3> QED
      BY <2>1, <2>5, <2>6, <3>1
  <2>8. next - start \in Nat
    <3>1. a \in Nat
      BY ProgramAssumption
    <3> HIDE DEF start, next
    <3> QED
      BY <2>6, <2>7, <3>1
  <2> HIDE DEF start, next
  <2> QED
    BY <2>2, <2>7, <2>8 DEF Syms
<1> QED
  BY <1>1, <1>2

(* What fnt_new finds: a symbol of the tables, or one that fnt_stripped   *)
(* makes up for a stripped program, or nothing.                           *)
Found(a) == IF Named[stripped][a] # {} THEN Named[stripped][a]
            ELSE IF FntStripped(a) # {} THEN FntStripped(a)
            ELSE Unsized[stripped][a]

(* An entry made for an address is for a symbol found there, or for none, *)
(* and it is a jump's only if the PLT has the address.                    *)
LEMMA FntNewShape ==
    ASSUME Types, NEW a \in Code
    PROVE  /\ FntNew(a) \in EntryAt /\ FntNew(a).rip = a
           /\ \/ \E s \in Found(a) : /\ FntNew(a) = Entered(s, a, FALSE)
                                     /\ s \in Syms
              \/ /\ Found(a) = {}
                 /\ FntNew(a) = Entered([start |-> a, size |-> 0,
                                         plt |-> FALSE, own |-> FALSE],
                                        a, TRUE)
           /\ FntNew(a).jmp => FntPltSym(a) # {}
<1>1. Found(a) \subseteq Syms
  <2>1. \A strip \in BOOLEAN : \A b \in Code :
            Named[strip][b] \subseteq Syms /\ Unsized[strip][b] \subseteq Syms
    BY SymbolAssumption DEF Named, Unsized, FntPltSym, FntSym, FntSymNosz,
        LocalTable, OwnTable, SharedTable, Syms
  <2> QED
    BY <2>1, FntStrippedType DEF Found, Types
<1>2. FntNew(a) = IF Found(a) # {}
                  THEN Entered(CHOOSE s \in Found(a) : TRUE, a, FALSE)
                  ELSE Entered([start |-> a, size |-> 0, plt |-> FALSE,
                                own |-> FALSE], a, TRUE)
  BY DEF FntNew, Found
<1>3. \A s \in Syms : \A u \in BOOLEAN :
        /\ Entered(s, a, u) \in EntryAt /\ Entered(s, a, u).rip = a
        /\ Entered(s, a, u).jmp = s.plt
  <2> TAKE s \in Syms
  <2> TAKE u \in BOOLEAN
  <2>1. /\ s.start \in Nat /\ s.size \in Nat
        /\ s.start \in Code /\ s.plt \in BOOLEAN
    BY ProgramAssumption DEF Syms
  <2>2. s.start + s.size \in Nat
    BY <2>1
  <2> QED
    BY <2>1, <2>2 DEF Entered, EntryAt
<1>4. CASE Found(a) = {}
  <2> DEFINE s == [start |-> a, size |-> 0, plt |-> FALSE, own |-> FALSE]
  <2>1. s \in Syms /\ ~s.plt
    BY DEF Syms
  <2>2. FntNew(a) = Entered(s, a, TRUE)
    BY <1>2, <1>4
  <2> HIDE DEF s
  <2>3. FntNew(a) \in EntryAt /\ FntNew(a).rip = a /\ ~FntNew(a).jmp
    BY <1>3, <2>1, <2>2
  <2> QED
    BY <1>4, <2>2, <2>3 DEF s
<1>5. CASE Found(a) # {}
  <2>1. PICK s \in Found(a) : s = CHOOSE x \in Found(a) : TRUE
    BY <1>5
  <2>2. FntNew(a) = Entered(s, a, FALSE) /\ s \in Syms
    BY <1>1, <1>2, <1>5, <2>1
  <2>3. FntNew(a) \in EntryAt /\ FntNew(a).rip = a /\ FntNew(a).jmp = s.plt
    BY <1>3, <2>2
  <2>4. s.plt => FntPltSym(a) # {}
    <3>1. FntPltSym(a) = {} => \A t \in Found(a) : ~t.plt
      <4>1. \A strip \in BOOLEAN : \A b \in Code :
              /\ FntPltSym(b) = {} => \A t \in Named[strip][b] : ~t.plt
              /\ \A t \in Unsized[strip][b] : ~t.plt
        BY DEF Named, Unsized, FntSym, FntSymNosz, LocalTable,
            OwnTable, SharedTable
      <4>2. \A t \in FntStripped(a) : ~t.plt
        BY DEF FntStripped
      <4> QED
        BY <4>1, <4>2 DEF Found, Types
    <3> QED
      BY <3>1
  <2> QED
    BY <2>2, <2>3, <2>4
<1> QED
  BY <1>4, <1>5

-------------------------------------------------------------------------
(* update_func, one case for each of its branches.                        *)

Lists == Seq(EntryAt)
States == [lst : Lists, crashed : BOOLEAN]

(* m is l from its k-th entry on.                                         *)
From(m, l, k) == /\ m \in Lists /\ k \in 1 .. Len(l) + 1
                 /\ Len(m) = Len(l) - k + 1
                 /\ \A i \in 1 .. Len(m) : m[i] = l[i + k - 1]

(* m is l with another entry on top, m is l with one more.                *)
WithTop(m, l, e) == /\ m \in Lists /\ Len(l) > 0 /\ Len(m) = Len(l)
                    /\ m[1] = e /\ \A i \in 2 .. Len(l) : m[i] = l[i]
OnTop(m, l, e) == /\ m \in Lists /\ Len(m) = Len(l) + 1
                  /\ m[1] = e /\ \A i \in 1 .. Len(l) : m[i + 1] = l[i]

(* What is left of a list from its k-th entry on. *)
LEMMA SuffixFrom ==
    ASSUME NEW l \in Lists, NEW k \in 1 .. Len(l) + 1
    PROVE  From(SubSeq(l, k, Len(l)), l, k)
<1> DEFINE m == SubSeq(l, k, Len(l))
<1>1. Len(l) \in Nat /\ \A i \in k .. Len(l) : l[i] \in EntryAt
  BY DEF Lists
<1>2. m \in Lists /\ Len(m) = Len(l) - k + 1
  <2>1. m \in Seq(EntryAt)
        /\ Len(m) = IF k <= Len(l) THEN Len(l) - k + 1 ELSE 0
    BY <1>1, SubSeqProperties DEF Lists
  <2> QED
    BY <1>1, <2>1 DEF Lists
<1>3. \A i \in 1 .. Len(m) : m[i] = l[i + k - 1]
  BY <1>1, <1>2, SubSeqProperties DEF Lists
<1> QED
  BY <1>2, <1>3 DEF From

(* The jumps dropped from the top of a list.                              *)
LEMMA DropJumpsFrom ==
    ASSUME NEW l \in Lists
    PROVE  \E k \in 1 .. Len(l) + 1 :
              /\ From(DropJumps(l), l, k)
              /\ \A i \in 1 .. k - 1 : l[i].jmp
              /\ k <= Len(l) => ~l[k].jmp
<1> DEFINE calls == {i \in DOMAIN l : ~l[i].jmp}
<1>1. Len(l) \in Nat /\ DOMAIN l = 1 .. Len(l)
  BY DEF Lists
<1>2. CASE calls = {}
  <2>1. DropJumps(l) = << >>
    BY <1>2 DEF DropJumps
  <2>2. From(<< >>, l, Len(l) + 1)
    <3>1. << >> \in Lists /\ Len(<< >>) = 0
      BY DEF Lists
    <3> QED
      BY <1>1, <3>1 DEF From
  <2>3. \A i \in 1 .. Len(l) : l[i].jmp
    BY <1>1, <1>2
  <2> DEFINE k == Len(l) + 1
  <2>4. k \in 1 .. Len(l) + 1 /\ k - 1 = Len(l) /\ ~(k <= Len(l))
    BY <1>1
  <2>5. From(DropJumps(l), l, k)
    BY <2>1, <2>2
  <2> HIDE DEF k
  <2> QED
    BY <2>3, <2>4, <2>5
<1>3. CASE calls # {}
  <2> DEFINE k == Min(calls)
  <2>1. k \in calls /\ \A i \in calls : k <= i
    <3>1. calls \in SUBSET Nat /\ calls # {}
      BY <1>1, <1>3
    <3> HIDE DEF calls
    <3> QED
      BY <3>1, MinIn
  <2>2. DropJumps(l) = SubSeq(l, k, Len(l))
    BY <1>3 DEF DropJumps
  <2> HIDE DEF k
  <2>3. k \in 1 .. Len(l) /\ k \in 1 .. Len(l) + 1 /\ ~l[k].jmp
    BY <1>1, <2>1
  <2>4. \A i \in 1 .. k - 1 : l[i].jmp
    <3> SUFFICES ASSUME NEW i \in 1 .. k - 1, ~l[i].jmp PROVE FALSE
      OBVIOUS
    <3>1. i \in 1 .. Len(l) /\ ~(k <= i)
      BY <1>1, <2>3
    <3>2. i \in calls
      BY <1>1, <3>1
    <3> QED
      BY <2>1, <3>1, <3>2
  <2>5. From(DropJumps(l), l, k)
    BY <2>2, <2>3, SuffixFrom
  <2> QED
    BY <2>3, <2>4, <2>5
<1> QED
  BY <1>2, <1>3

(* fnt_ret takes at least the entry on top off, and leaves a call on top, *)
(* or nothing.                                                            *)
LEMMA PoppedFrom ==
    ASSUME NEW l \in Lists, DropJumps(l) # << >>
    PROVE  \E k \in 2 .. Len(l) + 1 : From(Popped(l), l, k)
<1>1. Len(l) \in Nat
  BY DEF Lists
<1> DEFINE d == DropJumps(l)
<1>2. PICK k \in 1 .. Len(l) + 1 : From(d, l, k)
  BY DropJumpsFrom
<1> HIDE DEF d
<1>3. /\ d \in Lists /\ Len(d) = Len(l) - k + 1
      /\ \A i \in 1 .. Len(d) : d[i] = l[i + k - 1]
  BY <1>2 DEF From
<1>4. Len(d) > 0 /\ d # << >> /\ Len(d) \in Nat
  <2>1. d # << >> /\ d \in Seq(EntryAt)
    BY <1>3 DEF d, Lists
  <2>2. Len(d) # 0 /\ Len(d) \in Nat
    BY <2>1, EmptySeq
  <2> QED
    BY <2>1, <2>2
<1> DEFINE t == Tail(d)
<1>5. /\ t \in Lists /\ Len(t) = Len(d) - 1
      /\ \A i \in 1 .. Len(t) : t[i] = d[i + 1]
  BY <1>3, <1>4, HeadTailProperties DEF Lists
<1> HIDE DEF t
<1>6. PICK j \in 1 .. Len(t) + 1 : From(DropJumps(t), t, j)
  BY <1>5, DropJumpsFrom
<1>7. Popped(l) = DropJumps(t)
  BY DEF Popped, t, d
<1> DEFINE m == DropJumps(t)
<1>8. /\ m \in Lists /\ Len(m) = Len(t) - j + 1
      /\ \A i \in 1 .. Len(m) : m[i] = t[i + j - 1]
  BY <1>6 DEF From
<1> HIDE DEF m
<1>9. Len(t) \in Nat /\ Len(m) \in Nat /\ Len(t) = Len(l) - k
      /\ Len(m) = Len(l) - (k + j) + 1 /\ k + j \in 2 .. Len(l) + 1
  BY <1>1, <1>3, <1>4, <1>5, <1>8
<1>10. ASSUME NEW i \in 1 .. Len(m) PROVE m[i] = l[i + (k + j) - 1]
  <2>1. i + j - 1 \in 1 .. Len(t) /\ i + j \in 1 .. Len(d)
        /\ (i + j - 1) + 1 = i + j /\ (i + j) + k - 1 = i + (k + j) - 1
    BY <1>3, <1>5, <1>8, <1>9
  <2>2. m[i] = t[i + j - 1]
    BY <1>8
  <2>3. t[i + j - 1] = d[(i + j - 1) + 1]
    BY <1>5, <2>1
  <2>4. d[i + j] = l[(i + j) + k - 1]
    BY <1>3, <2>1
  <2> QED
    BY <2>1, <2>2, <2>3, <2>4
<1>11. From(m, l, k + j)
  <2>1. k + j \in 1 .. Len(l) + 1
    BY <1>1, <1>9
  <2> QED
    BY <1>8, <1>9, <1>10, <2>1 DEF From
<1>12. From(Popped(l), l, k + j)
  BY <1>7, <1>11 DEF m
<1> QED
  BY <1>9, <1>12

Seen1(e, a) == [e EXCEPT !.rip = a]
Seen2(e, a) == [e EXCEPT !.rip = a, !.end = IF e.size = 0 THEN a ELSE @]
Jumped(l, int3) == l # << >> /\ Decoded(l[1].rip, int3) # "call"
Entry1(l, a, int3) == [FntNew(a) EXCEPT !.jmp = @ \/ Jumped(l, int3)]

(* Noting a visit, or making an entry, gives an entry. *)
LEMMA EntryTypes ==
    ASSUME Types, NEW a \in Code
    PROVE  /\ \A e \in EntryAt : /\ Seen1(e, a) \in EntryAt
                                 /\ Seen2(e, a) \in EntryAt
           /\ \A l, int3 : Entry1(l, a, int3) \in EntryAt
<1>1. a \in Nat
  BY ProgramAssumption
<1>2. ASSUME NEW e \in EntryAt
      PROVE  Seen1(e, a) \in EntryAt /\ Seen2(e, a) \in EntryAt
  <2>1. (IF e.size = 0 THEN a ELSE e.end) \in Nat
    BY <1>1 DEF EntryAt
  <2> QED
    BY <2>1 DEF Seen1, Seen2, EntryAt
<1>3. ASSUME NEW l, NEW int3 PROVE Entry1(l, a, int3) \in EntryAt
  <2>1. FntNew(a) \in EntryAt
    BY FntNewShape
  <2> DEFINE e == FntNew(a)
             j == e.jmp \/ Jumped(l, int3)
  <2>2. Entry1(l, a, int3) = [e EXCEPT !.jmp = j]
    BY DEF Entry1
  <2>3. j \in BOOLEAN
    BY <2>1 DEF EntryAt, Jumped
  <2> HIDE DEF e, j
  <2>4. e \in EntryAt
    BY <2>1 DEF e
  <2> QED
    BY <2>2, <2>3, <2>4 DEF EntryAt
<1> QED
  BY <1>2, <1>3

(* An entry on top, and another in the place of the top one.              *)
LEMMA PushedOnTop ==
    ASSUME NEW l \in Lists, NEW e \in EntryAt
    PROVE  OnTop(<<e>> \o l, l, e)
<1>1. Len(l) \in Nat /\ l \in Seq(EntryAt) /\ <<e>> \in Seq(EntryAt)
      /\ Len(<<e>>) = 1 /\ <<e>>[1] = e
  BY DEF Lists
<1>2. <<e>> \o l \in Seq(EntryAt) /\ Len(<<e>> \o l) = 1 + Len(l)
      /\ \A i \in 1 .. 1 + Len(l) :
            (<<e>> \o l)[i] = IF i <= 1 THEN <<e>>[i] ELSE l[i - 1]
  BY <1>1, ConcatProperties
<1> DEFINE m == <<e>> \o l
<1> HIDE DEF m
<1>3. m \in Seq(EntryAt) /\ Len(m) = 1 + Len(l)
      /\ \A i \in 1 .. 1 + Len(l) : m[i] = IF i <= 1 THEN <<e>>[i] ELSE l[i - 1]
  BY <1>2 DEF m
<1>4. m[1] = e /\ \A i \in 1 .. Len(l) : m[i + 1] = l[i]
  BY <1>1, <1>3
<1>5. OnTop(m, l, e)
  BY <1>1, <1>3, <1>4 DEF OnTop, Lists
<1> QED
  BY <1>5 DEF m

(* Putting an entry in the place of the newest. *)
LEMMA PutOnTop ==
    ASSUME NEW l \in Lists, l # << >>, NEW e \in EntryAt
    PROVE  WithTop(<<e>> \o Tail(l), l, e)
<1>1. l \in Seq(EntryAt) /\ Len(l) \in Nat /\ Len(l) # 0
  BY EmptySeq DEF Lists
<1> DEFINE t == Tail(l)
<1>2. /\ t \in Lists /\ Len(t) = Len(l) - 1
      /\ \A i \in 1 .. Len(t) : t[i] = l[i + 1]
  BY <1>1, HeadTailProperties DEF Lists
<1> HIDE DEF t
<1>3. OnTop(<<e>> \o t, t, e)
  BY <1>2, PushedOnTop
<1> DEFINE m == <<e>> \o t
<1> HIDE DEF m
<1>4. m \in Lists /\ Len(m) = Len(t) + 1 /\ m[1] = e
      /\ \A i \in 1 .. Len(t) : m[i + 1] = t[i]
  BY <1>3 DEF OnTop, m
<1>5. ASSUME NEW i \in 2 .. Len(l) PROVE m[i] = l[i]
  <2>1. i - 1 \in 1 .. Len(t) /\ (i - 1) + 1 = i
    BY <1>1, <1>2
  <2> QED
    BY <1>2, <1>4, <2>1
<1>6. WithTop(m, l, e)
  BY <1>1, <1>2, <1>4, <1>5 DEF WithTop
<1> QED
  BY <1>6 DEF m, t

(* The newest entry takes the address of the stop. *)
LEMMA PatchedTop ==
    ASSUME Types, NEW l \in Lists, l # << >>, NEW a \in Code
    PROVE  WithTop([l EXCEPT ![1].rip = a], l, Seen1(l[1], a))
<1>1. l \in Seq(EntryAt) /\ Len(l) \in Nat /\ Len(l) # 0
      /\ DOMAIN l = 1 .. Len(l)
  BY EmptySeq DEF Lists
<1>2. l[1] \in EntryAt
  BY <1>1
<1>3. Seen1(l[1], a) \in EntryAt
  BY <1>2, EntryTypes
<1> DEFINE e == Seen1(l[1], a)
           m == [l EXCEPT ![1] = e]
<1>4. [l EXCEPT ![1].rip = a] = m
  BY DEF Seen1
<1> HIDE DEF e
<1>5. m \in Seq(EntryAt) /\ Len(m) = Len(l) /\ m[1] = e
      /\ \A i \in 2 .. Len(l) : m[i] = l[i]
  BY <1>1, <1>3 DEF e
<1> HIDE DEF m
<1>6. WithTop(m, l, e)
  BY <1>1, <1>5 DEF WithTop, Lists
<1> QED
  BY <1>4, <1>6 DEF e

(* What a call of update_func makes of the list.                          *)
Same(l, a) == l # << >> /\ SameFnt(FntNew(a), l[1])
Patched(m, l, a) == InTop(l, a) /\ WithTop(m, l, Seen1(l[1], a))
Returned(m, l, int3) == /\ Returns(l, int3) /\ m = Popped(l)
                        /\ \E k \in 2 .. Len(l) + 1 : From(m, l, k)
Stayed(m, l, a) == Same(l, a) /\ WithTop(m, l, Seen2(l[1], a))
Entered1(m, l, a, int3) == /\ ~Returns(l, int3) /\ ~InTop(l, a) /\ ~Same(l, a)
                           /\ OnTop(m, l, Entry1(l, a, int3))
Updated(m, l, a, int3) ==
    \/ Patched(m, l, a)
    \/ ~InTop(l, a) /\ Returned(m, l, int3)
    \/ ~InTop(l, a) /\ ~Returns(l, int3) /\ Stayed(m, l, a)
    \/ Entered1(m, l, a, int3)
OffItsEnd(l, a, int3) == Returns(l, int3) /\ DropJumps(l) = << >>

(* What one update does: it walks off the list, or it does one of what    *)
(* Updated says; after a crash it does nothing.                           *)
LEMMA UpdateCases ==
    ASSUME Types, NEW st \in States, NEW a \in Code, NEW int3
    PROVE  /\ UpdateFunc(st, a, int3) \in States
           /\ st.crashed => UpdateFunc(st, a, int3) = st
           /\ ~st.crashed =>
                 \/ /\ OffItsEnd(st.lst, a, int3)
                    /\ UpdateFunc(st, a, int3).crashed
                 \/ /\ ~UpdateFunc(st, a, int3).crashed
                    /\ Updated(UpdateFunc(st, a, int3).lst, st.lst, a, int3)
<1> DEFINE l == st.lst
           n == UpdateFunc(st, a, int3)
<1>1. l \in Lists /\ st.crashed \in BOOLEAN /\ st \in States
      /\ st = [lst |-> l, crashed |-> st.crashed]
  BY DEF States
<1>2. \A m \in Lists : [st EXCEPT !.lst = m] \in States
        /\ [st EXCEPT !.lst = m].lst = m
        /\ [st EXCEPT !.lst = m].crashed = st.crashed
  BY DEF States
<1>3. CASE st.crashed
  <2>1. n = st
    BY <1>3 DEF UpdateFunc
  <2> QED
    BY <1>3, <2>1
<1>4. CASE ~st.crashed /\ InTop(l, a)
  <2> DEFINE m == [l EXCEPT ![1].rip = a]
  <2>1. n = [st EXCEPT !.lst[1].rip = a]
    BY <1>4 DEF UpdateFunc
  <2>2. [st EXCEPT !.lst[1].rip = a] = [st EXCEPT !.lst = m]
    BY <1>1 DEF States
  <2>3. WithTop(m, l, Seen1(l[1], a))
    BY <1>1, <1>4, PatchedTop DEF InTop
  <2> HIDE DEF m
  <2>4. m \in Lists
    BY <2>3 DEF WithTop
  <2> HIDE DEF l, n
  <2>5. n \in States /\ n.lst = m /\ ~n.crashed
    BY <1>2, <1>4, <2>1, <2>2, <2>4
  <2>6. Updated(n.lst, l, a, int3)
    BY <1>4, <2>3, <2>5 DEF Updated, Patched
  <2> QED
    BY <1>4, <2>5, <2>6 DEF n, l
<1>5. CASE ~st.crashed /\ ~InTop(l, a) /\ Returns(l, int3)
  <2>1. CASE DropJumps(l) = << >>
    <3>1. n = [st EXCEPT !.crashed = TRUE]
      BY <1>5, <2>1 DEF UpdateFunc
    <3>2. [st EXCEPT !.crashed = TRUE] \in States
          /\ [st EXCEPT !.crashed = TRUE].crashed
      BY <1>1 DEF States
    <3> QED
      BY <1>5, <2>1, <3>1, <3>2 DEF OffItsEnd
  <2>2. CASE DropJumps(l) # << >>
    <3> DEFINE m == Popped(l)
    <3>1. n = [st EXCEPT !.lst = m]
      BY <1>5, <2>2 DEF UpdateFunc
    <3>2. \E k \in 2 .. Len(l) + 1 : From(m, l, k)
      BY <1>1, <2>2, PoppedFrom
    <3>6. m = Popped(l)
      OBVIOUS
    <3> HIDE DEF m, l, n
    <3>3. m \in Lists
      BY <3>2 DEF From
    <3>4. n \in States /\ n.lst = m /\ ~n.crashed
      BY <1>2, <1>5, <3>1, <3>3
    <3>5. Updated(n.lst, l, a, int3)
      BY <1>5, <3>2, <3>4, <3>6 DEF Updated, Returned
    <3> QED
      BY <1>5, <3>4, <3>5 DEF n, l
  <2> QED
    BY <2>1, <2>2
<1>6. CASE ~st.crashed /\ ~InTop(l, a) /\ ~Returns(l, int3) /\ Same(l, a)
  <2> DEFINE m == SeenAt(l, a)
  <2>1. n = [st EXCEPT !.lst = m]
    BY <1>6 DEF UpdateFunc, Same
  <2>2. m = <<Seen2(l[1], a)>> \o Tail(l)
    BY DEF SeenAt, Seen2
  <2>3. l[1] \in EntryAt /\ l # << >>
    <3>1. l # << >> /\ l \in Seq(EntryAt)
      BY <1>1, <1>6 DEF Same, Lists
    <3>2. Len(l) \in Nat /\ Len(l) # 0
      BY <3>1, EmptySeq
    <3> QED
      BY <3>1, <3>2
  <2>4. Seen2(l[1], a) \in EntryAt
    BY <2>3, EntryTypes
  <2>5. WithTop(m, l, Seen2(l[1], a))
    BY <1>1, <2>2, <2>3, <2>4, PutOnTop
  <2> HIDE DEF m, l, n
  <2>6. m \in Lists
    BY <2>5 DEF WithTop
  <2>7. n \in States /\ n.lst = m /\ ~n.crashed
    BY <1>2, <1>6, <2>1, <2>6
  <2>8. Updated(n.lst, l, a, int3)
    BY <1>6, <2>5, <2>7 DEF Updated, Stayed
  <2> QED
    BY <1>6, <2>7, <2>8 DEF n, l
<1>7. CASE ~st.crashed /\ ~InTop(l, a) /\ ~Returns(l, int3) /\ ~Same(l, a)
  <2> DEFINE m == Pushed(l, FntNew(a), int3)
  <2>1. n = [st EXCEPT !.lst = m]
    BY <1>7 DEF UpdateFunc, Same
  <2>2. m = <<Entry1(l, a, int3)>> \o l
    BY DEF Pushed, Entry1, Jumped
  <2>3. Entry1(l, a, int3) \in EntryAt
    BY EntryTypes
  <2>4. OnTop(m, l, Entry1(l, a, int3))
    BY <1>1, <2>2, <2>3, PushedOnTop
  <2> HIDE DEF m, l, n
  <2>5. m \in Lists
    BY <2>4 DEF OnTop
  <2>6. n \in States /\ n.lst = m /\ ~n.crashed
    BY <1>2, <1>7, <2>1, <2>5
  <2>7. Updated(n.lst, l, a, int3)
    BY <1>7, <2>4, <2>6 DEF Updated, Entered1
  <2> QED
    BY <1>7, <2>6, <2>7 DEF n, l
<1> QED
  BY <1>1, <1>3, <1>4, <1>5, <1>6, <1>7

-------------------------------------------------------------------------
(* Types.                                                                 *)

Path == Seq([fn : Nat, jmp : BOOLEAN])
Frame == [back : Code, list : Path, listed : BOOLEAN]
Doubts == {"astray", "covered", "edge", "plt", "quick", "reread", "self",
           "stripped", "wide"}

(* No breakpoint is enabled and disabled, or disabled twice.              *)
Off == /\ off \in Seq(BreakAddrs)
       /\ \A i, j \in 1 .. Len(off) : off[i] = off[j] => i = j
       /\ armed \subseteq BreakAddrs
       /\ \A i \in 1 .. Len(off) : off[i] \notin armed

(* TypeOK, as a step needs it: the places of the slave are mapped.        *)
IType ==
    /\ Types /\ pc \in Code /\ frames \in Seq(Frame) /\ Len(frames) > 0
    /\ mode \in {"stop", "cont", "trap", "watch", "signal", "exited"}
    /\ Off
    /\ lst \in Lists /\ crashed \in BOOLEAN
    /\ last \in Seq(Code) /\ Len(last) = 2
    /\ returned \in BOOLEAN
    /\ runs \in 0 .. MaxRuns /\ doubt \subseteq Doubts

(* A call noted for the history has its type. *)
LEMMA FnOfType ==
    ASSUME Types, NEW a \in Code, NEW j \in BOOLEAN
    PROVE  In(a, j) \in [fn : Nat, jmp : BOOLEAN]
<1>1. FntNew(a) \in EntryAt
  BY FntNewShape
<1> DEFINE e == FntNew(a)
<1>2. FnOf(a) = IF e.unknown THEN 0 ELSE e.start
  BY DEF FnOf
<1> HIDE DEF e
<1>3. FnOf(a) \in Nat
  <2>1. e \in EntryAt
    BY <1>1 DEF e
  <2>2. e.start \in Code
    BY <2>1 DEF EntryAt
  <2>3. e.start \in Nat
    BY <2>2, ProgramAssumption
  <2> QED
    BY <1>2, <2>3
<1> QED
  BY <1>3 DEF In

(* The slave's next instruction is in its code, whatever it executes.     *)
LEMMA ExecuteType ==
    ASSUME IType, Execute
    PROVE  /\ pc' \in Code /\ frames' \in Seq(Frame) /\ Len(frames') > 0
           /\ returned' \in BOOLEAN
<1> USE DEF IType
<1>1. /\ code[pc].to \in Code /\ code[pc].next \in Code
      /\ \A b \in armed : b \in Code /\ b + 1 \in Code
  BY ProgramAssumption DEF Types, code, Off
<1>2. /\ Len(frames) \in Nat /\ frames \in Seq(Frame) /\ frames # << >>
      /\ DOMAIN frames = 1 .. Len(frames)
      /\ frames[1] \in Frame
  BY EmptySeq
<1>3. frames[1].back \in Code /\ frames[1].list \in Path
  BY <1>2 DEF Frame
<1>4. ASSUME NEW f \in Frame
      PROVE  <<f>> \o frames \in Seq(Frame) /\ Len(<<f>> \o frames) > 0
  <2>1. <<f>> \in Seq(Frame) /\ Len(<<f>>) = 1
    OBVIOUS
  <2> QED
    BY <1>2, <2>1, ConcatProperties
<1>5. CASE Call
  <2>1. pc' \in Code /\ returned' = FALSE
    BY <1>1, <1>5 DEF Call
  <2> DEFINE x == In(pc', FALSE)
             p == IF FnOf(pc') = FnOf(pc) THEN frames[1].list
                  ELSE <<x>> \o frames[1].list
             f == [back |-> code[pc].next, listed |-> FnOf(pc') # FnOf(pc),
                   list |-> p]
  <2>2. p \in Path
    <3>1. x \in [fn : Nat, jmp : BOOLEAN]
      BY <2>1, FnOfType
    <3> HIDE DEF x
    <3>2. <<x>> \in Path
      BY <3>1 DEF Path
    <3>3. <<x>> \o frames[1].list \in Path
      BY <1>3, <3>2, ConcatProperties DEF Path
    <3> QED
      BY <1>3, <3>3
  <2>3. frames' = <<f>> \o frames
    BY <1>5 DEF Call
  <2> HIDE DEF p
  <2>4. f \in Frame
    BY <1>1, <2>2 DEF Frame
  <2> HIDE DEF f
  <2> QED
    BY <1>4, <2>1, <2>3, <2>4
<1>6. CASE Ret
  <2>1. Len(frames) > 1 /\ pc' = frames[1].back /\ frames' = Tail(frames)
        /\ returned' = TRUE
    BY <1>6 DEF Ret
  <2>2. Tail(frames) \in Seq(Frame) /\ Len(Tail(frames)) = Len(frames) - 1
    BY <1>2, HeadTailProperties
  <2> QED
    BY <1>2, <1>3, <2>1, <2>2
<1>7. CASE GoOn
  <2>1. pc' \in Code /\ returned' = FALSE
    BY <1>1, <1>7 DEF GoOn
  <2>2. In(pc', TRUE) \in [fn : Nat, jmp : BOOLEAN]
    BY <2>1, FnOfType
  <2> DEFINE p == <<In(pc', TRUE)>> \o frames[1].list
             g == [frames EXCEPT ![1].list = <<In(pc', TRUE)>> \o @]
  <2>3. p \in Path
    <3> DEFINE x == In(pc', TRUE)
    <3>1. x \in [fn : Nat, jmp : BOOLEAN]
      BY <2>2
    <3> HIDE DEF x
    <3>2. <<x>> \in Path
      BY <3>1 DEF Path
    <3>3. <<x>> \o frames[1].list \in Path
      BY <1>3, <3>2, ConcatProperties DEF Path
    <3> QED
      BY <3>3 DEF x
  <2>4. g = [frames EXCEPT ![1] = [frames[1] EXCEPT !.list = p]]
    BY <1>2
  <2> HIDE DEF p
  <2>5. [frames[1] EXCEPT !.list = p] \in Frame
    BY <1>2, <2>3 DEF Frame
  <2>6. g \in Seq(Frame) /\ Len(g) = Len(frames)
    <3> DEFINE f == [frames[1] EXCEPT !.list = p]
    <3>1. g = [frames EXCEPT ![1] = f] /\ f \in Frame
      BY <2>4, <2>5
    <3> HIDE DEF f, g
    <3> QED
      BY <1>2, <3>1
  <2>7. frames' \in {frames, g}
    BY <1>7 DEF GoOn
  <2> HIDE DEF g
  <2> QED
    BY <2>1, <2>6, <2>7
<1>8. CASE pc \in armed /\ pc' = pc + 1 /\ UNCHANGED <<frames, returned>>
  BY <1>1, <1>8
<1> QED
  BY <1>5, <1>6, <1>7, <1>8 DEF Execute

(* restore_bp, and a breakpoint taken off and put on d_sbp.               *)
LEMMA RestoreOneType ==
    ASSUME Off, RestoreOne
    PROVE  Off'
<1>1. CASE off = << >>
  BY <1>1 DEF Off, RestoreOne
<1>2. CASE off # << >>
  <2>1. /\ off \in Seq(BreakAddrs) /\ Len(off) \in Nat /\ Len(off) # 0
        /\ armed' = armed \cup {Head(off)} /\ off' = Tail(off)
    BY <1>2, EmptySeq DEF Off, RestoreOne
  <2> DEFINE t == Tail(off)
  <2>2. /\ Head(off) = off[1] /\ off[1] \in BreakAddrs
        /\ t \in Seq(BreakAddrs) /\ Len(t) = Len(off) - 1
        /\ \A i \in 1 .. Len(t) : t[i] = off[i + 1]
    BY <1>2, <2>1, HeadTailProperties
  <2> HIDE DEF t
  <2>3. \A i \in 1 .. Len(t) : /\ i + 1 \in 1 .. Len(off) /\ i + 1 # 1
                               /\ 1 \in 1 .. Len(off)
    BY <2>1, <2>2
  <2>4. \A i \in 1 .. Len(t) : t[i] # off[1] /\ t[i] \notin armed
    BY <2>2, <2>3 DEF Off
  <2>5. \A i, j \in 1 .. Len(t) : t[i] = t[j] => i = j
    <3> SUFFICES ASSUME NEW i \in 1 .. Len(t), NEW j \in 1 .. Len(t),
                        t[i] = t[j]
                 PROVE  i = j
      OBVIOUS
    <3>1. off[i + 1] = off[j + 1]
      BY <2>2
    <3>2. i + 1 = j + 1
      BY <2>3, <3>1 DEF Off
    <3> QED
      BY <3>2
  <2>6. off' = t /\ armed' = armed \cup {off[1]}
    BY <2>1, <2>2 DEF t
  <2>7. \A i \in 1 .. Len(t) : t[i] \notin armed'
    BY <2>4, <2>6
  <2>8. armed' \subseteq BreakAddrs
    BY <2>2, <2>6 DEF Off
  <2> QED
    BY <2>2, <2>5, <2>6, <2>7, <2>8 DEF Off
<1> QED
  BY <1>1, <1>2

(* Taking a breakpoint off the enabled ones puts it behind the disabled. *)
LEMMA DisableType ==
    ASSUME Off, NEW b \in armed, armed' = armed \ {b}, off' = Append(off, b)
    PROVE  Off'
<1> DEFINE t == Append(off, b)
<1>1. off \in Seq(BreakAddrs) /\ Len(off) \in Nat /\ b \in BreakAddrs
  BY DEF Off
<1>2. t \in Seq(BreakAddrs) /\ Len(t) = Len(off) + 1 /\ t[Len(off) + 1] = b
      /\ \A i \in 1 .. Len(off) : t[i] = off[i]
  BY <1>1, AppendProperties
<1> HIDE DEF t
<1>3. \A i \in 1 .. Len(t) : i \in 1 .. Len(off) \/ i = Len(off) + 1
  BY <1>1, <1>2
<1>4. \A i \in 1 .. Len(t) : t[i] \notin armed \ {b}
  BY <1>2, <1>3 DEF Off
<1>5. \A i \in 1 .. Len(off) : t[i] # b
  BY <1>2 DEF Off
<1>6. \A i, j \in 1 .. Len(t) : t[i] = t[j] => i = j
  <2> SUFFICES ASSUME NEW i \in 1 .. Len(t), NEW j \in 1 .. Len(t), t[i] = t[j]
               PROVE  i = j
    OBVIOUS
  <2>1. CASE i \in 1 .. Len(off) /\ j \in 1 .. Len(off)
    BY <1>2, <2>1 DEF Off
  <2> QED
    BY <1>2, <1>3, <1>5, <2>1
<1>7. off' = t
  BY DEF t
<1>8. armed \ {b} \subseteq BreakAddrs
  BY DEF Off
<1> QED
  BY <1>2, <1>4, <1>6, <1>7, <1>8 DEF Off

(* A breakpoint that is hit is enabled and at an instruction. *)
LEMMA HitInCode ==
    ASSUME IType, NEW b \in Hit(pc)
    PROVE  b \in armed /\ b \in Code /\ (b = pc \/ pc \notin armed)
<1>1. b \in armed /\ (b = pc \/ pc \notin armed)
  BY DEF Hit
<1>2. armed \subseteq BreakAddrs
  BY DEF IType, Off
<1> QED
  BY <1>1, <1>2, ProgramAssumption

(* The three updates of a stop, the two of a watchpoint, and the one.     *)
Once == UpdateFunc(List, pc, armed)
Twice == UpdateFunc(Once, pc, armed)
Thrice(b) == UpdateFunc(Twice, b, armed \ {b})

(* Every list that a stop goes through has its type. *)
LEMMA UpdateTypes ==
    ASSUME IType
    PROVE  /\ List \in States /\ List.lst = lst /\ List.crashed = crashed
           /\ Once \in States /\ Twice \in States
           /\ \A b \in Hit(pc) : Thrice(b) \in States
<1>1. List \in States /\ List.lst = lst /\ List.crashed = crashed
  BY DEF IType, List, States
<1>2. Types /\ pc \in Code
  BY DEF IType
<1>3. Once \in States
  BY <1>1, <1>2, UpdateCases DEF Once
<1>4. Twice \in States
  BY <1>2, <1>3, UpdateCases DEF Twice
<1>5. \A b \in Hit(pc) : Thrice(b) \in States
  BY <1>2, <1>4, HitInCode, UpdateCases DEF Thrice
<1> QED
  BY <1>1, <1>3, <1>4, <1>5

(* The types hold first and after each step, and give TypeOK. *)
LEMMA ITypeInit == Init => IType
<1> SUFFICES ASSUME Init PROVE IType
  OBVIOUS
<1>1. Entry \in Code
  BY ProgramAssumption
<1>2. Types
  <2>1. prog \in DOMAIN Programs /\ stripped \in BOOLEAN
        /\ fsym = IF stripped THEN Fsym(prog) ELSE << >>
    BY DEF Init
  <2>2. Fsym(prog) \in Seq(Code \cup {0})
    BY <2>1, FsymType
  <2>3. << >> \in Seq(Code \cup {0})
    OBVIOUS
  <2> QED
    BY <2>1, <2>2, <2>3 DEF Types
<1>3. lst \in Lists
  <2>1. lst = <<Entry1(<< >>, Entry, {})>> \o << >>
    BY DEF Init, Pushed, Entry1, Jumped
  <2>2. << >> \in Lists /\ Entry1(<< >>, Entry, {}) \in EntryAt
    BY <1>1, <1>2, EntryTypes DEF Lists
  <2> QED
    BY <2>1, <2>2, PushedOnTop DEF OnTop
<1>4. frames \in Seq(Frame) /\ Len(frames) > 0
  <2> DEFINE x == In(Entry, FALSE)
             f == [back |-> Entry, list |-> <<x>>, listed |-> TRUE]
  <2>1. x \in [fn : Nat, jmp : BOOLEAN]
    BY <1>1, <1>2, FnOfType
  <2>2. frames = <<f>>
    BY DEF Init
  <2> HIDE DEF x
  <2>3. <<x>> \in Path
    BY <2>1 DEF Path
  <2>4. f \in Frame
    BY <1>1, <2>3 DEF Frame
  <2> HIDE DEF f
  <2> QED
    BY <2>2, <2>4
<1>5. doubt \subseteq Doubts
  BY DEF Init, Plt, Doubts
<1>6. Off
  BY DEF Init, Off
<1>7. last \in Seq(Code) /\ Len(last) = 2
  BY <1>1 DEF Init
<1>8. 0 \in 0 .. MaxRuns
  BY BoundAssumption
<1> QED
  BY <1>1, <1>2, <1>3, <1>4, <1>5, <1>6, <1>7, <1>8 DEF Init, IType

LEMMA ITypeStep == IType /\ [Next]_vars => IType'
<1> SUFFICES ASSUME IType, [Next]_vars PROVE IType'
  OBVIOUS
<1>1. ASSUME UNCHANGED programVars PROVE Types'
  BY <1>1 DEF IType, Types, programVars
<1>2. ASSUME UNCHANGED listVars
      PROVE  /\ (lst \in Lists)' /\ (crashed \in BOOLEAN)'
             /\ (last \in Seq(Code) /\ Len(last) = 2)'
  BY <1>2 DEF IType, listVars
<1>3. ASSUME UNCHANGED <<pc, frames, returned>>
      PROVE  /\ pc' \in Code /\ frames' \in Seq(Frame) /\ Len(frames') > 0
             /\ returned' \in BOOLEAN
  BY <1>3 DEF IType
<1>4. ASSUME UNCHANGED <<armed, off>> PROVE Off'
  BY <1>4 DEF IType, Off
<1>5. /\ \A a : Plt(a) \subseteq Doubts /\ Reread(a) \subseteq Doubts
      /\ \A a : Wide(a) \subseteq Doubts
      /\ Covered \subseteq Doubts /\ Hidden \subseteq Doubts
      /\ doubt \subseteq Doubts
  BY DEF Plt, Reread, Covered, Hidden, Wide, Doubts, IType
<1>6. \A x, y \in Code : <<x, y>> \in Seq(Code) /\ Len(<<x, y>>) = 2
  OBVIOUS
<1>7. ASSUME NEW n \in States, Becomes(n)
      PROVE  lst' \in Lists /\ crashed' \in BOOLEAN
  BY <1>7 DEF Becomes, States
<1>8. CASE Step
  <2>1. UNCHANGED <<programVars, armed, off, listVars, runs>>
        /\ mode' \in {"trap", "signal"}
    BY <1>8 DEF Step
  <2>2. doubt' \subseteq Doubts
    BY <1>5, <1>8 DEF Step
  <2>3. /\ pc' \in Code /\ frames' \in Seq(Frame) /\ Len(frames') > 0
        /\ returned' \in BOOLEAN
    <3>1. Execute \/ UNCHANGED <<pc, frames, returned>>
      BY <1>8 DEF Step
    <3> QED
      BY <1>3, <3>1, ExecuteType
  <2>4. runs' \in 0 .. MaxRuns
    BY <2>1 DEF IType
  <2> QED
    BY <1>1, <1>2, <1>4, <2>1, <2>2, <2>3, <2>4 DEF IType
<1>9. CASE BlindCont
  <2>1. UNCHANGED <<programVars, listVars, doubt>> /\ mode' = "cont"
        /\ runs' = runs + 1 /\ runs < MaxRuns
    BY <1>9 DEF BlindCont
  <2>2. /\ pc' \in Code /\ frames' \in Seq(Frame) /\ Len(frames') > 0
        /\ returned' \in BOOLEAN
    <3>1. Execute \/ UNCHANGED <<pc, frames, returned>>
      BY <1>9 DEF BlindCont
    <3> QED
      BY <1>3, <3>1, ExecuteType
  <2>3. Off'
    BY <1>9, RestoreOneType DEF BlindCont, IType
  <2>4. runs' \in 0 .. MaxRuns
    BY <2>1, BoundAssumption DEF IType
  <2>5. doubt' \subseteq Doubts
    BY <1>5, <2>1
  <2> QED
    BY <1>1, <1>2, <2>1, <2>2, <2>3, <2>4, <2>5 DEF IType
<1>10. CASE Run
  <2>1. UNCHANGED <<programVars, armed, off, listVars, runs, doubt>>
        /\ mode' \in {"trap", "cont", "watch", "signal"}
    BY <1>10 DEF Run
  <2>2. /\ pc' \in Code /\ frames' \in Seq(Frame) /\ Len(frames') > 0
        /\ returned' \in BOOLEAN
    <3>1. Execute \/ UNCHANGED <<pc, frames, returned>>
      BY <1>10 DEF Run
    <3> QED
      BY <1>3, <3>1, ExecuteType
  <2>3. runs' \in 0 .. MaxRuns /\ doubt' \subseteq Doubts
    BY <1>5, <2>1 DEF IType
  <2> QED
    BY <1>1, <1>2, <1>4, <2>1, <2>2, <2>3 DEF IType
<1>11. CASE Exit
  <2>1. UNCHANGED <<programVars, pc, frames, armed, off, listVars, returned,
                    runs, doubt>> /\ mode' = "exited"
    BY <1>11 DEF Exit, slaveVars
  <2>2. runs' \in 0 .. MaxRuns /\ doubt' \subseteq Doubts
    BY <1>5, <2>1 DEF IType
  <2> QED
    BY <1>1, <1>2, <1>3, <1>4, <2>1, <2>2 DEF IType
<1>12. ASSUME NEW a \in BreakAddrs, NewSbp(a) PROVE IType'
  <2>1. UNCHANGED <<programVars, pc, frames, mode, off, listVars, returned,
                    runs, doubt>>
    BY <1>12 DEF NewSbp, slaveVars
  <2>2. Off'
    <3>1. armed' = armed \cup {a} /\ off' = off /\ a \notin ToSet(off)
      BY <1>12 DEF NewSbp
    <3>2. \A i \in 1 .. Len(off) : off[i] # a
      <4>1. DOMAIN off = 1 .. Len(off)
        BY DEF IType, Off
      <4> QED
        BY <3>1, <4>1 DEF ToSet
    <3> QED
      BY <3>1, <3>2 DEF IType, Off
  <2>3. runs' \in 0 .. MaxRuns /\ doubt' \subseteq Doubts
        /\ mode' \in {"stop", "cont", "trap", "watch", "signal", "exited"}
    BY <1>5, <2>1 DEF IType
  <2> QED
    BY <1>1, <1>2, <1>3, <2>1, <2>2, <2>3 DEF IType
<1>13. CASE TakeBreak
  <2>1. PICK b \in Hit(pc) :
          /\ Becomes(Thrice(b))
          /\ pc' = b /\ last' = <<pc, b>>
          /\ armed' = armed \ {b} /\ off' = Append(off, b)
          /\ doubt' = doubt \cup Plt(pc) \cup Plt(b) \cup Reread(pc) \cup Covered
                       \cup Wide(pc) \cup Wide(b)
                       \cup (IF FnOf(pc) = FnOf(b) THEN {} ELSE {"edge"})
    BY <1>13 DEF TakeBreak, Thrice, Twice, Once
  <2>2. b \in armed /\ b \in Code /\ pc \in Code
    BY HitInCode DEF IType
  <2>3. lst' \in Lists /\ crashed' \in BOOLEAN
    BY <1>7, <2>1, UpdateTypes
  <2>4. Off'
    BY <2>1, <2>2, DisableType DEF IType
  <2>5. doubt' \subseteq Doubts
    <3>1. (IF FnOf(pc) = FnOf(b) THEN {} ELSE {"edge"}) \subseteq Doubts
      BY DEF Doubts
    <3> QED
      BY <1>5, <2>1, <3>1
  <2>6. last' \in Seq(Code) /\ Len(last') = 2
    BY <1>6, <2>1, <2>2
  <2>7. UNCHANGED <<programVars, frames, returned, runs>> /\ mode' = "stop"
    BY <1>13 DEF TakeBreak
  <2>8. /\ frames' \in Seq(Frame) /\ Len(frames') > 0 /\ returned' \in BOOLEAN
        /\ runs' \in 0 .. MaxRuns /\ pc' \in Code
    BY <2>1, <2>2, <2>7 DEF IType
  <2> QED
    BY <1>1, <2>3, <2>4, <2>5, <2>6, <2>7, <2>8 DEF IType
<1>14. CASE TakeWatch
  <2>1. /\ Becomes(Twice) /\ last' = <<pc, pc>> /\ mode' = "stop"
        /\ doubt' = doubt \cup Plt(pc) \cup Reread(pc) \cup Covered \cup Wide(pc)
        /\ UNCHANGED <<programVars, pc, frames, armed, off, returned, runs>>
    BY <1>14 DEF TakeWatch, Twice, Once, slaveVars
  <2>2. lst' \in Lists /\ crashed' \in BOOLEAN
    BY <1>7, <2>1, UpdateTypes
  <2>3. last' \in Seq(Code) /\ Len(last') = 2 /\ runs' \in 0 .. MaxRuns
    BY <1>6, <2>1 DEF IType
  <2>4. doubt' \subseteq Doubts
    BY <1>5, <2>1
  <2> QED
    BY <1>1, <1>3, <1>4, <2>1, <2>2, <2>3, <2>4 DEF IType
<1>15. CASE TakeOther
  <2>1. /\ Becomes(Once) /\ last' = <<last[2], pc>> /\ mode' = "stop"
        /\ RestoreOne
        /\ doubt' = doubt \cup Plt(pc) \cup Covered \cup Wide(pc)
                     \cup (IF last[2] = pc THEN Reread(pc) ELSE {})
        /\ UNCHANGED <<programVars, pc, frames, returned, runs>>
    BY <1>15 DEF TakeOther, Once, slaveVars
  <2>2. lst' \in Lists /\ crashed' \in BOOLEAN
    BY <1>7, <2>1, UpdateTypes
  <2>3. last' \in Seq(Code) /\ Len(last') = 2 /\ runs' \in 0 .. MaxRuns
    <3>0. last \in Seq(Code) /\ Len(last) = 2
      BY DEF IType
    <3>1. last[2] \in Code /\ pc \in Code
      <4>1. last[2] \in Code
        BY <3>0
      <4> QED
        BY <4>1 DEF IType
    <3>2. runs' \in 0 .. MaxRuns
      BY <2>1 DEF IType
    <3> QED
      BY <1>6, <2>1, <3>1, <3>2
  <2>4. doubt' \subseteq Doubts
    <3>1. (IF last[2] = pc THEN Reread(pc) ELSE {}) \subseteq Doubts
      BY <1>5
    <3> QED
      BY <1>5, <2>1, <3>1
  <2>5. Off'
    BY <2>1, RestoreOneType DEF IType
  <2> QED
    BY <1>1, <1>3, <2>1, <2>2, <2>3, <2>4, <2>5 DEF IType
<1>16. CASE UNCHANGED vars
  <2>1. UNCHANGED <<programVars, pc, frames, armed, off, listVars, returned,
                    runs, doubt, mode>>
    BY <1>16 DEF vars, slaveVars
  <2>2. runs' \in 0 .. MaxRuns /\ doubt' \subseteq Doubts
        /\ mode' \in {"stop", "cont", "trap", "watch", "signal", "exited"}
    BY <2>1 DEF IType
  <2> QED
    BY <1>1, <1>2, <1>3, <1>4, <2>1, <2>2 DEF IType
<1> QED
  BY <1>8, <1>9, <1>10, <1>11, <1>12, <1>13, <1>14, <1>15, <1>16 DEF Next

LEMMA ITypeImplies == IType => TypeOK
<1> SUFFICES ASSUME IType PROVE TypeOK
  OBVIOUS
<1>1. pc \in Nat /\ \A x \in Code : x \in Nat
  BY ProgramAssumption DEF IType
<1>2. EntryAt \subseteq Entries
  BY <1>1 DEF EntryAt, Entries
<1>3. lst \in Seq(Entries)
  BY <1>2 DEF IType, Lists
<1>4. /\ DOMAIN off = 1 .. Len(off)
      /\ \A i \in 1 .. Len(off) : off[i] \in BreakAddrs
  BY DEF IType, Off
<1>5. ToSet(off) \subseteq BreakAddrs /\ armed \cap ToSet(off) = {}
  BY <1>4 DEF ToSet, IType, Off
<1> QED
  BY <1>1, <1>3, <1>5 DEF IType, TypeOK, Types, Off, Doubts

LEMMA ITypeAlways == Spec => []IType
  BY ITypeInit, ITypeStep, PTL DEF Spec

(* Every variable keeps its type.                                         *)
THEOREM TypeCorrect == Spec => []TypeOK
  BY ITypeAlways, ITypeImplies, PTL

-------------------------------------------------------------------------
(* Off the end of the list.                                               *)

(* The oldest entry is no jump, so a walk over the jumps ends there.      *)
BottomCall(l) == Len(l) > 0 => ~l[Len(l)].jmp

(* So no return walks off a list whose oldest entry is no jump. *)
LEMMA NotOffItsEnd ==
    ASSUME NEW l \in Lists, BottomCall(l), NEW a, NEW int3
    PROVE  ~OffItsEnd(l, a, int3)
<1> SUFFICES ASSUME Returns(l, int3), DropJumps(l) = << >> PROVE FALSE
  BY DEF OffItsEnd
<1>1. Len(l) \in Nat /\ Len(l) >= 2
  BY DEF Returns, Lists
<1>2. PICK k \in 1 .. Len(l) + 1 :
          From(DropJumps(l), l, k) /\ \A i \in 1 .. k - 1 : l[i].jmp
  BY DropJumpsFrom
<1>3. Len(DropJumps(l)) = Len(l) - k + 1
  BY <1>2 DEF From
<1>4. Len(DropJumps(l)) = 0
  OBVIOUS
<1>5. Len(l) \in 1 .. k - 1
  BY <1>1, <1>3, <1>4
<1>6. l[Len(l)].jmp
  BY <1>2, <1>5
<1> QED
  BY <1>1, <1>6 DEF BottomCall

(* And an update outside the PLT leaves it no jump. *)
LEMMA BottomKept ==
    ASSUME Types, NEW l \in Lists, NEW m \in Lists, NEW a \in Code, NEW int3,
           Updated(m, l, a, int3), BottomCall(l), FntPltSym(a) = {}
    PROVE  BottomCall(m)
<1>1. Len(l) \in Nat /\ Len(m) \in Nat
      /\ \A i \in 1 .. Len(l) : l[i] \in EntryAt
  BY DEF Lists
<1>2. \A e \in EntryAt : Seen1(e, a).jmp = e.jmp /\ Seen2(e, a).jmp = e.jmp
  BY DEF Seen1, Seen2, EntryAt
<1>3. ASSUME NEW e, WithTop(m, l, e), l[1] \in EntryAt => e.jmp = l[1].jmp
      PROVE  BottomCall(m)
  <2>1. Len(m) = Len(l) /\ m[1] = e /\ \A i \in 2 .. Len(l) : m[i] = l[i]
    BY <1>3 DEF WithTop
  <2>2. CASE Len(l) > 1
    <3>1. Len(l) \in 2 .. Len(l)
      BY <1>1, <2>2
    <3> QED
      BY <2>1, <2>2, <3>1 DEF BottomCall
  <2>3. CASE Len(l) = 1
    <3>1. l[1] \in EntryAt /\ e.jmp = l[1].jmp
      BY <1>1, <1>3, <2>3
    <3>2. ~l[1].jmp
      BY <2>3 DEF BottomCall
    <3>3. ~e.jmp
      BY <3>1, <3>2, Zenon
    <3>4. m[Len(m)] = e
      BY <2>1, <2>3
    <3>5. ~m[Len(m)].jmp
      BY <3>3, <3>4, Zenon
    <3> QED
      BY <3>5 DEF BottomCall
  <2>4. CASE Len(l) = 0
    BY <2>1, <2>4 DEF BottomCall
  <2>5. \A n \in Nat : n = 0 \/ n = 1 \/ n > 1
    OBVIOUS
  <2> QED
    BY <1>1, <2>2, <2>3, <2>4, <2>5, Zenon
<1>4. CASE Patched(m, l, a)
  BY <1>2, <1>3, <1>4 DEF Patched
<1>5. CASE Stayed(m, l, a)
  BY <1>2, <1>3, <1>5 DEF Stayed
<1>6. CASE Returned(m, l, int3)
  <2>1. PICK k \in 2 .. Len(l) + 1 : From(m, l, k)
    BY <1>6 DEF Returned
  <2>2. Len(m) = Len(l) - k + 1 /\ \A i \in 1 .. Len(m) : m[i] = l[i + k - 1]
    BY <2>1 DEF From
  <2>3. Len(m) > 0 => Len(m) \in 1 .. Len(m) /\ Len(m) + k - 1 = Len(l)
                      /\ Len(l) > 0
    BY <1>1, <2>1, <2>2
  <2> QED
    BY <1>1, <2>2, <2>3 DEF BottomCall
<1>7. CASE Entered1(m, l, a, int3)
  <2>1. Len(m) = Len(l) + 1 /\ m[1] = Entry1(l, a, int3)
        /\ \A i \in 1 .. Len(l) : m[i + 1] = l[i]
    BY <1>7 DEF Entered1, OnTop
  <2>2. CASE Len(l) > 0
    <3>1. Len(l) \in 1 .. Len(l)
      BY <1>1, <2>2
    <3>2. m[Len(m)] = l[Len(l)]
      BY <2>1, <3>1
    <3> QED
      BY <2>2, <3>2 DEF BottomCall
  <2>3. CASE Len(l) = 0
    <3>1. l = << >>
      BY <1>1, <2>3, EmptySeq DEF Lists
    <3>2. ~Jumped(l, int3)
      BY <3>1 DEF Jumped
    <3> DEFINE e == FntNew(a)
    <3>3. e \in EntryAt /\ ~e.jmp
      BY FntNewShape
    <3>4. Entry1(l, a, int3) = [e EXCEPT !.jmp = @ \/ Jumped(l, int3)]
      BY DEF Entry1
    <3> HIDE DEF e
    <3>5. ~Entry1(l, a, int3).jmp
      BY <3>2, <3>3, <3>4 DEF EntryAt
    <3> QED
      BY <2>1, <2>3, <3>5 DEF BottomCall
  <2> QED
    BY <1>1, <2>2, <2>3
<1> QED
  BY <1>4, <1>5, <1>6, <1>7 DEF Updated

(* Therefore an update outside the PLT neither crashes nor leaves a list  *)
(* on which the next could.                                               *)
LEMMA UpdateKeepsBottom ==
    ASSUME Types, NEW st \in States, NEW a \in Code, NEW int3,
           ~st.crashed, BottomCall(st.lst), FntPltSym(a) = {}
    PROVE  /\ ~UpdateFunc(st, a, int3).crashed
           /\ BottomCall(UpdateFunc(st, a, int3).lst)
<1>1. UpdateFunc(st, a, int3) \in States
  BY UpdateCases
<1>2. st.lst \in Lists /\ UpdateFunc(st, a, int3).lst \in Lists
  BY <1>1 DEF States
<1>3. ~UpdateFunc(st, a, int3).crashed
      /\ Updated(UpdateFunc(st, a, int3).lst, st.lst, a, int3)
  BY <1>2, UpdateCases, NotOffItsEnd
<1> QED
  BY <1>2, <1>3, BottomKept

NoPlt == "plt" \notin doubt => ~crashed /\ BottomCall(lst)

(* As long as no entry of the PLT was listed, first and after each step. *)
LEMMA NoPltInit == Init => NoPlt
<1> SUFFICES ASSUME Init PROVE NoPlt
  OBVIOUS
<1>1. IType
  BY ITypeInit
<1> SUFFICES ASSUME "plt" \notin doubt PROVE NoPlt
  BY DEF NoPlt
<1>2. FntPltSym(Entry) = {}
  BY DEF Init, Plt
<1>3. Entry \in Code
  BY ProgramAssumption
<1> DEFINE e == FntNew(Entry)
<1>4. e \in EntryAt /\ ~e.jmp
  BY <1>1, <1>2, <1>3, FntNewShape DEF IType
<1>5. lst = <<[e EXCEPT !.jmp = @ \/ FALSE]>> \o << >>
  BY DEF Init, Pushed
<1> HIDE DEF e
<1> DEFINE f == [e EXCEPT !.jmp = @ \/ FALSE]
<1>6. ~f.jmp /\ f \in EntryAt
  BY <1>4 DEF EntryAt
<1>7. lst = <<f>> \o << >>
  BY <1>5
<1> HIDE DEF f
<1>8. Len(lst) = 1 /\ lst[1] = f
  <2>1. << >> \in Lists /\ Len(<< >>) = 0
    BY DEF Lists
  <2> QED
    BY <1>6, <1>7, <2>1, PushedOnTop DEF OnTop
<1> QED
  BY <1>6, <1>8 DEF NoPlt, BottomCall, Init

LEMMA NoPltStep == IType /\ NoPlt /\ [Next]_vars => NoPlt'
<1> SUFFICES ASSUME IType, NoPlt, [Next]_vars, "plt" \notin doubt'
             PROVE  ~crashed' /\ BottomCall(lst')
  BY DEF NoPlt
<1>1. ASSUME UNCHANGED listVars, doubt \subseteq doubt'
      PROVE  ~crashed' /\ BottomCall(lst')
  BY <1>1 DEF NoPlt, listVars
<1>2. Types /\ pc \in Code
  BY DEF IType
<1>3. ASSUME "plt" \notin doubt, "plt" \notin Plt(pc)
      PROVE  /\ FntPltSym(pc) = {} /\ ~List.crashed /\ BottomCall(List.lst)
             /\ ~Once.crashed /\ BottomCall(Once.lst)
             /\ ~Twice.crashed /\ BottomCall(Twice.lst)
  <2>1. FntPltSym(pc) = {}
    BY <1>3 DEF Plt
  <2>2. ~List.crashed /\ BottomCall(List.lst)
    BY <1>3, UpdateTypes DEF NoPlt
  <2>3. ~Once.crashed /\ BottomCall(Once.lst)
    BY <1>2, <2>1, <2>2, UpdateTypes, UpdateKeepsBottom DEF Once
  <2>4. ~Twice.crashed /\ BottomCall(Twice.lst)
    BY <1>2, <2>1, <2>3, UpdateTypes, UpdateKeepsBottom DEF Twice
  <2> QED
    BY <2>1, <2>2, <2>3, <2>4
<1>4. CASE TakeBreak
  <2>1. PICK b \in Hit(pc) :
          /\ Becomes(Thrice(b))
          /\ doubt' = doubt \cup Plt(pc) \cup Plt(b) \cup Reread(pc) \cup Covered
                       \cup Wide(pc) \cup Wide(b)
                       \cup (IF FnOf(pc) = FnOf(b) THEN {} ELSE {"edge"})
    BY <1>4 DEF TakeBreak, Thrice, Twice, Once
  <2>2. "plt" \notin doubt /\ "plt" \notin Plt(pc) /\ "plt" \notin Plt(b)
    BY <2>1
  <2>3. FntPltSym(b) = {} /\ b \in Code
    BY <2>2, HitInCode DEF Plt
  <2>4. ~Thrice(b).crashed /\ BottomCall(Thrice(b).lst)
    BY <1>2, <1>3, <2>2, <2>3, UpdateTypes, UpdateKeepsBottom DEF Thrice
  <2> QED
    BY <2>1, <2>4 DEF Becomes
<1>5. CASE TakeWatch
  <2>1. Becomes(Twice)
        /\ doubt' = doubt \cup Plt(pc) \cup Reread(pc) \cup Covered \cup Wide(pc)
    BY <1>5 DEF TakeWatch, Twice, Once
  <2> QED
    BY <1>3, <2>1 DEF Becomes
<1>6. CASE TakeOther
  <2>1. Becomes(Once)
        /\ doubt' = doubt \cup Plt(pc) \cup Covered \cup Wide(pc)
                     \cup (IF last[2] = pc THEN Reread(pc) ELSE {})
    BY <1>6 DEF TakeOther, Once
  <2> QED
    BY <1>3, <2>1 DEF Becomes
<1>7. CASE Step
  BY <1>1, <1>7 DEF Step
<1>8. CASE BlindCont
  BY <1>1, <1>8 DEF BlindCont
<1>9. CASE Run
  BY <1>1, <1>9 DEF Run
<1>10. CASE Exit
  BY <1>1, <1>10 DEF Exit
<1>11. ASSUME NEW a \in BreakAddrs, NewSbp(a)
       PROVE  ~crashed' /\ BottomCall(lst')
  BY <1>1, <1>11 DEF NewSbp
<1>12. CASE UNCHANGED vars
  BY <1>1, <1>12 DEF vars
<1> QED
  BY <1>4, <1>5, <1>6, <1>7, <1>8, <1>9, <1>10, <1>11, <1>12 DEF Next

(* fnt_ret runs off the end of the list only once the slave was seen in   *)
(* the PLT, whose entries count as jumps however they were come to.       *)
THEOREM WalksEndOnList == Spec => []WalksOnlyOverPlt
<1>1. NoPlt => WalksOnlyOverPlt
  BY DEF NoPlt, WalksOnlyOverPlt
<1> QED
  BY <1>1, ITypeAlways, NoPltInit, NoPltStep, PTL DEF Spec

-------------------------------------------------------------------------
(* The function an address is in, for a program that is not stripped.     *)

FoundAt(a) == IF Named[FALSE][a] # {} THEN Named[FALSE][a]
              ELSE Unsized[FALSE][a]
FntOf(a) == IF FoundAt(a) # {}
            THEN Entered(CHOOSE s \in FoundAt(a) : TRUE, a, FALSE)
            ELSE Entered([start |-> a, size |-> 0, plt |-> FALSE,
                          own |-> FALSE], a, TRUE)
FnAt(a) == IF FntOf(a).unknown THEN 0 ELSE FntOf(a).start

(* With its tables the look-up does not depend on the state. *)
LEMMA FntOfIs ==
    ASSUME Types, ~stripped, NEW a \in Code
    PROVE  FntNew(a) = FntOf(a) /\ FnOf(a) = FnAt(a) /\ Found(a) = FoundAt(a)
<1>1. stripped = FALSE /\ fsym = << >>
  BY DEF Types
<1>2. FntStripped(a) = {}
  <2>1. {i \in DOMAIN fsym : fsym[i] >= a} = {}
    BY <1>1
  <2> QED
    BY <2>1 DEF FntStripped
<1>3. Found(a) = FoundAt(a)
  BY <1>1, <1>2 DEF Found, FoundAt
<1>4. FntNew(a) = IF Found(a) # {}
                  THEN Entered(CHOOSE s \in Found(a) : TRUE, a, FALSE)
                  ELSE Entered([start |-> a, size |-> 0, plt |-> FALSE,
                                own |-> FALSE], a, TRUE)
  BY DEF FntNew, Found
<1>5. FntNew(a) = FntOf(a)
  BY <1>3, <1>4, Zenon DEF FntOf
<1> QED
  BY <1>3, <1>5 DEF FnOf, FnAt

(* A symbol with a size at whose start no table has one without; a place  *)
(* that is in none of them; a symbol as an entry of the list has it; a    *)
(* place where fnt_new finds the one with a size.                         *)
Plain == {s \in Symbols : /\ s.size > 0
                          /\ \A t \in Symbols : t.start = s.start => t.size # 0}
Free(a) == \A s \in Plain : ~Covers(s, a)
IsSymbol(e, s) == /\ s.size > 0 /\ e.start = s.start
                  /\ e.end = s.start + s.size /\ e.size = s.size
                  /\ ~e.unknown
Sure(a) == \E s \in Plain : Covers(s, a) /\ IsSymbol(FntOf(a), s)

(* A symbol starts at an instruction and its size is a number. *)
LEMMA SymbolTypes ==
    ASSUME NEW s \in Symbols
    PROVE  /\ s \in Syms /\ s.start \in Code /\ s.start \in Nat /\ s.start > 0
           /\ s.size \in Nat
<1>1. s \in Syms
  BY SymbolAssumption DEF Syms
<1>2. s.start \in Code /\ s.size \in Nat
  BY <1>1 DEF Syms
<1>3. s.start \in Nat \ {0}
  BY <1>2, ProgramAssumption
<1> QED
  BY <1>1, <1>2, <1>3

(* Symbols with a size that have a place in common are one and the same   *)
(* to an entry.                                                           *)
LEMMA Overlap ==
    ASSUME SymbolsApart, NEW s \in Symbols, NEW t \in Symbols, NEW a \in Code,
           Covers(s, a), t.start = a \/ Covers(t, a)
    PROVE  /\ t.start = s.start
           /\ t.size > 0 => t.size = s.size
           /\ t.size = 0 => a = s.start
<1>1. /\ s.start \in Nat /\ s.size \in Nat /\ t.start \in Nat /\ t.size \in Nat
      /\ a \in Nat
  BY SymbolTypes, ProgramAssumption
<1>2. CASE Covers(s, t.start)
  <2>1. t.start = s.start /\ t.size \in {0, s.size}
    BY <1>2 DEF SymbolsApart
  <2>2. ~Covers(t, a) => t.start = a
    OBVIOUS
  <2> QED
    BY <1>1, <2>1, <2>2 DEF Covers
<1>3. CASE ~Covers(s, t.start)
  <2>1. t.start < s.start /\ Covers(t, a)
    BY <1>1, <1>3 DEF Covers
  <2>2. Covers(t, s.start)
    BY <1>1, <2>1 DEF Covers
  <2>3. s.start = t.start
    BY <2>2 DEF SymbolsApart
  <2> QED
    BY <1>1, <2>1, <2>3
<1> QED
  BY <1>2, <1>3

(* Where a symbol covers an address, fnt_new finds it or one that starts  *)
(* with it.                                                               *)
LEMMA CoveredBy ==
    ASSUME SymbolsApart, NEW s \in Symbols, NEW a \in Code, Covers(s, a)
    PROVE  \E t \in Symbols : /\ FntOf(a) = Entered(t, a, FALSE)
                              /\ t.start = a \/ Covers(t, a)
<1>1. Named[FALSE][a] = IF FntPltSym(a) # {} THEN FntPltSym(a)
                        ELSE FntSym(a, FALSE)
  BY DEF Named
<1>2. Named[FALSE][a] # {}
  <2>1. CASE s.plt
    BY <1>1, <2>1 DEF FntPltSym
  <2>2. CASE ~s.plt /\ a \in Local
    <3>1. s.start \in Local
      BY <2>2 DEF SymbolsApart
    <3>2. s \in LocalTable(FALSE)
      BY <2>2, <3>1, SymbolAssumption DEF LocalTable
    <3>3. s \in FntSym(a, FALSE)
      BY <2>2, <3>2 DEF FntSym
    <3> QED
      BY <1>1, <3>3
  <2>3. CASE ~s.plt /\ a \notin Local
    <3>1. s.start \notin Local
      BY <2>3 DEF SymbolsApart
    <3>2. s \in OwnTable \/ s \in SharedTable
      BY <2>3, <3>1 DEF OwnTable, SharedTable
    <3>3. FntSym(a, FALSE) # {}
      BY <2>3, <3>2 DEF FntSym
    <3> QED
      BY <1>1, <3>3
  <2> QED
    BY <2>1, <2>2, <2>3
<1>3. \A t \in Named[FALSE][a] : t \in Symbols /\ (t.start = a \/ Covers(t, a))
  BY <1>1 DEF FntPltSym, FntSym, LocalTable, OwnTable, SharedTable
<1>4. PICK t \in FoundAt(a) : FntOf(a) = Entered(t, a, FALSE)
  BY <1>2 DEF FoundAt, FntOf
<1>5. t \in Named[FALSE][a]
  BY <1>2, <1>4 DEF FoundAt
<1> QED
  BY <1>3, <1>4, <1>5

(* A plain one is what it finds.                                          *)
LEMMA PlainFound ==
    ASSUME SymbolsApart, NEW s \in Plain, NEW a \in Code, Covers(s, a)
    PROVE  IsSymbol(FntOf(a), s)
<1>1. s \in Symbols /\ s.size > 0
      /\ \A t \in Symbols : t.start = s.start => t.size # 0
  BY DEF Plain
<1>2. PICK t \in Symbols : /\ FntOf(a) = Entered(t, a, FALSE)
                           /\ t.start = a \/ Covers(t, a)
  BY <1>1, CoveredBy
<1>3. t.start = s.start /\ t.size # 0 /\ t.size \in Nat
  BY <1>1, <1>2, Overlap, SymbolTypes
<1>4. t.size = s.size
  BY <1>1, <1>2, <1>3, Overlap
<1> QED
  BY <1>1, <1>2, <1>3, <1>4 DEF Entered, IsSymbol

(* What an entry is like when fnt_new has made it: a symbol that covers   *)
(* its address, or a place that is in no plain one.                       *)
LEMMA FntOfCases ==
    ASSUME SymbolsApart, NEW a \in Code
    PROVE  \/ \E s \in Symbols : Covers(s, a) /\ IsSymbol(FntOf(a), s)
           \/ /\ Free(a) /\ FntOf(a).size = 0 /\ Free(FntOf(a).start)
              /\ FntOf(a).end = FntOf(a).start
<1>1. a \in Nat
  BY ProgramAssumption
<1>2. CASE FoundAt(a) = {}
  <2>1. FntOf(a) = Entered([start |-> a, size |-> 0, plt |-> FALSE,
                            own |-> FALSE], a, TRUE)
    BY <1>2 DEF FntOf
  <2>2. FntOf(a).size = 0 /\ FntOf(a).start = a /\ FntOf(a).end = a
    BY <1>1, <2>1 DEF Entered
  <2>3. FntOf(a).unknown
    BY <2>1 DEF Entered
  <2>4. Free(a)
    BY <2>3, PlainFound DEF Free, IsSymbol
  <2> QED
    BY <2>2, <2>4
<1>3. CASE FoundAt(a) # {}
  <2>1. PICK t \in FoundAt(a) : FntOf(a) = Entered(t, a, FALSE)
    BY <1>3 DEF FntOf
  <2>2. Named[FALSE][a] \subseteq FntPltSym(a) \cup FntSym(a, FALSE)
        /\ Unsized[FALSE][a] = FntSymNosz(a, FALSE)
    BY DEF Named, Unsized
  <2>3. \/ t \in FntPltSym(a) \/ t \in FntSym(a, FALSE)
        \/ t \in FntSymNosz(a, FALSE)
    BY <2>2 DEF FoundAt
  <2>4. t \in Symbols
    BY <2>3 DEF FntPltSym, FntSym, FntSymNosz, LocalTable, OwnTable,
        SharedTable
  <2>5. t.start = a \/ t.size = 0 \/ Covers(t, a)
    BY <2>3 DEF FntPltSym, FntSym, FntSymNosz
  <2>6. t.start \in Nat /\ t.size \in Nat
    BY <2>4, SymbolTypes
  <2>7. /\ FntOf(a).start = t.start /\ FntOf(a).end = t.start + t.size
        /\ FntOf(a).size = t.size /\ ~FntOf(a).unknown
    BY <2>1 DEF Entered
  <2>8. CASE t.size > 0
    <3>1. Covers(t, a)
      BY <1>1, <2>5, <2>6, <2>8 DEF Covers
    <3>2. IsSymbol(FntOf(a), t)
      BY <2>7, <2>8 DEF IsSymbol
    <3> QED
      BY <2>4, <3>1, <3>2
  <2>9. CASE t.size = 0
    <3>1. ASSUME NEW s \in Plain, Covers(s, a) PROVE FALSE
      <4>1. IsSymbol(FntOf(a), s)
        BY <3>1, PlainFound
      <4> QED
        BY <2>7, <2>9, <4>1 DEF IsSymbol
    <3>2. ASSUME NEW s \in Plain, Covers(s, t.start) PROVE FALSE
      <4>1. t.start = s.start
        BY <2>4, <3>2 DEF SymbolsApart, Plain
      <4> QED
        BY <2>4, <2>9, <4>1 DEF Plain
    <3>3. Free(a) /\ Free(t.start)
      BY <3>1, <3>2 DEF Free
    <3> QED
      BY <2>6, <2>7, <2>9, <3>3
  <2> QED
    BY <2>6, <2>8, <2>9
<1> QED
  BY <1>2, <1>3

(* A place that no function without a size may be listed for.             *)
LEMMA SureIs ==
    ASSUME SymbolsApart, Types, ~stripped, NEW a \in Code, ~NoSize(a)
    PROVE  Sure(a)
<1>1. FntNew(a) = FntOf(a)
  BY FntOfIs
<1>2. FntOf(a).size # 0
      /\ \A s \in Symbols : s.start = FntOf(a).start => s.size # 0
  BY <1>1 DEF NoSize
<1>3. PICK s \in Symbols : Covers(s, a) /\ IsSymbol(FntOf(a), s)
  BY <1>2, FntOfCases
<1>4. s \in Plain
  BY <1>2, <1>3 DEF Plain, IsSymbol
<1> QED
  BY <1>3, <1>4 DEF Sure

(* Two places of one function, one of them in a plain symbol, are both in *)
(* that symbol.                                                           *)
LEMMA SameSymbol ==
    ASSUME SymbolsApart, NEW a \in Code, NEW b \in Code,
           FnAt(a) = FnAt(b), Sure(b)
    PROVE  \E s \in Plain : /\ Covers(s, a) /\ IsSymbol(FntOf(a), s)
                            /\ Covers(s, b) /\ IsSymbol(FntOf(b), s)
<1>1. PICK s \in Plain : Covers(s, b) /\ IsSymbol(FntOf(b), s)
  BY DEF Sure
<1>2. s \in Symbols
  BY DEF Plain
<1>3. FnAt(b) = s.start /\ s.start # 0
  BY <1>1, <1>2, SymbolTypes DEF FnAt, IsSymbol
<1>4. FntOf(a).start = s.start
  BY <1>3 DEF FnAt
<1>5. Covers(s, s.start)
  BY <1>1, <1>2, SymbolTypes DEF Covers, IsSymbol
<1>6. ~Free(FntOf(a).start)
  BY <1>4, <1>5 DEF Free
<1>7. PICK t \in Symbols : Covers(t, a) /\ IsSymbol(FntOf(a), t)
  BY <1>6, FntOfCases
<1>8. t.start = s.start /\ t.size > 0
  BY <1>4, <1>7 DEF IsSymbol
<1>9. t.size = s.size
  BY <1>2, <1>5, <1>8 DEF SymbolsApart
<1>10. Covers(s, a) /\ IsSymbol(FntOf(a), s)
  BY <1>7, <1>8, <1>9 DEF Covers, IsSymbol
<1> QED
  BY <1>1, <1>10

-------------------------------------------------------------------------
(* The function on top.  c stands for what the addresses decode to.       *)

(* An entry is a symbol with a size, or it covers a place from one free   *)
(* address to another: then it covers a plain one whole or not at all.    *)
Formed(e) == \/ \E s \in Symbols : IsSymbol(e, s)
             \/ e.size = 0 /\ Free(e.start) /\ Free(e.end)
AllFormed(l) == \A i \in 1 .. Len(l) : Formed(l[i])

SameAt(l, a) == l # << >> /\ SameFnt(FntOf(a), l[1])
Fits(l, a) == InTop(l, a) \/ SameAt(l, a)

(* No entry but the newest and the oldest was left at a return, the next  *)
(* update at another place will not take the top for over but where a was *)
(* in it, and int3 hides no return but the one the slave is at.           *)
Rested(c, l) == \A i \in 2 .. Len(l) - 1 : c[l[i].rip].op # "ret"
Ready(c, l, a) == Fits(l, a) \/ Len(l) < 2 \/ c[l[1].rip].op # "ret"
Clean(c, e, int3) == c[e.rip].op = "ret" => e.rip \notin int3
Readable(c, l, a, int3) ==
    \A i \in 1 .. Len(l) : \/ Clean(c, l[i], int3)
                           \/ i = 1 /\ l[1].rip = a /\ Fits(l, a)

Shown(l, b) == /\ l # << >>
               /\ \/ SameFnt(l[1], FntOf(b))
                  \/ l[1].size = 0 /\ InTop(l, b)
Current(l, a, b) ==
    FnAt(a) = FnAt(b) /\ Sure(b) => Shown(l, b)

(* Which fields of an entry a visit changes, and what a new one has. *)
LEMMA EntryFields ==
    ASSUME Types, ~stripped, NEW a \in Code
    PROVE  /\ \A e \in EntryAt :
                /\ Seen1(e, a).rip = a /\ Seen2(e, a).rip = a
                /\ Seen1(e, a).start = e.start /\ Seen2(e, a).start = e.start
                /\ Seen1(e, a).end = e.end
                /\ Seen2(e, a).end = IF e.size = 0 THEN a ELSE e.end
                /\ Seen1(e, a).size = e.size /\ Seen2(e, a).size = e.size
                /\ Seen1(e, a).unknown = e.unknown
                /\ Seen2(e, a).unknown = e.unknown
           /\ \A l, int3 :
                /\ Entry1(l, a, int3).rip = a
                /\ Entry1(l, a, int3).start = FntOf(a).start
                /\ Entry1(l, a, int3).end = FntOf(a).end
                /\ Entry1(l, a, int3).size = FntOf(a).size
                /\ Entry1(l, a, int3).unknown = FntOf(a).unknown
<1>1. \A e \in EntryAt :
                /\ Seen1(e, a).rip = a /\ Seen2(e, a).rip = a
                /\ Seen1(e, a).start = e.start /\ Seen2(e, a).start = e.start
                /\ Seen1(e, a).end = e.end
                /\ Seen2(e, a).end = IF e.size = 0 THEN a ELSE e.end
                /\ Seen1(e, a).size = e.size /\ Seen2(e, a).size = e.size
                /\ Seen1(e, a).unknown = e.unknown
                /\ Seen2(e, a).unknown = e.unknown
  BY DEF Seen1, Seen2, EntryAt
<1>2. ASSUME NEW l, NEW int3
      PROVE  /\ Entry1(l, a, int3).rip = a
             /\ Entry1(l, a, int3).start = FntOf(a).start
             /\ Entry1(l, a, int3).end = FntOf(a).end
             /\ Entry1(l, a, int3).size = FntOf(a).size
             /\ Entry1(l, a, int3).unknown = FntOf(a).unknown
  <2> DEFINE e == FntOf(a)
  <2>1. e \in EntryAt /\ e.rip = a
    BY FntNewShape, FntOfIs
  <2>2. Entry1(l, a, int3) = [e EXCEPT !.jmp = @ \/ Jumped(l, int3)]
    BY FntOfIs DEF Entry1
  <2> HIDE DEF e
  <2>3. /\ Entry1(l, a, int3).rip = e.rip
        /\ Entry1(l, a, int3).start = e.start
        /\ Entry1(l, a, int3).end = e.end
        /\ Entry1(l, a, int3).size = e.size
        /\ Entry1(l, a, int3).unknown = e.unknown
    BY <2>1, <2>2 DEF EntryAt
  <2> QED
    BY <2>1, <2>3 DEF e
<1> QED
  BY <1>1, <1>2

(* Whether an entry is well formed depends on four fields only. *)
LEMMA FormedFields ==
    ASSUME NEW e, NEW f, Formed(e), f.start = e.start, f.end = e.end,
           f.size = e.size, f.unknown = e.unknown
    PROVE  Formed(f)
<1>1. ASSUME NEW s \in Symbols, IsSymbol(e, s) PROVE IsSymbol(f, s)
  <2>1. ~f.unknown
    BY <1>1, Zenon DEF IsSymbol
  <2> QED
    BY <1>1, <2>1 DEF IsSymbol
<1> QED
  BY <1>1 DEF Formed

(* What fits is not changed by another visit, but for the end of an entry *)
(* without a size.                                                        *)
LEMMA FormedKept ==
    ASSUME Types, ~stripped, SymbolsApart, NEW l \in Lists, NEW m \in Lists,
           NEW a \in Code, NEW int3, Updated(m, l, a, int3), AllFormed(l)
    PROVE  AllFormed(m)
<1>1. Len(l) \in Nat /\ Len(m) \in Nat
      /\ \A i \in 1 .. Len(l) : l[i] \in EntryAt
  BY DEF Lists
<1>2. ASSUME NEW e, WithTop(m, l, e), Len(l) > 0 => Formed(e)
      PROVE  AllFormed(m)
  <2>1. /\ Len(l) > 0 /\ Len(m) = Len(l) /\ m[1] = e
        /\ \A i \in 2 .. Len(l) : m[i] = l[i]
    BY <1>2 DEF WithTop
  <2>2. \A i \in 1 .. Len(m) : i = 1 \/ i \in 2 .. Len(l)
    BY <1>1, <2>1
  <2>3. \A i \in 2 .. Len(l) : i \in 1 .. Len(l)
    OBVIOUS
  <2> QED
    BY <1>2, <2>1, <2>2, <2>3, Zenon DEF AllFormed
<1>3. Len(l) > 0 => l[1] \in EntryAt /\ Formed(l[1])
  <2>1. Len(l) > 0 => 1 \in 1 .. Len(l)
    BY <1>1
  <2> QED
    BY <1>1, <2>1 DEF AllFormed
<1>4. CASE Patched(m, l, a)
  <2>1. Len(l) > 0 => Formed(Seen1(l[1], a))
    BY <1>3, EntryFields, FormedFields
  <2> QED
    BY <1>2, <1>4, <2>1 DEF Patched
<1>5. CASE Stayed(m, l, a)
  <2>1. ASSUME Len(l) > 0 PROVE Formed(Seen2(l[1], a))
    <3> DEFINE e == l[1]
               f == Seen2(e, a)
    <3>1. e \in EntryAt /\ Formed(e)
      BY <1>3, <2>1
    <3>2. /\ f.start = e.start /\ f.size = e.size /\ f.unknown = e.unknown
          /\ f.end = IF e.size = 0 THEN a ELSE e.end
      BY <3>1, EntryFields
    <3>3. SameFnt(FntOf(a), e)
      BY <1>5, FntOfIs DEF Stayed, Same
    <3> HIDE DEF e, f
    <3>4. ASSUME e.size # 0 PROVE Formed(f)
      BY <3>1, <3>2, <3>4, FormedFields
    <3>5. ASSUME e.size = 0 PROVE Formed(f)
      <4>1. Free(e.start) /\ Free(e.end)
        <5>1. \A s \in Symbols : ~IsSymbol(e, s)
          BY <3>5, SymbolTypes DEF IsSymbol
        <5> QED
          BY <3>1, <5>1 DEF Formed
      <4>2. Free(a)
        <5> SUFFICES ASSUME NEW s \in Plain, Covers(s, a) PROVE FALSE
          BY DEF Free
        <5>1. IsSymbol(FntOf(a), s) /\ s \in Symbols
          BY PlainFound DEF Plain
        <5>2. s.start = e.start
          BY <3>3, <5>1 DEF SameFnt, IsSymbol
        <5>3. Covers(s, s.start)
          BY <5>1, SymbolTypes DEF Covers, IsSymbol
        <5> QED
          BY <4>1, <5>2, <5>3 DEF Free
      <4> QED
        BY <3>2, <3>5, <4>1, <4>2 DEF Formed
    <3> QED
      BY <3>4, <3>5 DEF f, e
  <2> QED
    BY <1>2, <1>5, <2>1 DEF Stayed
<1>6. CASE Returned(m, l, int3)
  <2>1. PICK k \in 2 .. Len(l) + 1 : From(m, l, k)
    BY <1>6 DEF Returned
  <2>2. Len(m) = Len(l) - k + 1 /\ \A i \in 1 .. Len(m) : m[i] = l[i + k - 1]
    BY <2>1 DEF From
  <2>3. \A i \in 1 .. Len(m) : i + k - 1 \in 1 .. Len(l)
    BY <1>1, <2>1, <2>2
  <2> QED
    BY <2>2, <2>3 DEF AllFormed
<1>7. CASE Entered1(m, l, a, int3)
  <2> DEFINE f == Entry1(l, a, int3)
  <2>1. Len(m) = Len(l) + 1 /\ m[1] = f
        /\ \A i \in 1 .. Len(l) : m[i + 1] = l[i]
    BY <1>7 DEF Entered1, OnTop
  <2>2. Formed(FntOf(a))
    BY FntOfCases DEF Formed
  <2>3. /\ f.start = FntOf(a).start /\ f.end = FntOf(a).end
        /\ f.size = FntOf(a).size /\ f.unknown = FntOf(a).unknown
    BY EntryFields
  <2> HIDE DEF f
  <2>4. Formed(f)
    BY <2>2, <2>3, FormedFields
  <2>5. ASSUME NEW i \in 1 .. Len(m), i # 1 PROVE Formed(m[i])
    <3>1. i - 1 \in 1 .. Len(l) /\ (i - 1) + 1 = i
      BY <1>1, <2>1, <2>5
    <3> QED
      BY <2>1, <3>1 DEF AllFormed
  <2> QED
    BY <2>1, <2>4, <2>5 DEF AllFormed
<1> QED
  BY <1>4, <1>5, <1>6, <1>7 DEF Updated

(* Nor does the comparison with the newest entry depend on the state. *)
LEMMA SameIs ==
    ASSUME Types, ~stripped, NEW a \in Code, NEW l
    PROVE  Same(l, a) <=> SameAt(l, a)
  BY FntOfIs DEF Same, SameAt

(* An update leaves the list fit for the next.                            *)
LEMMA UpdateRests ==
    ASSUME Types, ~stripped, NEW l \in Lists, NEW m \in Lists,
           NEW a \in Code, NEW int3, Updated(m, l, a, int3),
           Rested(code, l), Readable(code, l, a, int3)
    PROVE  Rested(code, m) /\ Readable(code, m, a, int3) /\ Ready(code, m, a)
<1>1. Len(l) \in Nat /\ Len(m) \in Nat
      /\ \A i \in 1 .. Len(l) : l[i] \in EntryAt
  BY DEF Lists
<1>2. ASSUME NEW e, WithTop(m, l, e), e.rip = a, Fits(m, a)
      PROVE  Rested(code, m) /\ Readable(code, m, a, int3) /\ Ready(code, m, a)
  <2>1. /\ Len(m) = Len(l) /\ m[1] = e
        /\ \A i \in 2 .. Len(l) : m[i] = l[i]
    BY <1>2 DEF WithTop
  <2>2. Ready(code, m, a)
    BY <1>2 DEF Ready
  <2>3. Rested(code, m)
    <3>1. \A i \in 2 .. Len(m) - 1 : i \in 2 .. Len(l) /\ i \in 2 .. Len(l) - 1
      BY <1>1, <2>1
    <3> QED
      BY <2>1, <3>1 DEF Rested
  <2>4. Readable(code, m, a, int3)
    <3>1. \A i \in 1 .. Len(m) : i = 1 \/ (i # 1 /\ i \in 2 .. Len(l)
                                           /\ i \in 1 .. Len(l))
      BY <1>1, <2>1
    <3>2. \A i \in 2 .. Len(l) : i \in 1 .. Len(l) /\ i # 1
      OBVIOUS
    <3>3. \A i \in 2 .. Len(l) : Clean(code, m[i], int3)
      BY <2>1, <3>2 DEF Readable
    <3> QED
      BY <1>2, <2>1, <3>1, <3>3, Zenon DEF Readable
  <2> QED
    BY <2>2, <2>3, <2>4
<1>3. Len(l) > 0 => l[1] \in EntryAt
  <2>1. Len(l) > 0 => 1 \in 1 .. Len(l)
    BY <1>1
  <2> QED
    BY <1>1, <2>1
<1>4. CASE Patched(m, l, a)
  <2> DEFINE e == Seen1(l[1], a)
  <2>1. /\ WithTop(m, l, e) /\ Len(l) > 0 /\ m[1] = e
        /\ InTop(l, a) /\ Len(m) = Len(l)
    BY <1>4 DEF Patched, WithTop
  <2>2. e.rip = a /\ e.start = l[1].start /\ e.end = l[1].end
    BY <1>3, <2>1, EntryFields
  <2> HIDE DEF e
  <2>3. m # << >>
    BY <2>1
  <2>4. Fits(m, a)
    BY <2>1, <2>2, <2>3 DEF Fits, InTop
  <2> QED
    BY <1>2, <2>1, <2>2, <2>4
<1>5. CASE Stayed(m, l, a)
  <2> DEFINE e == Seen2(l[1], a)
  <2>1. WithTop(m, l, e) /\ Len(l) > 0 /\ m[1] = e /\ SameAt(l, a)
        /\ Len(m) = Len(l)
    BY <1>5, SameIs DEF Stayed, WithTop
  <2>2. e.rip = a /\ e.start = l[1].start /\ e.unknown = l[1].unknown
    BY <1>3, <2>1, EntryFields
  <2> HIDE DEF e
  <2>3. m # << >>
    BY <2>1
  <2>4. SameFnt(FntOf(a), e)
    BY <2>1, <2>2, Zenon DEF SameAt, SameFnt
  <2>5. Fits(m, a)
    BY <2>1, <2>3, <2>4 DEF Fits, SameAt
  <2> QED
    BY <1>2, <2>1, <2>2, <2>5
<1>6. CASE Returned(m, l, int3)
  <2>1. PICK k \in 2 .. Len(l) + 1 : From(m, l, k)
    BY <1>6 DEF Returned
  <2>2. Len(m) = Len(l) - k + 1 /\ \A i \in 1 .. Len(m) : m[i] = l[i + k - 1]
    BY <2>1 DEF From
  <2>3. \A i \in 1 .. Len(m) : i + k - 1 \in 1 .. Len(l) /\ i + k - 1 # 1
    BY <1>1, <2>1, <2>2
  <2>4. \A i \in 1 .. Len(m) : Clean(code, m[i], int3)
    BY <2>2, <2>3 DEF Readable
  <2>5. \A i \in 1 .. Len(m) - 1 : /\ i \in 1 .. Len(m)
                                   /\ i + k - 1 \in 2 .. Len(l) - 1
    BY <1>1, <2>1, <2>2
  <2>6. \A i \in 1 .. Len(m) - 1 : code[m[i].rip].op # "ret"
    BY <2>2, <2>5 DEF Rested
  <2>7. \A i \in 2 .. Len(m) - 1 : i \in 1 .. Len(m) - 1
    OBVIOUS
  <2>8. Len(m) < 2 \/ 1 \in 1 .. Len(m) - 1
    BY <1>1
  <2>9. Rested(code, m) /\ Ready(code, m, a)
    BY <2>6, <2>7, <2>8 DEF Rested, Ready
  <2> QED
    BY <2>4, <2>9 DEF Readable
<1>7. CASE Entered1(m, l, a, int3)
  <2> DEFINE e == Entry1(l, a, int3)
  <2>1. /\ Len(m) = Len(l) + 1 /\ m[1] = e
        /\ \A i \in 1 .. Len(l) : m[i + 1] = l[i]
        /\ ~Returns(l, int3) /\ ~InTop(l, a) /\ ~SameAt(l, a)
    BY <1>7, SameIs DEF Entered1, OnTop
  <2>2. e.rip = a /\ e.start = FntOf(a).start
    BY EntryFields
  <2> HIDE DEF e
  <2>3. m # << >>
    BY <1>1, <2>1
  <2>4. Fits(m, a)
    BY <2>1, <2>2, <2>3 DEF Fits, SameAt, SameFnt
  <2>5. ~Fits(l, a)
    BY <2>1 DEF Fits
  <2>6. \A i \in 1 .. Len(l) : Clean(code, l[i], int3)
    BY <2>5 DEF Readable
  <2>7. Len(l) >= 2 => code[l[1].rip].op # "ret"
    <3> SUFFICES ASSUME Len(l) >= 2, code[l[1].rip].op = "ret" PROVE FALSE
      OBVIOUS
    <3>1. 1 \in 1 .. Len(l)
      BY <1>1
    <3>2. Clean(code, l[1], int3)
      BY <2>6, <3>1
    <3>3. l[1].rip \notin int3
      BY <3>2 DEF Clean
    <3>4. Decoded(l[1].rip, int3) = "ret"
      BY <3>3 DEF Decoded
    <3> QED
      BY <2>1, <3>4 DEF Returns
  <2>8. \A i \in 2 .. Len(m) : i - 1 \in 1 .. Len(l) /\ (i - 1) + 1 = i
    BY <1>1, <2>1
  <2>9. \A i \in 2 .. Len(m) : m[i] = l[i - 1]
    BY <2>1, <2>8
  <2>10. Readable(code, m, a, int3)
    <3>1. \A i \in 1 .. Len(m) : i = 1 \/ i \in 2 .. Len(m)
      BY <1>1
    <3>2. \A i \in 2 .. Len(m) : Clean(code, m[i], int3)
      BY <2>6, <2>8, <2>9
    <3> QED
      BY <2>1, <2>2, <2>4, <3>1, <3>2, Zenon DEF Readable
  <2>11. Rested(code, m)
    <3> SUFFICES ASSUME NEW i \in 2 .. Len(m) - 1
                 PROVE  code[m[i].rip].op # "ret"
      BY DEF Rested
    <3>1. i \in 2 .. Len(m) /\ (i = 2 \/ i - 1 \in 2 .. Len(l) - 1)
          /\ Len(l) >= 2 /\ 2 - 1 = 1
      BY <1>1, <2>1
    <3>2. m[i] = l[i - 1]
      BY <2>9, <3>1
    <3>3. CASE i = 2
      BY <2>7, <3>1, <3>2, <3>3
    <3>4. CASE i - 1 \in 2 .. Len(l) - 1
      BY <3>2, <3>4 DEF Rested
    <3> QED
      BY <3>1, <3>3, <3>4
  <2> QED
    BY <2>4, <2>10, <2>11 DEF Ready
<1> QED
  BY <1>4, <1>5, <1>6, <1>7 DEF Updated

(* Of two updates in one function the second leaves it on top.            *)
LEMMA SecondUpdate ==
    ASSUME Types, ~stripped, SymbolsApart, NEW l \in Lists, NEW m \in Lists,
           NEW a \in Code, NEW b \in Code, NEW int3,
           Updated(m, l, b, int3), AllFormed(l), Ready(code, l, a)
    PROVE  Current(m, a, b)
<1> SUFFICES ASSUME FnAt(a) = FnAt(b), Sure(b)
             PROVE  Shown(m, b)
  BY DEF Current
<1>1. Len(l) \in Nat /\ Len(m) \in Nat
      /\ \A i \in 1 .. Len(l) : l[i] \in EntryAt
  BY DEF Lists
<1>2. PICK s \in Plain : /\ Covers(s, a) /\ IsSymbol(FntOf(a), s)
                         /\ Covers(s, b) /\ IsSymbol(FntOf(b), s)
  BY SameSymbol
<1>3. Len(l) > 0 => l[1] \in EntryAt /\ Formed(l[1])
  <2>1. Len(l) > 0 => 1 \in 1 .. Len(l)
    BY <1>1
  <2> QED
    BY <1>1, <2>1 DEF AllFormed
<1>4. s \in Symbols /\ Covers(s, s.start) /\ a \in Nat /\ b \in Nat
  <2>1. s \in Symbols
    BY DEF Plain
  <2> QED
    BY <1>2, <2>1, SymbolTypes, ProgramAssumption DEF Covers, IsSymbol
<1>5. CASE Patched(m, l, b)
  <2> DEFINE e == Seen1(l[1], b)
  <2>1. Len(l) > 0 /\ m[1] = e /\ InTop(l, b) /\ Len(m) = Len(l)
    BY <1>5 DEF Patched, WithTop
  <2>2. /\ e.start = l[1].start /\ e.end = l[1].end /\ e.size = l[1].size
    BY <1>3, <2>1, EntryFields
  <2> HIDE DEF e
  <2>3. m # << >>
    BY <2>1
  <2>4. InTop(m, b) /\ m[1].size = l[1].size
    BY <2>1, <2>2, <2>3 DEF InTop
  <2>5. CASE \E t \in Symbols : IsSymbol(l[1], t)
    <3>1. PICK t \in Symbols : IsSymbol(l[1], t)
      BY <2>5
    <3>2. Covers(t, b)
      BY <2>1, <3>1 DEF InTop, Covers, IsSymbol
    <3>3. t.start = s.start
      BY <1>2, <1>4, <3>2, Overlap
    <3>4. SameFnt(m[1], FntOf(b))
      BY <1>2, <2>1, <2>2, <3>1, <3>3 DEF SameFnt, IsSymbol
    <3> QED
      BY <2>3, <3>4 DEF Shown
  <2>6. CASE l[1].size = 0
    BY <2>3, <2>4, <2>6 DEF Shown
  <2> QED
    BY <1>3, <2>1, <2>5, <2>6 DEF Formed
<1>6. CASE ~InTop(l, b) /\ Returned(m, l, int3)
  <2>1. Len(l) >= 2 /\ code[l[1].rip].op = "ret"
    BY <1>6 DEF Returned, Returns, Decoded
  <2>2. Fits(l, a)
    BY <1>1, <2>1 DEF Ready
  <2>3. l # << >> /\ l[1] \in EntryAt /\ Formed(l[1])
    BY <1>1, <1>3, <2>1
  <2> DEFINE e == l[1]
  <2>4. e.start \in Nat /\ e.end \in Nat
    BY <2>3, ProgramAssumption DEF EntryAt
  <2>5. ~(e.start <= b /\ b < e.end)
    BY <1>6, <2>3 DEF InTop
  <2>6. (e.start <= a /\ a < e.end) \/ SameFnt(FntOf(a), e)
    BY <2>2 DEF Fits, InTop, SameAt
  <2> HIDE DEF e
  <2>7. Formed(e)
    BY <2>3 DEF e
  <2>8. ASSUME NEW t \in Symbols, IsSymbol(e, t) PROVE FALSE
    <3>1. Covers(t, a) \/ t.start = s.start
      BY <1>2, <2>6, <2>8 DEF Covers, IsSymbol, SameFnt
    <3>2. t.start = s.start
      BY <1>2, <1>4, <3>1, Overlap
    <3>3. t.size = s.size
      BY <1>4, <2>8, <3>2 DEF SymbolsApart, IsSymbol
    <3> QED
      BY <1>2, <2>5, <2>8, <3>2, <3>3 DEF Covers, IsSymbol
  <2>9. ASSUME Free(e.start), Free(e.end) PROVE FALSE
    <3>1. ~Covers(s, e.start) /\ ~Covers(s, e.end)
      BY <2>9 DEF Free
    <3>2. e.start # s.start /\ ~SameFnt(FntOf(a), e)
      BY <1>2, <1>4, <3>1 DEF SameFnt, IsSymbol
    <3>3. e.start <= a /\ a < e.end
      BY <2>6, <3>2
    <3>4. e.start < s.start /\ s.start + s.size <= e.end
      BY <1>2, <1>4, <2>4, <3>1, <3>3, SymbolTypes DEF Covers
    <3> QED
      BY <1>2, <1>4, <2>4, <2>5, <3>4, SymbolTypes DEF Covers
  <2> QED
    BY <2>7, <2>8, <2>9 DEF Formed
<1>7. CASE Stayed(m, l, b)
  <2> DEFINE e == Seen2(l[1], b)
  <2>1. Len(l) > 0 /\ m[1] = e /\ SameAt(l, b) /\ Len(m) = Len(l)
    BY <1>7, SameIs DEF Stayed, WithTop
  <2>2. e.start = l[1].start
    BY <1>3, <2>1, EntryFields
  <2>3. FntOf(b).start = l[1].start
    BY <1>2, <2>1 DEF SameAt, SameFnt, IsSymbol
  <2> HIDE DEF e
  <2>4. SameFnt(m[1], FntOf(b)) /\ m # << >>
    BY <2>1, <2>2, <2>3 DEF SameFnt
  <2> QED
    BY <2>4 DEF Shown
<1>8. CASE Entered1(m, l, b, int3)
  <2>1. Len(m) = Len(l) + 1 /\ m[1] = Entry1(l, b, int3)
    BY <1>8 DEF Entered1, OnTop
  <2>2. m[1].start = FntOf(b).start /\ m # << >>
    BY <1>1, <2>1, EntryFields
  <2>3. SameFnt(m[1], FntOf(b))
    BY <2>2 DEF SameFnt
  <2> QED
    BY <2>2, <2>3 DEF Shown
<1> QED
  BY <1>5, <1>6, <1>7, <1>8 DEF Updated

-------------------------------------------------------------------------
(* The list between two stops, until an int3 hides a return.              *)
TopInv ==
    ~stripped /\ ~crashed /\ "covered" \notin doubt =>
        /\ AllFormed(lst) /\ Rested(code, lst) /\ Ready(code, lst, last[2])
        /\ Current(lst, last[1], last[2])

(* The invariant of the top of the list holds first and after each step. *)
LEMMA TopInvInit == SymbolsApart /\ Init => TopInv
<1> SUFFICES ASSUME SymbolsApart, Init, ~stripped PROVE TopInv
  BY DEF TopInv
<1>1. IType /\ Types
  BY ITypeInit DEF IType
<1>2. Entry \in Code
  BY ProgramAssumption
<1> DEFINE e == Entry1(<< >>, Entry, {})
<1>3. lst = <<e>> \o << >>
  BY DEF Init, Pushed, Entry1, Jumped
<1>4. e \in EntryAt /\ << >> \in Lists
  BY <1>1, <1>2, EntryTypes DEF Lists
<1>5. /\ e.start = FntOf(Entry).start /\ e.end = FntOf(Entry).end
      /\ e.size = FntOf(Entry).size /\ e.unknown = FntOf(Entry).unknown
  BY <1>1, <1>2, EntryFields
<1> HIDE DEF e
<1>6. Len(lst) = 1 /\ lst[1] = e /\ lst # << >>
  <2>1. Len(<< >>) = 0
    OBVIOUS
  <2>2. Len(lst) = 1 /\ lst[1] = e
    BY <1>3, <1>4, <2>1, PushedOnTop DEF OnTop
  <2> QED
    BY <2>1, <2>2
<1>7. AllFormed(lst)
  <2>1. Formed(FntOf(Entry))
    BY <1>2, FntOfCases DEF Formed
  <2>2. Formed(e)
    BY <1>5, <2>1, FormedFields
  <2> QED
    BY <1>6, <2>2 DEF AllFormed
<1>8. Rested(code, lst)
  BY <1>6 DEF Rested
<1>9. Ready(code, lst, last[2])
  BY <1>6 DEF Ready
<1>10. Current(lst, last[1], last[2])
  <2>1. last[2] = Entry
    BY DEF Init
  <2>2. SameFnt(lst[1], FntOf(last[2]))
    BY <1>5, <1>6, <2>1 DEF SameFnt
  <2> QED
    BY <1>6, <2>2 DEF Current, Shown
<1> QED
  BY <1>7, <1>8, <1>9, <1>10 DEF TopInv

(* What one update at a stop leaves, if no return is covered.             *)
Fit(l) == AllFormed(l) /\ Rested(code, l)

(* One update, taken by itself. *)
LEMMA UpdateFits ==
    ASSUME Types, ~stripped, SymbolsApart, NEW st \in States, NEW a \in Code,
           NEW int3, ~UpdateFunc(st, a, int3).crashed,
           Fit(st.lst), Readable(code, st.lst, a, int3)
    PROVE  /\ ~st.crashed
           /\ UpdateFunc(st, a, int3) \in States
           /\ Updated(UpdateFunc(st, a, int3).lst, st.lst, a, int3)
           /\ Fit(UpdateFunc(st, a, int3).lst)
           /\ Readable(code, UpdateFunc(st, a, int3).lst, a, int3)
           /\ Ready(code, UpdateFunc(st, a, int3).lst, a)
<1> DEFINE n == UpdateFunc(st, a, int3)
<1>1. n \in States /\ ~st.crashed /\ Updated(n.lst, st.lst, a, int3)
  BY UpdateCases
<1>2. st.lst \in Lists /\ n.lst \in Lists
  BY <1>1 DEF States
<1>3. AllFormed(n.lst)
  BY <1>1, <1>2, FormedKept DEF Fit
<1>4. /\ Rested(code, n.lst) /\ Readable(code, n.lst, a, int3)
      /\ Ready(code, n.lst, a)
  BY <1>1, <1>2, UpdateRests DEF Fit
<1> QED
  BY <1>1, <1>3, <1>4 DEF Fit

(* The second update in one function shows it on top. *)
LEMMA UpdateCurrent ==
    ASSUME Types, ~stripped, SymbolsApart, NEW st \in States, NEW a \in Code,
           NEW b \in Code, NEW int3, ~UpdateFunc(st, b, int3).crashed,
           Fit(st.lst), Ready(code, st.lst, a)
    PROVE  Current(UpdateFunc(st, b, int3).lst, a, b)
<1> DEFINE n == UpdateFunc(st, b, int3)
<1>1. n \in States /\ ~st.crashed /\ Updated(n.lst, st.lst, b, int3)
  BY UpdateCases
<1>2. st.lst \in Lists /\ n.lst \in Lists
  BY <1>1 DEF States
<1> QED
  BY <1>1, <1>2, SecondUpdate DEF Fit

LEMMA TopInvStep == SymbolsApart /\ IType /\ TopInv /\ [Next]_vars => TopInv'
<1> SUFFICES ASSUME SymbolsApart, IType, TopInv, [Next]_vars,
                    ~stripped', ~crashed', "covered" \notin doubt'
             PROVE  /\ AllFormed(lst') /\ Rested(code', lst')
                    /\ Ready(code', lst', last'[2])
                    /\ Current(lst', last'[1], last'[2])
  BY DEF TopInv
<1> DEFINE Goal == /\ AllFormed(lst') /\ Rested(code', lst')
                   /\ Ready(code', lst', last'[2])
                   /\ Current(lst', last'[1], last'[2])
<1>1. ASSUME UNCHANGED <<programVars, listVars>>, doubt \subseteq doubt'
      PROVE  Goal
  <2>1. /\ ~stripped /\ ~crashed /\ "covered" \notin doubt
        /\ code' = code /\ lst' = lst /\ last' = last
    BY <1>1 DEF programVars, listVars, code
  <2> QED
    BY <2>1 DEF TopInv
<1>2. /\ Types /\ pc \in Code
      /\ DOMAIN lst = 1 .. Len(lst) /\ lst \in Lists
      /\ last[2] \in Code
  <2>1. last \in Seq(Code) /\ Len(last) = 2
    BY DEF IType
  <2>2. last[2] \in Code
    BY <2>1
  <2>3. lst \in Lists
    BY DEF IType
  <2>4. DOMAIN lst = 1 .. Len(lst)
    BY <2>3 DEF Lists
  <2> QED
    BY <2>2, <2>3, <2>4 DEF IType
<1>3. ASSUME UNCHANGED programVars PROVE ~stripped /\ code' = code
  BY <1>3 DEF programVars, code
(* The first update, and the second one at the same place.                *)
<1>4. ASSUME ~stripped, ~Once.crashed, "covered" \notin doubt,
             "covered" \notin Covered
      PROVE  /\ Fit(Once.lst) /\ Readable(code, Once.lst, pc, armed)
             /\ Ready(code, Once.lst, pc)
             /\ Current(Once.lst, last[2], pc)
  <2>1. ~List.crashed
    BY <1>2, <1>4, UpdateCases, UpdateTypes DEF Once
  <2>2. ~crashed /\ List.lst = lst /\ List \in States
    BY <2>1, UpdateTypes
  <2>3. Fit(List.lst) /\ Ready(code, List.lst, last[2])
    BY <1>4, <2>2 DEF TopInv, Fit
  <2>4. Readable(code, List.lst, pc, armed)
    <3>1. \A i \in DOMAIN lst :
              ~(lst[i].rip \in armed /\ code[lst[i].rip].op = "ret")
      BY <1>4 DEF Covered
    <3> QED
      BY <1>2, <2>2, <3>1 DEF Readable, Clean
  <2>5. /\ Fit(Once.lst) /\ Readable(code, Once.lst, pc, armed)
        /\ Ready(code, Once.lst, pc)
    BY <1>2, <1>4, <2>2, <2>3, <2>4, UpdateFits DEF Once
  <2>6. Current(Once.lst, last[2], pc)
    BY <1>2, <1>4, <2>2, <2>3, UpdateCurrent DEF Once
  <2> QED
    BY <2>5, <2>6
<1>5. ASSUME ~stripped, ~Twice.crashed, "covered" \notin doubt,
             "covered" \notin Covered
      PROVE  /\ Fit(Twice.lst) /\ Readable(code, Twice.lst, pc, armed)
             /\ Ready(code, Twice.lst, pc)
             /\ Current(Twice.lst, pc, pc)
  <2>1. Once \in States /\ ~Once.crashed
    BY <1>2, <1>5, UpdateCases, UpdateTypes DEF Twice
  <2>2. /\ Fit(Once.lst) /\ Readable(code, Once.lst, pc, armed)
        /\ Ready(code, Once.lst, pc)
    BY <1>4, <1>5, <2>1
  <2>3. /\ Fit(Twice.lst) /\ Readable(code, Twice.lst, pc, armed)
        /\ Ready(code, Twice.lst, pc)
    BY <1>2, <1>5, <2>1, <2>2, UpdateFits DEF Twice
  <2>4. Current(Twice.lst, pc, pc)
    BY <1>2, <1>5, <2>1, <2>2, UpdateCurrent DEF Twice
  <2> QED
    BY <2>3, <2>4
<1>6. CASE TakeBreak
  <2>1. PICK b \in Hit(pc) :
          /\ Becomes(Thrice(b)) /\ last' = <<pc, b>>
          /\ doubt' = doubt \cup Plt(pc) \cup Plt(b) \cup Reread(pc) \cup Covered
                       \cup Wide(pc) \cup Wide(b)
                       \cup (IF FnOf(pc) = FnOf(b) THEN {} ELSE {"edge"})
    BY <1>6 DEF TakeBreak, Thrice, Twice, Once
  <2>2. b \in armed /\ b \in Code /\ (b = pc \/ pc \notin armed)
    BY HitInCode
  <2>3. ~stripped /\ code' = code
    BY <1>3, <1>6 DEF TakeBreak
  <2>4. lst' = Thrice(b).lst /\ ~Thrice(b).crashed
    BY <2>1 DEF Becomes
  <2>5. Twice \in States /\ ~Twice.crashed
    BY <1>2, <2>2, <2>4, UpdateCases, UpdateTypes DEF Thrice
  <2>6. /\ Fit(Twice.lst) /\ Readable(code, Twice.lst, pc, armed)
        /\ Ready(code, Twice.lst, pc)
    BY <1>5, <2>1, <2>3, <2>5
  (* Without the breakpoint all that is listed can be read.               *)
  <2>7. Readable(code, Twice.lst, b, armed \ {b})
    <3> SUFFICES ASSUME NEW i \in 1 .. Len(Twice.lst)
                 PROVE  Clean(code, Twice.lst[i], armed \ {b})
      BY DEF Readable
    <3>1. CASE Clean(code, Twice.lst[i], armed)
      BY <3>1 DEF Clean
    <3>2. CASE i = 1 /\ Twice.lst[1].rip = pc
      BY <2>2, <3>2 DEF Clean
    <3> QED
      BY <2>6, <3>1, <3>2 DEF Readable
  <2>8. Fit(Thrice(b).lst) /\ Ready(code, Thrice(b).lst, b)
    BY <1>2, <2>2, <2>3, <2>4, <2>5, <2>6, <2>7, UpdateFits DEF Thrice
  <2>9. Current(Thrice(b).lst, pc, b)
    BY <1>2, <2>2, <2>3, <2>4, <2>5, <2>6, UpdateCurrent DEF Thrice
  <2>10. last'[1] = pc /\ last'[2] = b
    BY <2>1
  <2> QED
    BY <2>3, <2>4, <2>8, <2>9, <2>10 DEF Fit
<1>7. CASE TakeWatch
  <2>1. Becomes(Twice) /\ last' = <<pc, pc>>
        /\ doubt' = doubt \cup Plt(pc) \cup Reread(pc) \cup Covered \cup Wide(pc)
    BY <1>7 DEF TakeWatch, Twice, Once
  <2>2. ~stripped /\ code' = code
    BY <1>3, <1>7 DEF TakeWatch, slaveVars
  <2>3. lst' = Twice.lst /\ ~Twice.crashed
    BY <2>1 DEF Becomes
  <2>4. /\ Fit(Twice.lst) /\ Ready(code, Twice.lst, pc)
        /\ Current(Twice.lst, pc, pc)
    BY <1>5, <2>1, <2>2, <2>3
  <2>5. last'[1] = pc /\ last'[2] = pc
    BY <2>1
  <2> QED
    BY <2>2, <2>3, <2>4, <2>5 DEF Fit
<1>8. CASE TakeOther
  <2>1. Becomes(Once) /\ last' = <<last[2], pc>>
        /\ doubt' = doubt \cup Plt(pc) \cup Covered \cup Wide(pc)
                     \cup (IF last[2] = pc THEN Reread(pc) ELSE {})
    BY <1>8 DEF TakeOther, Once
  <2>2. ~stripped /\ code' = code
    BY <1>3, <1>8 DEF TakeOther, slaveVars
  <2>3. lst' = Once.lst /\ ~Once.crashed
    BY <2>1 DEF Becomes
  <2>4. /\ Fit(Once.lst) /\ Ready(code, Once.lst, pc)
        /\ Current(Once.lst, last[2], pc)
    BY <1>4, <2>1, <2>2, <2>3
  <2>5. last'[1] = last[2] /\ last'[2] = pc
    BY <2>1
  <2> QED
    BY <2>2, <2>3, <2>4, <2>5 DEF Fit
<1>9. CASE Step
  BY <1>1, <1>9 DEF Step
<1>10. CASE BlindCont
  BY <1>1, <1>10 DEF BlindCont
<1>11. CASE Run
  BY <1>1, <1>11 DEF Run
<1>12. CASE Exit
  BY <1>1, <1>12 DEF Exit, slaveVars
<1>13. ASSUME NEW a \in BreakAddrs, NewSbp(a) PROVE Goal
  BY <1>1, <1>13 DEF NewSbp, slaveVars
<1>14. CASE UNCHANGED vars
  BY <1>1, <1>14 DEF vars, slaveVars
<1> QED
  BY <1>6, <1>7, <1>8, <1>9, <1>10, <1>11, <1>12, <1>13, <1>14 DEF Next

(* Two updates in one function make it the one on top, for every program, *)
(* every number of calls, jumps, breakpoints, runs and signals, where no  *)
(* symbol starts inside another or runs past .text.                       *)
THEOREM TopFollows ==
    ASSUME SymbolsApart
    PROVE  Spec => []TopIsCurrent
<1>1. SymbolsApart
  OBVIOUS
<1>2. Init => TopInv
  BY <1>1, TopInvInit
<1>3. IType /\ TopInv /\ [Next]_vars => TopInv'
  BY <1>1, TopInvStep
<1>4. IType /\ TopInv => TopIsCurrent
  <2> SUFFICES ASSUME IType, TopInv, ~crashed, ~stripped,
                      "covered" \notin doubt, FnOf(last[1]) = FnOf(last[2]),
                      ~NoSize(last[2])
               PROVE  /\ lst # << >>
                      /\ SameFnt(lst[1], FntNew(last[2])) \/ Stretched
    BY DEF TopIsCurrent
  <2>1. last \in Seq(Code) /\ Len(last) = 2 /\ Types
    BY DEF IType
  <2>2. last[1] \in Code /\ last[2] \in Code
    <3>1. 1 \in 1 .. Len(last) /\ 2 \in 1 .. Len(last)
      BY <2>1
    <3> QED
      BY <2>1, <3>1
  <2>3. /\ FntNew(last[2]) = FntOf(last[2])
        /\ FnAt(last[1]) = FnAt(last[2])
    BY <2>1, <2>2, FntOfIs
  <2>4. Current(lst, last[1], last[2])
    BY DEF TopInv
  <2>5. Sure(last[2])
    BY <2>1, <2>2, SureIs
  <2> QED
    BY <2>3, <2>4, <2>5, Zenon DEF Current, Shown, Stretched
<1> QED
  BY <1>2, <1>3, <1>4, ITypeAlways, PTL DEF Spec

-------------------------------------------------------------------------
(* The whole list.  c stands again for what the addresses decode to, R    *)
(* for the list as the slave's stack says it should be.                   *)

Called == [fn : Nat, jmp : BOOLEAN]
FnIn(e) == IF e.unknown THEN 0 ELSE e.start
Shows(e, x) == FnIn(e) = x.fn /\ e.jmp = x.jmp
HasCall(R) == \E k \in 1 .. Len(R) : ~R[k].jmp

(* f finds every entry of the list in R, and every call of R.             *)
Finds(f, l, R) ==
    /\ f \in [1 .. Len(l) -> 1 .. Len(R)]
    /\ \A i, j \in 1 .. Len(l) : i < j => f[i] < f[j]
    /\ \A i \in 1 .. Len(l) : Shows(l[i], R[f[i]])
    /\ \A k \in 1 .. Len(R) : ~R[k].jmp => \E i \in 1 .. Len(l) : f[i] = k

(* How the slave left the functions below the newest: by a jump to the    *)
(* next, or by a call from the function listed right below that call.     *)
LeftAt(c, f, l, R, i) ==
    /\ c[l[i].rip].op # "ret"
    /\ l[i - 1].jmp => c[l[i].rip].op # "call"
    /\ ~l[i - 1].jmp => FnIn(l[i]) = R[f[i - 1] + 1].fn
Left(c, f, l, R) == \A i \in 2 .. Len(l) : LeftAt(c, f, l, R, i)

Linked(c, l, R) == Len(l) > 0 /\ \E f : Finds(f, l, R) /\ Left(c, f, l, R)

(* What should be on the list is a sequence of functions called or jumped *)
(* to.                                                                    *)
LEMMA PathEntries ==
    ASSUME NEW R \in Path
    PROVE  Len(R) \in Nat /\ \A k \in 1 .. Len(R) : R[k] \in Called
<1>1. R \in Seq(Called)
  BY DEF Path, Called
<1> QED
  BY <1>1

(* Another visit to the function on top.                                  *)
LEMMA LinkedRetop ==
    ASSUME NEW c, NEW l \in Lists, NEW m \in Lists, NEW R \in Path,
           Linked(c, l, R), NEW e, WithTop(m, l, e),
           FnIn(e) = FnIn(l[1]), e.jmp = l[1].jmp
    PROVE  Linked(c, m, R)
<1>1. /\ Len(l) \in Nat /\ Len(m) = Len(l) /\ m[1] = e
      /\ \A i \in 2 .. Len(l) : m[i] = l[i]
  BY DEF WithTop, Lists
<1>2. PICK f : Finds(f, l, R) /\ Left(c, f, l, R)
  BY DEF Linked
<1>3. ASSUME NEW i \in 1 .. Len(l)
      PROVE  FnIn(m[i]) = FnIn(l[i]) /\ m[i].jmp = l[i].jmp
  <2>1. i = 1 \/ i \in 2 .. Len(l)
    BY <1>1
  <2>2. CASE i = 1
    BY <1>1, <2>2
  <2>3. CASE i \in 2 .. Len(l)
    <3>1. m[i] = l[i]
      BY <1>1, <2>3
    <3> QED
      BY <3>1
  <2> QED
    BY <2>1, <2>2, <2>3
<1>4. Finds(f, m, R)
  <2>1. \A i \in 1 .. Len(l) : Shows(m[i], R[f[i]])
    BY <1>2, <1>3 DEF Finds, Shows
  <2> QED
    BY <1>1, <1>2, <2>1 DEF Finds
<1>5. ASSUME NEW i \in 2 .. Len(l) PROVE LeftAt(c, f, m, R, i)
  <2>1. i - 1 \in 1 .. Len(l)
    BY <1>1
  <2>2. m[i] = l[i] /\ m[i - 1].jmp = l[i - 1].jmp
    BY <1>1, <1>3, <2>1
  <2>3. LeftAt(c, f, l, R, i)
    BY <1>2 DEF Left
  <2> QED
    BY <2>2, <2>3 DEF LeftAt
<1>6. Len(m) > 0 /\ Left(c, f, m, R)
  BY <1>1, <1>5 DEF Left, Linked
<1> QED
  BY <1>4, <1>6 DEF Linked

(* The function the slave has jumped to, and was not listed as the newest *)
(* when the call in it had returned, is listed now.                       *)
LEMMA LinkedCatchUp ==
    ASSUME NEW c, NEW l \in Lists, NEW m \in Lists, NEW R \in Path,
           Linked(c, l, R), NEW e, OnTop(m, l, e),
           FnIn(e) = R[1].fn, e.jmp = TRUE, FnIn(l[1]) # R[1].fn,
           c[l[1].rip].op \notin {"call", "ret"}
    PROVE  Linked(c, m, R)
<1>1. /\ Len(l) \in Nat /\ Len(m) = Len(l) + 1 /\ m[1] = e /\ Len(l) > 0
      /\ \A i \in 1 .. Len(l) : m[i + 1] = l[i]
  BY DEF OnTop, Lists, Linked
<1>2. PICK f : Finds(f, l, R) /\ Left(c, f, l, R)
  BY DEF Linked
<1>3. Len(R) \in Nat /\ \A k \in 1 .. Len(R) : R[k] \in Called
  BY PathEntries
<1>4. \A i \in 1 .. Len(l) : f[i] \in 1 .. Len(R) /\ f[i] > 1
  <2>1. \A i \in 1 .. Len(l) : f[i] \in 1 .. Len(R)
    BY <1>2 DEF Finds
  <2>2. 1 \in 1 .. Len(l)
    BY <1>1
  <2>3. f[1] # 1
    <3>1. FnIn(l[1]) = R[f[1]].fn
      BY <1>2, <2>2 DEF Finds, Shows
    <3> QED
      BY <3>1
  <2>4. f[1] > 1
    BY <2>1, <2>2, <2>3
  <2>5. \A i \in 1 .. Len(l) : i = 1 \/ 1 < i
    OBVIOUS
  <2>6. \A i \in 1 .. Len(l) : f[i] >= f[1]
    BY <1>2, <2>1, <2>2, <2>5 DEF Finds
  <2> QED
    BY <2>1, <2>2, <2>4, <2>6
<1>5. R[1].jmp = TRUE /\ 1 \in 1 .. Len(R)
  <2>1. 1 \in 1 .. Len(R)
    <3>1. 1 \in 1 .. Len(l)
      BY <1>1
    <3> QED
      BY <1>3, <1>4, <3>1
  <2>2. R[1].jmp
    <3>1. \A i \in 1 .. Len(l) : f[i] # 1
      BY <1>4
    <3> QED
      BY <1>2, <2>1, <3>1 DEF Finds
  <2>3. R[1].jmp \in BOOLEAN
    BY <1>3, <2>1 DEF Called
  <2> QED
    BY <2>1, <2>2, <2>3
<1> DEFINE g == [i \in 1 .. Len(m) |-> IF i = 1 THEN 1 ELSE f[i - 1]]
<1>6. \A i \in 1 .. Len(m) : i = 1 \/ i - 1 \in 1 .. Len(l)
  BY <1>1
<1>7. g[1] = 1 /\ \A i \in 1 .. Len(l) : g[i + 1] = f[i]
  <2>1. 1 \in 1 .. Len(m)
    BY <1>1
  <2>2. \A i \in 1 .. Len(l) : i + 1 \in 1 .. Len(m) /\ i + 1 # 1
                               /\ (i + 1) - 1 = i
    BY <1>1
  <2> QED
    BY <2>1, <2>2
<1>8. g \in [1 .. Len(m) -> 1 .. Len(R)]
  BY <1>4, <1>5, <1>6
<1> HIDE DEF g
<1>9. ASSUME NEW i \in 1 .. Len(m)
      PROVE  \/ i = 1
             \/ \E j \in 1 .. Len(l) : i = j + 1
  <2>1. CASE i # 1
    <3>1. i - 1 \in 1 .. Len(l) /\ i = (i - 1) + 1
      BY <1>6, <2>1
    <3> QED
      BY <3>1
  <2> QED
    BY <2>1
<1>10. \A i, j \in 1 .. Len(m) : i < j => g[i] < g[j]
  <2> SUFFICES ASSUME NEW i \in 1 .. Len(m), NEW j \in 1 .. Len(m), i < j
               PROVE  g[i] < g[j]
    OBVIOUS
  <2>1. PICK j0 \in 1 .. Len(l) : j = j0 + 1
    BY <1>1, <1>9
  <2>2. CASE i = 1
    BY <1>4, <1>7, <2>1, <2>2
  <2>3. CASE i # 1
    <3>1. PICK i0 \in 1 .. Len(l) : i = i0 + 1
      BY <1>9, <2>3
    <3>2. i0 < j0
      BY <2>1, <3>1
    <3> QED
      BY <1>2, <1>7, <2>1, <3>1, <3>2 DEF Finds
  <2> QED
    BY <2>2, <2>3
<1>11. \A i \in 1 .. Len(m) : Shows(m[i], R[g[i]])
  <2> SUFFICES ASSUME NEW i \in 1 .. Len(m) PROVE Shows(m[i], R[g[i]])
    OBVIOUS
  <2>1. CASE i = 1
    BY <1>1, <1>5, <1>7, <2>1 DEF Shows
  <2>2. CASE i # 1
    <3>1. PICK i0 \in 1 .. Len(l) : i = i0 + 1
      BY <1>9, <2>2
    <3> QED
      BY <1>1, <1>2, <1>7, <3>1 DEF Finds
  <2> QED
    BY <2>1, <2>2
<1>12. ASSUME NEW k \in 1 .. Len(R), ~R[k].jmp
       PROVE  \E i \in 1 .. Len(m) : g[i] = k
  <2>1. PICK i \in 1 .. Len(l) : f[i] = k
    BY <1>2, <1>12 DEF Finds
  <2>2. i + 1 \in 1 .. Len(m) /\ g[i + 1] = k
    BY <1>1, <1>7, <2>1
  <2> QED
    BY <2>2
<1>13. Finds(g, m, R)
  BY <1>8, <1>10, <1>11, <1>12 DEF Finds
<1>14. ASSUME NEW i \in 2 .. Len(m) PROVE LeftAt(c, g, m, R, i)
  <2>1. i \in 1 .. Len(m) /\ i # 1 /\ i \in Nat
    BY <1>1
  <2>2. PICK j \in 1 .. Len(l) : i = j + 1
    BY <1>9, <2>1
  <2>3. m[i] = l[j] /\ i - 1 = j
    BY <1>1, <2>2
  <2>4. CASE j = 1
    BY <1>1, <2>3, <2>4 DEF LeftAt
  <2>5. CASE j # 1
    <3>1. j \in 2 .. Len(l) /\ j - 1 \in 1 .. Len(l) /\ (j - 1) + 1 = j
      BY <1>1, <2>5
    <3>2. LeftAt(c, f, l, R, j)
      BY <1>2, <3>1 DEF Left
    <3>3. m[j] = l[j - 1] /\ g[j] = f[j - 1]
      BY <1>1, <1>7, <3>1
    <3> QED
      BY <2>3, <3>2, <3>3 DEF LeftAt
  <2> QED
    BY <2>4, <2>5
<1>15. Len(m) > 0 /\ Left(c, g, m, R)
  BY <1>1, <1>14 DEF Left
<1> QED
  BY <1>13, <1>15 DEF Linked

(* Q is R with one more on top, and R from its k-th on.                   *)
Longer(Q, R, x) == /\ Q \in Path /\ Len(Q) = Len(R) + 1 /\ Q[1] = x
                   /\ \A i \in 1 .. Len(R) : Q[i + 1] = R[i]
Shorter(Q, R, k) == /\ Q \in Path /\ Len(Q) = Len(R) - k
                    /\ \A i \in 1 .. Len(Q) : Q[i] = R[i + k]

(* A function called or jumped to is listed.                              *)
LEMMA LinkedEnter ==
    ASSUME NEW c, NEW l \in Lists, NEW m \in Lists, NEW R \in Path, NEW Q,
           Linked(c, l, R), NEW e, OnTop(m, l, e), NEW x, Longer(Q, R, x),
           Shows(e, x), FnIn(l[1]) = R[1].fn,
           c[l[1].rip].op # "ret", e.jmp => c[l[1].rip].op # "call"
    PROVE  Linked(c, m, Q)
<1>1. /\ Len(l) \in Nat /\ Len(m) = Len(l) + 1 /\ m[1] = e /\ Len(l) > 0
      /\ \A i \in 1 .. Len(l) : m[i + 1] = l[i]
  BY DEF OnTop, Lists, Linked
<1>2. PICK f : Finds(f, l, R) /\ Left(c, f, l, R)
  BY DEF Linked
<1>3. /\ Len(R) \in Nat /\ Len(Q) = Len(R) + 1 /\ Q[1] = x
      /\ \A i \in 1 .. Len(R) : Q[i + 1] = R[i]
  BY PathEntries DEF Longer
<1>4. \A i \in 1 .. Len(l) : f[i] \in 1 .. Len(R)
  BY <1>2 DEF Finds
<1> DEFINE g == [i \in 1 .. Len(m) |-> IF i = 1 THEN 1 ELSE f[i - 1] + 1]
<1>6. \A i \in 1 .. Len(m) : i = 1 \/ i - 1 \in 1 .. Len(l)
  BY <1>1
<1>7. g[1] = 1 /\ \A i \in 1 .. Len(l) : g[i + 1] = f[i] + 1
  <2>1. 1 \in 1 .. Len(m)
    BY <1>1
  <2>2. \A i \in 1 .. Len(l) : i + 1 \in 1 .. Len(m) /\ i + 1 # 1
                               /\ (i + 1) - 1 = i
    BY <1>1
  <2> QED
    BY <2>1, <2>2
<1>8. g \in [1 .. Len(m) -> 1 .. Len(Q)]
  <2>1. 1 \in 1 .. Len(Q) /\ \A k \in 1 .. Len(R) : k + 1 \in 1 .. Len(Q)
    BY <1>3
  <2> QED
    BY <1>4, <1>6, <2>1
<1> HIDE DEF g
<1>9. ASSUME NEW i \in 1 .. Len(m), i # 1
      PROVE  \E j \in 1 .. Len(l) : i = j + 1
  <2>1. i - 1 \in 1 .. Len(l) /\ i = (i - 1) + 1
    BY <1>6, <1>9
  <2> QED
    BY <2>1
<1>10. \A i, j \in 1 .. Len(m) : i < j => g[i] < g[j]
  <2> SUFFICES ASSUME NEW i \in 1 .. Len(m), NEW j \in 1 .. Len(m), i < j
               PROVE  g[i] < g[j]
    OBVIOUS
  <2>1. PICK j0 \in 1 .. Len(l) : j = j0 + 1
    <3>1. j # 1
      BY <1>1
    <3> QED
      BY <1>9, <3>1
  <2>2. f[j0] \in Nat /\ f[j0] > 0
    BY <1>4
  <2>3. CASE i = 1
    BY <1>7, <2>1, <2>2, <2>3
  <2>4. CASE i # 1
    <3>1. PICK i0 \in 1 .. Len(l) : i = i0 + 1
      BY <1>9, <2>4
    <3>2. i0 < j0 /\ f[i0] \in Nat
      BY <1>4, <2>1, <3>1
    <3>3. f[i0] < f[j0]
      BY <1>2, <3>2 DEF Finds
    <3> QED
      BY <1>7, <2>1, <2>2, <3>1, <3>2, <3>3
  <2> QED
    BY <2>3, <2>4
<1>11. \A i \in 1 .. Len(m) : Shows(m[i], Q[g[i]])
  <2> SUFFICES ASSUME NEW i \in 1 .. Len(m) PROVE Shows(m[i], Q[g[i]])
    OBVIOUS
  <2>1. CASE i = 1
    BY <1>1, <1>3, <1>7, <2>1
  <2>2. CASE i # 1
    <3>1. PICK i0 \in 1 .. Len(l) : i = i0 + 1
      BY <1>9, <2>2
    <3>2. m[i] = l[i0] /\ Q[g[i]] = R[f[i0]]
      BY <1>1, <1>3, <1>4, <1>7, <3>1
    <3> QED
      BY <1>2, <3>2 DEF Finds
  <2> QED
    BY <2>1, <2>2
<1>12. ASSUME NEW k \in 1 .. Len(Q), ~Q[k].jmp
       PROVE  \E i \in 1 .. Len(m) : g[i] = k
  <2>1. CASE k = 1
    <3>1. 1 \in 1 .. Len(m)
      BY <1>1
    <3> QED
      BY <1>7, <2>1, <3>1
  <2>2. CASE k # 1
    <3>1. k - 1 \in 1 .. Len(R) /\ (k - 1) + 1 = k
      BY <1>3, <2>2
    <3>2. ~R[k - 1].jmp
      BY <1>3, <1>12, <3>1
    <3>3. PICK i \in 1 .. Len(l) : f[i] = k - 1
      BY <1>2, <3>1, <3>2 DEF Finds
    <3>4. i + 1 \in 1 .. Len(m) /\ g[i + 1] = k
      BY <1>1, <1>7, <3>1, <3>3
    <3> QED
      BY <3>4
  <2> QED
    BY <2>1, <2>2
<1>13. Finds(g, m, Q)
  BY <1>8, <1>10, <1>11, <1>12 DEF Finds
<1>14. ASSUME NEW i \in 2 .. Len(m) PROVE LeftAt(c, g, m, Q, i)
  <2>1. i \in 1 .. Len(m) /\ i # 1 /\ i \in Nat
    BY <1>1
  <2>2. PICK j \in 1 .. Len(l) : i = j + 1
    BY <1>9, <2>1
  <2>3. m[i] = l[j] /\ i - 1 = j
    BY <1>1, <2>2
  <2>4. CASE j = 1
    <3>1. 1 \in 1 .. Len(R)
      <4>1. 1 \in 1 .. Len(l)
        BY <1>1
      <4> QED
        BY <1>3, <1>4, <4>1
    <3>2. Q[g[1] + 1] = R[1]
      BY <1>3, <1>7, <3>1
    <3> QED
      BY <1>1, <2>3, <2>4, <3>2 DEF LeftAt
  <2>5. CASE j # 1
    <3>1. j \in 2 .. Len(l) /\ j - 1 \in 1 .. Len(l) /\ (j - 1) + 1 = j
      BY <1>1, <2>5
    <3>2. LeftAt(c, f, l, R, j)
      BY <1>2, <3>1 DEF Left
    <3>3. m[j] = l[j - 1] /\ g[j] = f[j - 1] + 1
      BY <1>1, <1>7, <3>1
    (* The function below that of the entry above is where it was.        *)
    <3>4. f[j - 1] + 1 \in 1 .. Len(R)
      <4>1. j \in 1 .. Len(l) /\ j - 1 < j
        BY <1>1, <3>1
      <4>2. f[j - 1] < f[j]
        BY <1>2, <3>1, <4>1 DEF Finds
      <4>3. f[j - 1] \in 1 .. Len(R) /\ f[j] \in 1 .. Len(R)
        BY <1>4, <3>1, <4>1
      <4> DEFINE u == f[j - 1]
                 v == f[j]
      <4>4. u \in 1 .. Len(R) /\ v \in 1 .. Len(R) /\ u < v
        BY <4>2, <4>3
      <4> HIDE DEF u, v
      <4>5. u + 1 \in 1 .. Len(R)
        BY <1>3, <4>4
      <4> QED
        BY <4>5 DEF u
    <3>5. Q[g[j] + 1] = R[f[j - 1] + 1]
      BY <1>3, <3>3, <3>4
    <3> QED
      BY <2>3, <3>2, <3>3, <3>5 DEF LeftAt
  <2> QED
    BY <2>4, <2>5
<1>15. Len(m) > 0 /\ Left(c, g, m, Q)
  BY <1>1, <1>14 DEF Left
<1> QED
  BY <1>13, <1>15 DEF Linked

(* fnt_ret takes off all above the second call of the list.               *)
LEMMA PoppedWhere ==
    ASSUME NEW l \in Lists, NEW i \in 1 .. Len(l), NEW j \in i + 1 .. Len(l),
           ~l[i].jmp, ~l[j].jmp, \A k \in 1 .. i - 1 : l[k].jmp,
           \A k \in i + 1 .. j - 1 : l[k].jmp
    PROVE  From(Popped(l), l, j) /\ DropJumps(l) # << >>
<1>1. Len(l) \in Nat /\ i \in Nat /\ j \in Nat /\ j > i
  BY DEF Lists
<1> DEFINE d == DropJumps(l)
<1>2. PICK k \in 1 .. Len(l) + 1 :
            /\ From(d, l, k) /\ \A n \in 1 .. k - 1 : l[n].jmp
            /\ k <= Len(l) => ~l[k].jmp
  BY DropJumpsFrom
<1>3. k = i
  <2>1. ~(i \in 1 .. k - 1)
    BY <1>2
  <2>2. k <= i
    BY <1>1, <2>1
  <2>3. ~(k \in 1 .. i - 1)
    BY <1>1, <1>2, <2>2
  <2> QED
    BY <1>1, <2>2, <2>3
<1> HIDE DEF d
<1>4. /\ d \in Lists /\ Len(d) = Len(l) - i + 1 /\ Len(d) > 1
      /\ \A n \in 1 .. Len(d) : d[n] = l[n + i - 1]
  BY <1>1, <1>2, <1>3 DEF From
<1>5. d # << >> /\ d \in Seq(EntryAt)
  BY <1>4 DEF Lists
<1> DEFINE t == Tail(d)
<1>6. /\ t \in Lists /\ Len(t) = Len(d) - 1
      /\ \A n \in 1 .. Len(t) : t[n] = d[n + 1]
  BY <1>4, <1>5, HeadTailProperties DEF Lists
<1> HIDE DEF t
<1>7. Len(t) = Len(l) - i /\ Len(t) \in Nat
      /\ \A n \in 1 .. Len(t) : t[n] = l[n + i]
  <2>1. Len(t) = Len(l) - i /\ Len(t) \in Nat
    BY <1>1, <1>4, <1>6
  <2>2. ASSUME NEW n \in 1 .. Len(t) PROVE t[n] = l[n + i]
    <3>1. n + 1 \in 1 .. Len(d) /\ (n + 1) + i - 1 = n + i
      BY <1>1, <1>4, <1>6, <2>1
    <3>2. t[n] = d[n + 1]
      BY <1>6
    <3>3. d[n + 1] = l[(n + 1) + i - 1]
      BY <1>4, <3>1
    <3> QED
      BY <3>1, <3>2, <3>3
  <2> QED
    BY <2>1, <2>2
<1> DEFINE p == DropJumps(t)
<1>8. PICK h \in 1 .. Len(t) + 1 :
            /\ From(p, t, h) /\ \A n \in 1 .. h - 1 : t[n].jmp
            /\ h <= Len(t) => ~t[h].jmp
  BY <1>6, DropJumpsFrom
<1> HIDE DEF p
<1>9. h + i = j
  <2>1. j - i \in 1 .. Len(t) /\ (j - i) + i = j
    BY <1>1, <1>7
  <2>2. ~t[j - i].jmp
    BY <1>7, <2>1
  <2>3. ~(j - i \in 1 .. h - 1)
    BY <1>8, <2>2
  <2>4. h <= j - i
    BY <1>7, <2>1, <2>3
  <2>5. ASSUME h < j - i PROVE FALSE
    <3>1. h \in 1 .. Len(t) /\ h <= Len(t) /\ h + i \in i + 1 .. j - 1
      BY <1>1, <1>7, <2>1, <2>5
    <3>2. t[h] = l[h + i]
      BY <1>7, <3>1
    <3> QED
      BY <1>8, <3>1, <3>2
  <2> QED
    BY <1>1, <1>7, <2>1, <2>4, <2>5
<1>10. Popped(l) = p
  BY DEF Popped, p, t, d
<1>11. /\ p \in Lists /\ Len(p) = Len(t) - h + 1
       /\ \A n \in 1 .. Len(p) : p[n] = t[n + h - 1]
  BY <1>8 DEF From
<1>12. Len(p) = Len(l) - j + 1
  <2>1. h \in Nat
    BY <1>7
  <2>2. Len(p) = (Len(l) - i) - h + 1
    BY <1>7, <1>11
  <2> QED
    BY <1>1, <1>9, <2>1, <2>2
<1>13. ASSUME NEW n \in 1 .. Len(p) PROVE p[n] = l[n + j - 1]
  <2>1. n + h - 1 \in 1 .. Len(t) /\ (n + h - 1) + i = n + j - 1
    BY <1>1, <1>7, <1>9, <1>11
  <2>2. p[n] = t[n + h - 1]
    BY <1>11
  <2>3. t[n + h - 1] = l[(n + h - 1) + i]
    BY <1>7, <2>1
  <2> QED
    BY <2>1, <2>2, <2>3
<1>14. j \in 1 .. Len(l) + 1
  BY <1>1
<1>15. From(p, l, j)
  BY <1>11, <1>12, <1>13, <1>14 DEF From
<1> QED
  BY <1>5, <1>10, <1>15 DEF d

(* The call from which the slave is back is taken off, with all above it  *)
(* and with the jumps of its caller; what remains was left as it should.  *)
LEMMA LinkedPop ==
    ASSUME NEW c, NEW l \in Lists, NEW R \in Path, NEW Q,
           Linked(c, l, R), NEW k \in 1 .. Len(R), Shorter(Q, R, k),
           ~R[k].jmp, \A i \in 1 .. k - 1 : R[i].jmp, HasCall(Q)
    PROVE  /\ Linked(c, Popped(l), Q) /\ DropJumps(l) # << >>
           /\ Len(l) >= 2 /\ c[Popped(l)[1].rip].op # "ret"
           /\ FnIn(Popped(l)[1]) # Q[1].fn =>
                 c[Popped(l)[1].rip].op # "call"
<1>1. Len(l) \in Nat /\ Len(R) \in Nat /\ Len(Q) \in Nat
      /\ k \in Nat /\ k > 0 /\ Len(Q) = Len(R) - k
  BY PathEntries DEF Lists, Shorter
<1>2. PICK f : Finds(f, l, R) /\ Left(c, f, l, R)
  BY DEF Linked
<1>3. \A i \in 1 .. Len(l) : f[i] \in 1 .. Len(R) /\ f[i] \in Nat
  BY <1>2 DEF Finds
<1>4. \A i \in 1 .. Len(Q) : Q[i] = R[i + k] /\ i + k \in 1 .. Len(R)
  BY <1>1 DEF Shorter
<1>5. PICK i \in 1 .. Len(l) : f[i] = k
  BY <1>2 DEF Finds
<1>6. ASSUME NEW n \in 1 .. Len(l) PROVE l[n].jmp = R[f[n]].jmp
  BY <1>2 DEF Finds, Shows
<1>7. ~l[i].jmp
  BY <1>5, <1>6
<1>8. ASSUME NEW n \in 1 .. i - 1 PROVE l[n].jmp
  <2>1. n \in 1 .. Len(l) /\ n < i
    BY <1>1
  <2>2. f[n] \in 1 .. k - 1
    <3>1. f[n] < f[i]
      BY <1>2, <2>1 DEF Finds
    <3> QED
      BY <1>1, <1>3, <1>5, <2>1, <3>1
  <2> QED
    BY <1>6, <2>1, <2>2
(* The next call that is listed.                                          *)
<1> DEFINE N == {n \in i + 1 .. Len(l) : ~l[n].jmp}
<1>9. N # {}
  <2>1. PICK q \in 1 .. Len(Q) : ~Q[q].jmp
    BY DEF HasCall
  <2>2. q + k \in 1 .. Len(R) /\ ~R[q + k].jmp
    BY <1>4, <2>1
  <2>3. PICK n \in 1 .. Len(l) : f[n] = q + k
    BY <1>2, <2>2 DEF Finds
  <2>4. ~l[n].jmp
    BY <1>6, <2>2, <2>3
  <2>5. ~(n <= i)
    <3>1. n < i => f[n] < f[i]
      BY <1>2 DEF Finds
    <3>2. f[n] > f[i]
      BY <1>1, <1>5, <2>3
    <3> QED
      BY <1>1, <1>3, <3>1, <3>2
  <2>6. n \in N
    BY <1>1, <2>4, <2>5
  <2> QED
    BY <2>6
<1>10. PICK j \in N : \A n \in N : j <= n
  <2>1. N \in SUBSET Nat
    BY <1>1
  <2> HIDE DEF N
  <2> QED
    BY <1>9, <2>1, LeastNumber
<1>11. /\ j \in i + 1 .. Len(l) /\ ~l[j].jmp /\ j \in 2 .. Len(l)
       /\ j \in 1 .. Len(l) /\ j - 1 \in 1 .. Len(l)
       /\ \A n \in i + 1 .. j - 1 : l[n].jmp
  <2>1. j \in i + 1 .. Len(l) /\ ~l[j].jmp
    BY <1>10
  <2>2. ASSUME NEW n \in i + 1 .. j - 1, ~l[n].jmp PROVE FALSE
    <3>1. n \in N /\ ~(j <= n)
      BY <1>1, <2>1, <2>2
    <3> QED
      BY <1>10, <3>1
  <2> QED
    BY <1>1, <2>1, <2>2
<1> HIDE DEF N
<1> DEFINE m == Popped(l)
<1>12. From(m, l, j) /\ DropJumps(l) # << >>
  BY <1>7, <1>8, <1>11, PoppedWhere
<1> HIDE DEF m
<1>13. /\ m \in Lists /\ Len(m) = Len(l) - j + 1 /\ Len(m) \in Nat /\ Len(m) > 0
       /\ \A n \in 1 .. Len(m) : m[n] = l[n + j - 1]
       /\ \A n \in 1 .. Len(m) : n + j - 1 \in 1 .. Len(l)
  BY <1>1, <1>11, <1>12 DEF From
<1>14. \A n \in j .. Len(l) : f[n] > k
  <2> SUFFICES ASSUME NEW n \in j .. Len(l) PROVE f[n] > k
    OBVIOUS
  <2>1. n \in 1 .. Len(l) /\ i < n
    BY <1>1, <1>11
  <2>2. f[i] < f[n]
    BY <1>2, <2>1 DEF Finds
  <2> QED
    BY <1>1, <1>3, <1>5, <2>1, <2>2
<1> DEFINE g == [n \in 1 .. Len(m) |-> f[n + j - 1] - k]
<1>15. \A n \in 1 .. Len(m) : /\ g[n] = f[n + j - 1] - k
                              /\ g[n] \in 1 .. Len(Q)
                              /\ g[n] + k = f[n + j - 1]
                              /\ Q[g[n]] = R[f[n + j - 1]]
  <2> SUFFICES ASSUME NEW n \in 1 .. Len(m)
               PROVE  /\ g[n] = f[n + j - 1] - k /\ g[n] \in 1 .. Len(Q)
                      /\ g[n] + k = f[n + j - 1]
                      /\ Q[g[n]] = R[f[n + j - 1]]
    OBVIOUS
  <2>1. n + j - 1 \in 1 .. Len(l) /\ n + j - 1 \in j .. Len(l)
    BY <1>1, <1>11, <1>13
  <2>2. f[n + j - 1] \in 1 .. Len(R) /\ f[n + j - 1] > k
    BY <1>3, <1>14, <2>1
  <2>3. g[n] = f[n + j - 1] - k
    OBVIOUS
  <2> HIDE DEF g
  <2> DEFINE y == f[n + j - 1]
  <2>4. y \in 1 .. Len(R) /\ y > k /\ g[n] = y - k
    BY <2>2, <2>3
  <2> HIDE DEF y
  <2>5. g[n] \in 1 .. Len(Q) /\ g[n] + k = y
    BY <1>1, <2>4
  <2>6. Q[g[n]] = R[y]
    BY <1>4, <2>5
  <2> QED
    BY <2>3, <2>5, <2>6 DEF y
<1>16. g \in [1 .. Len(m) -> 1 .. Len(Q)]
  BY <1>15
<1> HIDE DEF g
<1>17. \A a, b \in 1 .. Len(m) : a < b => g[a] < g[b]
  <2> SUFFICES ASSUME NEW a \in 1 .. Len(m), NEW b \in 1 .. Len(m), a < b
               PROVE  g[a] < g[b]
    OBVIOUS
  <2>1. /\ a + j - 1 \in 1 .. Len(l) /\ b + j - 1 \in 1 .. Len(l)
        /\ a + j - 1 < b + j - 1
    BY <1>1, <1>11, <1>13
  <2>2. f[a + j - 1] < f[b + j - 1]
    BY <1>2, <2>1 DEF Finds
  <2>3. /\ g[a] = f[a + j - 1] - k /\ g[b] = f[b + j - 1] - k
        /\ f[a + j - 1] \in Nat /\ f[b + j - 1] \in Nat
    BY <1>3, <1>15, <2>1
  <2> QED
    BY <1>1, <2>2, <2>3
<1>18. \A n \in 1 .. Len(m) : Shows(m[n], Q[g[n]])
  BY <1>2, <1>13, <1>15 DEF Finds
<1>19. ASSUME NEW q \in 1 .. Len(Q), ~Q[q].jmp
       PROVE  \E n \in 1 .. Len(m) : g[n] = q
  <2>1. q + k \in 1 .. Len(R) /\ ~R[q + k].jmp
    BY <1>4, <1>19
  <2>2. PICK n \in 1 .. Len(l) : f[n] = q + k
    BY <1>2, <2>1 DEF Finds
  <2>3. ~l[n].jmp
    BY <1>6, <2>1, <2>2
  <2>4. n > i
    <3>1. n < i => f[n] < f[i]
      BY <1>2 DEF Finds
    <3>2. f[n] > f[i]
      BY <1>1, <1>5, <2>2
    <3> QED
      BY <1>1, <1>3, <3>1, <3>2
  <2>5. n >= j
    <3> SUFFICES ASSUME n < j PROVE FALSE
      BY <1>1, <1>11
    <3>1. n \in i + 1 .. j - 1
      BY <1>1, <1>11, <2>4
    <3> QED
      BY <1>11, <2>3, <3>1
  <2>6. n - j + 1 \in 1 .. Len(m) /\ (n - j + 1) + j - 1 = n
    BY <1>1, <1>11, <1>13, <2>5
  <2>7. g[n - j + 1] = f[n] - k
    BY <1>15, <2>6
  <2>8. f[n] - k = q
    BY <1>1, <2>2
  <2> QED
    BY <2>6, <2>7, <2>8
<1>20. Finds(g, m, Q)
  BY <1>16, <1>17, <1>18, <1>19 DEF Finds
<1>21. ASSUME NEW n \in 2 .. Len(m) PROVE LeftAt(c, g, m, Q, n)
  <2> DEFINE h == n + j - 1
  <2>1. /\ h \in 2 .. Len(l) /\ h \in 1 .. Len(l) /\ h - 1 \in 1 .. Len(l)
        /\ n \in 1 .. Len(m) /\ n - 1 \in 1 .. Len(m)
        /\ (n - 1) + j - 1 = h - 1 /\ h - 1 < h
    BY <1>1, <1>11, <1>13
  <2>2. m[n] = l[h] /\ m[n - 1] = l[h - 1] /\ g[n - 1] + k = f[h - 1]
    BY <1>13, <1>15, <2>1
  <2>3. LeftAt(c, f, l, R, h)
    BY <1>2, <2>1 DEF Left
  <2>4. Q[g[n - 1] + 1] = R[f[h - 1] + 1]
    <3>1. g[n - 1] < g[n]
      BY <1>17, <2>1
    <3>2. g[n - 1] \in 1 .. Len(Q) /\ g[n] \in 1 .. Len(Q)
      BY <1>15, <2>1
    <3> DEFINE x == g[n - 1]
    <3>3. x + 1 \in 1 .. Len(Q) /\ (x + 1) + k = f[h - 1] + 1
      <4>1. x \in 1 .. Len(Q) /\ g[n] \in 1 .. Len(Q) /\ x < g[n]
        BY <3>1, <3>2
      <4>2. x + k = f[h - 1]
        BY <2>2
      <4> HIDE DEF x, h
      <4>3. x + 1 \in 1 .. Len(Q)
        BY <1>1, <4>1
      <4>4. (x + 1) + k = (x + k) + 1
        BY <1>1, <4>1
      <4> QED
        BY <4>2, <4>3, <4>4
    <3>4. Q[x + 1] = R[(x + 1) + k]
      BY <1>4, <3>3
    <3> QED
      BY <3>3, <3>4
  <2> HIDE DEF h
  <2> QED
    BY <2>2, <2>3, <2>4 DEF LeftAt
<1>22. Linked(c, m, Q)
  BY <1>13, <1>20, <1>21 DEF Linked, Left
(* How the caller was left.                                               *)
<1>23. m[1] = l[j] /\ LeftAt(c, f, l, R, j)
  <2>1. 1 \in 1 .. Len(m) /\ 1 + j - 1 = j
    BY <1>1, <1>11, <1>13
  <2>2. m[1] = l[j]
    BY <1>13, <2>1
  <2> QED
    BY <1>2, <1>11, <2>2 DEF Left
<1>24. ASSUME FnIn(m[1]) # Q[1].fn PROVE c[m[1].rip].op # "call"
  <2>1. CASE l[j - 1].jmp
    BY <1>23, <2>1 DEF LeftAt
  <2>2. CASE ~l[j - 1].jmp
    <3>1. j - 1 = i
      <4> SUFFICES ASSUME j - 1 # i PROVE FALSE
        OBVIOUS
      <4>1. j - 1 \in i + 1 .. j - 1
        BY <1>1, <1>11
      <4> QED
        BY <1>11, <2>2, <4>1
    <3>2. FnIn(l[j]) = R[k + 1].fn
      BY <1>5, <1>23, <2>2, <3>1 DEF LeftAt
    <3>3. Q[1] = R[1 + k]
      <4>1. 1 \in 1 .. Len(Q)
        <5>1. 1 \in 1 .. Len(m)
          BY <1>13
        <5>2. g[1] \in 1 .. Len(Q)
          BY <1>15, <5>1
        <5> QED
          BY <1>1, <5>2
      <4> QED
        BY <1>4, <4>1
    <3>4. 1 + k = k + 1
      BY <1>1
    <3> QED
      BY <1>23, <1>24, <3>2, <3>3, <3>4
  <2> QED
    BY <2>1, <2>2
<1>25. c[m[1].rip].op # "ret"
  BY <1>23 DEF LeftAt
<1>26. Len(l) >= 2
  BY <1>1, <1>11
<1> QED
  BY <1>12, <1>22, <1>24, <1>25, <1>26 DEF m

-------------------------------------------------------------------------
(* The functions of the entries.                                          *)

(* An entry's function is one that fnt_new found somewhere; no entry      *)
(* reaches over a place of another function.                              *)
Made(e) == \E x \in Code : /\ e.start = FntOf(x).start
                           /\ e.unknown = FntOf(x).unknown
AllMade(l) == \A i \in 1 .. Len(l) : Made(l[i])
Narrow(l, a) == \A i \in 1 .. Len(l) :
                   l[i].start <= a /\ a < l[i].end => FnIn(l[i]) = FnAt(a)

(* The start of a function found anywhere is found itself.                *)
LEMMA StartIsFound ==
    ASSUME NEW a \in Code, NEW s \in FoundAt(a)
    PROVE  s \in Symbols /\ FoundAt(s.start) # {}
<1>1. Named[FALSE][a] \subseteq FntPltSym(a) \cup FntSym(a, FALSE)
      /\ Unsized[FALSE][a] = FntSymNosz(a, FALSE)
  BY DEF Named, Unsized
<1>2. \/ s \in FntPltSym(a) \/ s \in FntSym(a, FALSE)
      \/ s \in FntSymNosz(a, FALSE)
  BY <1>1 DEF FoundAt
<1>3. s \in Symbols
  BY <1>2 DEF FntPltSym, FntSym, FntSymNosz, LocalTable, OwnTable, SharedTable
<1>4. s.start \in Code /\ s.start \in Nat /\ s.size \in Nat /\ a \in Nat
  BY <1>3, SymbolTypes, ProgramAssumption
<1>5. Named[FALSE][s.start] = IF FntPltSym(s.start) # {} THEN FntPltSym(s.start)
                              ELSE FntSym(s.start, FALSE)
  BY <1>4 DEF Named
<1>6. CASE s \in FntPltSym(a)
  <2>1. Covers(s, s.start) /\ s.plt
    BY <1>4, <1>6 DEF FntPltSym, Covers
  <2>2. s \in FntPltSym(s.start)
    BY <1>3, <2>1 DEF FntPltSym
  <2> QED
    BY <1>3, <1>5, <2>2 DEF FoundAt
<1>7. CASE s \in FntSym(a, FALSE) \cup FntSymNosz(a, FALSE)
  <2>1. \/ s \in LocalTable(FALSE) /\ s.start \in Local
        \/ s \in OwnTable \cup SharedTable /\ s.start \notin Local
    BY <1>3, <1>7, SymbolAssumption
       DEF FntSym, FntSymNosz, LocalTable, OwnTable, SharedTable
  <2>2. \/ s \in LocalTable(FALSE) /\ s.start \in Local
        \/ s \in OwnTable /\ s.start \notin Local
        \/ s \in SharedTable /\ s.start \notin Local
    BY <2>1
  <2>3. FntSym(s.start, FALSE) # {}
    BY <2>2 DEF FntSym
  <2> QED
    BY <1>3, <1>5, <2>3 DEF FoundAt
<1> QED
  BY <1>2, <1>6, <1>7

(* No function that is known starts where an unknown one does.            *)
LEMMA KnownApart ==
    ASSUME NEW x \in Code, NEW y \in Code, FntOf(x).unknown, ~FntOf(y).unknown
    PROVE  /\ FntOf(x).start # FntOf(y).start /\ FnAt(x) = 0 /\ FnAt(y) # 0
<1>1. FoundAt(x) = {} /\ FntOf(x).start = x
  <2>1. CASE FoundAt(x) # {}
    <3>1. PICK s : FntOf(x) = Entered(s, x, FALSE)
      BY <2>1 DEF FntOf
    <3>2. ~FntOf(x).unknown
      BY <3>1 DEF Entered
    <3> QED
      BY <3>2
  <2>2. CASE FoundAt(x) = {}
    <3>1. FntOf(x) = Entered([start |-> x, size |-> 0, plt |-> FALSE,
                              own |-> FALSE], x, TRUE)
      BY <2>2 DEF FntOf
    <3> QED
      BY <2>2, <3>1 DEF Entered
  <2> QED
    BY <2>1, <2>2
<1>2. PICK s \in FoundAt(y) : FntOf(y).start = s.start
  <2>1. CASE FoundAt(y) = {}
    <3>1. FntOf(y) = Entered([start |-> y, size |-> 0, plt |-> FALSE,
                              own |-> FALSE], y, TRUE)
      BY <2>1 DEF FntOf
    <3>2. FntOf(y).unknown
      BY <3>1 DEF Entered
    <3> QED
      BY <3>2
  <2>2. CASE FoundAt(y) # {}
    <3>1. PICK s \in FoundAt(y) : FntOf(y) = Entered(s, y, FALSE)
      BY <2>2 DEF FntOf
    <3>2. FntOf(y).start = s.start
      BY <3>1 DEF Entered
    <3> QED
      BY <3>2
  <2> QED
    BY <2>1, <2>2
<1>3. s \in Symbols /\ FoundAt(s.start) # {} /\ s.start # 0
  BY StartIsFound, SymbolTypes
<1>4. FntOf(y).start # x
  BY <1>1, <1>2, <1>3
<1> QED
  BY <1>1, <1>2, <1>3, <1>4 DEF FnAt

(* So fnt_same goes by the function.                                      *)
LEMMA SameFunction ==
    ASSUME NEW a \in Code, NEW e, Made(e)
    PROVE  SameFnt(FntOf(a), e) <=> FnIn(e) = FnAt(a)
<1>1. PICK x \in Code : e.start = FntOf(x).start /\ e.unknown = FntOf(x).unknown
  BY DEF Made
<1>2. FnIn(e) = FnAt(x)
  BY <1>1, Zenon DEF FnIn, FnAt
<1>3. SameFnt(FntOf(a), e) <=> SameFnt(FntOf(a), FntOf(x))
  BY <1>1, Zenon DEF SameFnt
<1>4. CASE FntOf(a).unknown /\ FntOf(x).unknown
  BY <1>2, <1>3, <1>4 DEF SameFnt, FnAt
<1>5. CASE FntOf(a).unknown /\ ~FntOf(x).unknown
  <2>1. FntOf(a).start # FntOf(x).start /\ FnAt(a) # FnAt(x)
    BY <1>5, KnownApart
  <2> QED
    BY <1>2, <1>3, <1>5, <2>1 DEF SameFnt
<1>6. CASE ~FntOf(a).unknown /\ FntOf(x).unknown
  <2>1. FntOf(a).start # FntOf(x).start /\ FnAt(a) # FnAt(x)
    BY <1>6, KnownApart
  <2> QED
    BY <1>2, <1>3, <1>6, <2>1 DEF SameFnt
<1>7. CASE ~FntOf(a).unknown /\ ~FntOf(x).unknown
  BY <1>2, <1>3, <1>7 DEF SameFnt, FnAt
<1> QED
  BY <1>4, <1>5, <1>6, <1>7

(* The entry of a function with a size covers all of it.                  *)
LEMMA SizedTop ==
    ASSUME SymbolsApart, NEW a \in Code, NEW l \in Lists, Len(l) > 0,
           Formed(l[1]), FnIn(l[1]) = FnAt(a), Sure(a)
    PROVE  InTop(l, a)
<1>1. PICK s \in Plain : Covers(s, a) /\ IsSymbol(FntOf(a), s)
  BY DEF Sure
<1>2. s \in Symbols /\ s.start \in Nat /\ s.start # 0 /\ s.size \in Nat /\ s.size > 0
      /\ Covers(s, s.start)
  <2>1. s \in Symbols
    BY DEF Plain
  <2> QED
    BY <1>1, <2>1, SymbolTypes DEF Covers, IsSymbol
<1>3. FnAt(a) = s.start
  BY <1>1 DEF FnAt, IsSymbol
<1>4. l[1].start = s.start
  BY <1>2, <1>3 DEF FnIn
<1>5. ~Free(l[1].start)
  BY <1>2, <1>4 DEF Free
<1>6. PICK t \in Symbols : IsSymbol(l[1], t)
  BY <1>5 DEF Formed
<1>7. t.start = s.start /\ t.size > 0
  BY <1>4, <1>6 DEF IsSymbol
<1>8. t.size = s.size
  BY <1>2, <1>7 DEF SymbolsApart
<1> QED
  BY <1>1, <1>6, <1>7, <1>8 DEF InTop, IsSymbol, Covers

(* A visit leaves an entry's function as it is, a new entry has that of   *)
(* its address, and is a jump's if the place left was no call.            *)
LEMMA EntryFunction ==
    ASSUME Types, ~stripped, NEW a \in Code
    PROVE  /\ \A e \in EntryAt :
                /\ FnIn(Seen1(e, a)) = FnIn(e) /\ FnIn(Seen2(e, a)) = FnIn(e)
                /\ Seen1(e, a).jmp = e.jmp /\ Seen2(e, a).jmp = e.jmp
           /\ \A l, int3 :
                /\ FnIn(Entry1(l, a, int3)) = FnAt(a)
                /\ FntPltSym(a) = {} =>
                      Entry1(l, a, int3).jmp = Jumped(l, int3)
<1>1. ASSUME NEW e \in EntryAt
      PROVE  /\ FnIn(Seen1(e, a)) = FnIn(e) /\ FnIn(Seen2(e, a)) = FnIn(e)
             /\ Seen1(e, a).jmp = e.jmp /\ Seen2(e, a).jmp = e.jmp
  <2>1. /\ Seen1(e, a).start = e.start /\ Seen1(e, a).unknown = e.unknown
        /\ Seen2(e, a).start = e.start /\ Seen2(e, a).unknown = e.unknown
    BY EntryFields
  <2>2. Seen1(e, a).jmp = e.jmp /\ Seen2(e, a).jmp = e.jmp
    BY DEF Seen1, Seen2, EntryAt
  <2> QED
    BY <2>1, <2>2, Zenon DEF FnIn
<1>2. ASSUME NEW l, NEW int3
      PROVE  /\ FnIn(Entry1(l, a, int3)) = FnAt(a)
             /\ FntPltSym(a) = {} =>
                   Entry1(l, a, int3).jmp = Jumped(l, int3)
  <2>1. /\ Entry1(l, a, int3).start = FntOf(a).start
        /\ Entry1(l, a, int3).unknown = FntOf(a).unknown
    BY EntryFields
  <2>2. FnIn(Entry1(l, a, int3)) = FnAt(a)
    BY <2>1, Zenon DEF FnIn, FnAt
  <2>3. ASSUME FntPltSym(a) = {}
        PROVE  Entry1(l, a, int3).jmp = Jumped(l, int3)
    <3> DEFINE e == FntNew(a)
               j == e.jmp \/ Jumped(l, int3)
    <3>1. e \in EntryAt /\ ~e.jmp
      BY <2>3, FntNewShape
    <3>2. Entry1(l, a, int3) = [e EXCEPT !.jmp = j]
      BY DEF Entry1
    <3>3. j = Jumped(l, int3)
      <4>1. Jumped(l, int3) \in BOOLEAN
        BY DEF Jumped
      <4> QED
        BY <3>1, <4>1
    <3> HIDE DEF e, j
    <3>4. Entry1(l, a, int3).jmp = j
      BY <3>1, <3>2 DEF EntryAt
    <3> QED
      BY <3>3, <3>4
  <2> QED
    BY <2>2, <2>3
<1> QED
  BY <1>1, <1>2

(* After an update in a function the entries are still made of functions, *)
(* and reach over no place of that function but those of its own.         *)
LEMMA ShapeKept ==
    ASSUME Types, ~stripped, NEW l \in Lists, NEW m \in Lists, NEW a \in Code,
           NEW b \in Code, NEW int3, Updated(m, l, a, int3), AllMade(l),
           Narrow(l, b), FnAt(b) = FnAt(a)
    PROVE  AllMade(m) /\ Narrow(m, b)
<1> DEFINE Good(e) == /\ Made(e)
                      /\ e.start <= b /\ b < e.end => FnIn(e) = FnAt(b)
<1>1. Len(l) \in Nat /\ Len(m) \in Nat
      /\ \A i \in 1 .. Len(l) : l[i] \in EntryAt /\ Good(l[i])
  BY DEF Lists, AllMade, Narrow
<1>2. \A e, e0 : /\ Made(e0) /\ e.start = e0.start /\ e.unknown = e0.unknown
                 => Made(e)
  BY DEF Made
<1>3. ASSUME NEW e, WithTop(m, l, e), Good(e)
      PROVE  \A i \in 1 .. Len(m) : Good(m[i])
  <2>1. Len(m) = Len(l) /\ m[1] = e /\ \A i \in 2 .. Len(l) : m[i] = l[i]
    BY <1>3 DEF WithTop
  <2>2. \A i \in 1 .. Len(m) : i = 1 \/ (i \in 2 .. Len(l) /\ i \in 1 .. Len(l))
    BY <1>1, <2>1
  <2> HIDE DEF Good
  <2> QED
    BY <1>1, <1>3, <2>1, <2>2
<1>4. CASE Patched(m, l, a)
  <2>1. InTop(l, a) /\ WithTop(m, l, Seen1(l[1], a)) /\ 1 \in 1 .. Len(l)
    BY <1>1, <1>4 DEF Patched, WithTop
  <2> DEFINE e == Seen1(l[1], a)
  <2>2. /\ e.start = l[1].start /\ e.end = l[1].end
        /\ e.unknown = l[1].unknown /\ FnIn(e) = FnIn(l[1])
    BY <1>1, <2>1, EntryFields, EntryFunction
  <2> HIDE DEF e
  <2>3. Good(e)
    BY <1>1, <1>2, <2>1, <2>2
  <2> QED
    BY <1>3, <2>1, <2>3 DEF e, AllMade, Narrow
<1>5. CASE Returned(m, l, int3)
  <2>1. PICK k \in 2 .. Len(l) + 1 : From(m, l, k)
    BY <1>5 DEF Returned
  <2>2. \A i \in 1 .. Len(m) : m[i] = l[i + k - 1] /\ i + k - 1 \in 1 .. Len(l)
    BY <1>1, <2>1 DEF From
  <2>3. \A i \in 1 .. Len(m) : Good(m[i])
    <3> HIDE DEF Good
    <3> QED
      BY <1>1, <2>2
  <2> QED
    BY <2>3 DEF AllMade, Narrow
<1>6. CASE Stayed(m, l, a)
  <2>1. Same(l, a) /\ WithTop(m, l, Seen2(l[1], a)) /\ 1 \in 1 .. Len(l)
    BY <1>1, <1>6 DEF Stayed, WithTop
  <2>2. Made(l[1])
    BY <1>1, <2>1
  <2>3. FnIn(l[1]) = FnAt(a)
    BY <2>1, <2>2, SameIs, SameFunction DEF SameAt
  <2> DEFINE e == Seen2(l[1], a)
  <2>4. e.start = l[1].start /\ e.unknown = l[1].unknown /\ FnIn(e) = FnIn(l[1])
    BY <1>1, <2>1, EntryFields, EntryFunction
  <2> HIDE DEF e
  <2>5. Good(e)
    BY <1>2, <2>2, <2>3, <2>4
  <2> QED
    BY <1>3, <2>1, <2>5 DEF e, AllMade, Narrow
<1>7. CASE Entered1(m, l, a, int3)
  <2> DEFINE e == Entry1(l, a, int3)
  <2>1. Len(m) = Len(l) + 1 /\ m[1] = e
        /\ \A i \in 1 .. Len(l) : m[i + 1] = l[i]
    BY <1>7 DEF Entered1, OnTop
  <2>2. /\ e.start = FntOf(a).start /\ e.unknown = FntOf(a).unknown
        /\ FnIn(e) = FnAt(a)
    BY EntryFields, EntryFunction
  <2> HIDE DEF e
  <2>3. Good(e)
    BY <2>2 DEF Made
  <2>4. \A i \in 1 .. Len(m) : i = 1 \/ (i - 1 \in 1 .. Len(l) /\ (i - 1) + 1 = i)
    BY <1>1, <2>1
  <2>5. \A i \in 1 .. Len(m) : Good(m[i])
    <3> HIDE DEF Good
    <3> QED
      BY <1>1, <2>1, <2>3, <2>4
  <2> QED
    BY <2>5 DEF AllMade, Narrow
<1> QED
  BY <1>4, <1>5, <1>6, <1>7 DEF Updated

-------------------------------------------------------------------------
(* One update of a list that is linked to what the slave's stack says.    *)

(* Nothing was left that an update at a, which is in the function that    *)
(* should be on top, could take for a call or a return.                   *)
Read(c, a, int3) == IF a \in int3 THEN "int3" ELSE c[a].op
Quiet(c, l, a, int3) ==
    \/ /\ FnIn(l[1]) = FnAt(a)
       /\ Read(c, l[1].rip, int3) # "ret" \/ Sure(a)
    \/ FnIn(l[1]) # FnAt(a) /\ c[l[1].rip].op \notin {"call", "ret"}

(* The slave is where it was last seen; or it is back from a call, and    *)
(* the function on top was left by that call, or by a jump out of it.     *)
Met(l, a) == l[1].rip = a /\ FnIn(l[1]) = FnAt(a)
Behind(c, l, a) == /\ c[l[1].rip].op # "ret"
                   /\ FnIn(l[1]) # FnAt(a) => c[l[1].rip].op # "call"

(* The slave was seen in the function on top, or an update would not see  *)
(* that function in the place where it is now.                            *)
LEMMA TopCases ==
    ASSUME Types, ~stripped, NEW l \in Lists, NEW m \in Lists, NEW a \in Code,
           NEW int3, Updated(m, l, a, int3), Len(l) > 0, AllMade(l),
           Narrow(l, a)
    PROVE  /\ InTop(l, a) => FnIn(l[1]) = FnAt(a)
           /\ Same(l, a) <=> FnIn(l[1]) = FnAt(a)
           /\ l # << >> /\ l[1] \in EntryAt
<1>1. Len(l) \in Nat /\ 1 \in 1 .. Len(l) /\ l[1] \in EntryAt /\ l # << >>
  BY DEF Lists
<1>2. InTop(l, a) => FnIn(l[1]) = FnAt(a)
  BY <1>1 DEF InTop, Narrow
<1>3. Made(l[1])
  BY <1>1 DEF AllMade
<1>4. SameAt(l, a) <=> FnIn(l[1]) = FnAt(a)
  BY <1>1, <1>3, SameFunction DEF SameAt
<1> QED
  BY <1>1, <1>2, <1>4, SameIs

(* An update in the function that should be on top puts it there.         *)
LEMMA Revisits ==
    ASSUME Types, ~stripped, SymbolsApart, NEW l \in Lists, NEW m \in Lists,
           NEW a \in Code, NEW int3, Updated(m, l, a, int3),
           FntPltSym(a) = {}, NEW R \in Path, Linked(code, l, R),
           R[1].fn = FnAt(a), AllFormed(l), AllMade(l), Narrow(l, a),
           Quiet(code, l, a, int3)
    PROVE  Linked(code, m, R) /\ Met(m, a)
<1>1. Len(l) > 0 /\ Len(l) \in Nat
  BY DEF Linked, Lists
<1>2. /\ InTop(l, a) => FnIn(l[1]) = FnAt(a)
      /\ Same(l, a) <=> FnIn(l[1]) = FnAt(a)
      /\ l # << >> /\ l[1] \in EntryAt
  BY <1>1, TopCases
<1>3. CASE Patched(m, l, a)
  <2> DEFINE e == Seen1(l[1], a)
  <2>1. WithTop(m, l, e) /\ FnIn(l[1]) = FnAt(a)
    BY <1>2, <1>3 DEF Patched
  <2>2. FnIn(e) = FnIn(l[1]) /\ e.jmp = l[1].jmp /\ e.rip = a
    BY <1>2, EntryFunction, EntryFields
  <2> HIDE DEF e
  <2>3. Linked(code, m, R)
    BY <2>1, <2>2, LinkedRetop
  <2> QED
    BY <2>1, <2>2, <2>3 DEF WithTop, Met
<1>4. CASE ~InTop(l, a) /\ Returned(m, l, int3)
  <2>1. Read(code, l[1].rip, int3) = "ret" /\ code[l[1].rip].op = "ret"
    BY <1>4 DEF Returned, Returns, Decoded, Read
  <2>2. FnIn(l[1]) = FnAt(a) /\ Sure(a)
    BY <2>1 DEF Quiet
  <2>3. Formed(l[1])
    BY <1>1 DEF AllFormed
  <2> QED
    BY <1>1, <1>4, <2>2, <2>3, SizedTop
<1>5. CASE Stayed(m, l, a)
  <2> DEFINE e == Seen2(l[1], a)
  <2>1. WithTop(m, l, e) /\ FnIn(l[1]) = FnAt(a)
    BY <1>2, <1>5 DEF Stayed
  <2>2. FnIn(e) = FnIn(l[1]) /\ e.jmp = l[1].jmp /\ e.rip = a
    BY <1>2, EntryFunction, EntryFields
  <2> HIDE DEF e
  <2>3. Linked(code, m, R)
    BY <2>1, <2>2, LinkedRetop
  <2> QED
    BY <2>1, <2>2, <2>3 DEF WithTop, Met
<1>6. CASE Entered1(m, l, a, int3)
  <2> DEFINE e == Entry1(l, a, int3)
  <2>1. OnTop(m, l, e) /\ FnIn(l[1]) # FnAt(a)
    BY <1>2, <1>6 DEF Entered1
  <2>2. code[l[1].rip].op \notin {"call", "ret"}
    BY <2>1 DEF Quiet
  <2>3. Jumped(l, int3) = TRUE
    BY <1>2, <2>2 DEF Jumped, Decoded
  <2>4. FnIn(e) = FnAt(a) /\ e.jmp = TRUE /\ e.rip = a
    BY <2>3, EntryFunction, EntryFields
  <2> HIDE DEF e
  <2>5. Linked(code, m, R)
    BY <2>1, <2>2, <2>4, LinkedCatchUp
  <2> QED
    BY <2>1, <2>4, <2>5 DEF OnTop, Met
<1> QED
  BY <1>3, <1>4, <1>5, <1>6 DEF Updated

(* An update in a function just called or jumped to lists it.             *)
LEMMA Enters ==
    ASSUME Types, ~stripped, NEW l \in Lists, NEW m \in Lists,
           NEW a \in Code, NEW int3, Updated(m, l, a, int3),
           FntPltSym(a) = {}, NEW R \in Path, Linked(code, l, R),
           AllMade(l), Narrow(l, a), FnIn(l[1]) = R[1].fn,
           FnIn(l[1]) # FnAt(a), l[1].rip \notin int3,
           code[l[1].rip].op # "ret", NEW Q,
           Longer(Q, R, [fn |-> FnAt(a),
                         jmp |-> code[l[1].rip].op # "call"])
    PROVE  Linked(code, m, Q) /\ Met(m, a)
<1>1. Len(l) > 0 /\ Len(l) \in Nat
  BY DEF Linked, Lists
<1>2. /\ InTop(l, a) => FnIn(l[1]) = FnAt(a)
      /\ Same(l, a) <=> FnIn(l[1]) = FnAt(a)
      /\ l # << >> /\ l[1] \in EntryAt
  BY <1>1, TopCases
<1>3. Decoded(l[1].rip, int3) = code[l[1].rip].op
  BY DEF Decoded
<1>4. Entered1(m, l, a, int3)
  BY <1>2, <1>3 DEF Updated, Patched, Returned, Returns, Stayed
<1> DEFINE e == Entry1(l, a, int3)
           j == code[l[1].rip].op # "call"
           x == [fn |-> FnAt(a), jmp |-> j]
<1>5. OnTop(m, l, e)
  BY <1>4 DEF Entered1
<1>6. Jumped(l, int3) = j
  BY <1>2, <1>3 DEF Jumped
<1>7. FnIn(e) = FnAt(a) /\ e.jmp = j /\ e.rip = a
  BY <1>6, EntryFunction, EntryFields
<1>9. Shows(e, x)
  BY <1>7 DEF Shows
<1>10. e.jmp => code[l[1].rip].op # "call"
  BY <1>7
<1> HIDE DEF e, j, x
<1>11. Longer(Q, R, x)
  BY DEF j, x
<1>12. Linked(code, m, Q)
  BY <1>5, <1>9, <1>10, <1>11, LinkedEnter
<1> QED
  BY <1>5, <1>7, <1>12 DEF OnTop, Met

(* Q is R without its newest call and the jumps made in it.               *)
BackFrom(Q, R) ==
    \E k \in 1 .. Len(R) : /\ Shorter(Q, R, k) /\ ~R[k].jmp
                           /\ \A i \in 1 .. k - 1 : R[i].jmp

(* An update in another function behind a return takes off the call.      *)
LEMMA GoesBack ==
    ASSUME Types, ~stripped, NEW l \in Lists, NEW m \in Lists,
           NEW a \in Code, NEW int3, Updated(m, l, a, int3),
           NEW R \in Path, Linked(code, l, R), AllMade(l), Narrow(l, a),
           FnIn(l[1]) # FnAt(a), Read(code, l[1].rip, int3) = "ret",
           NEW Q, BackFrom(Q, R), HasCall(Q), Q[1].fn = FnAt(a)
    PROVE  Linked(code, m, Q) /\ Behind(code, m, a)
<1>1. Len(l) > 0 /\ Len(l) \in Nat
  BY DEF Linked, Lists
<1>2. InTop(l, a) => FnIn(l[1]) = FnAt(a)
  BY <1>1, TopCases
<1>3. /\ Linked(code, Popped(l), Q) /\ Len(l) >= 2
      /\ code[Popped(l)[1].rip].op # "ret"
      /\ FnIn(Popped(l)[1]) # Q[1].fn => code[Popped(l)[1].rip].op # "call"
  BY LinkedPop DEF BackFrom
<1>4. Returns(l, int3)
  BY <1>3 DEF Returns, Decoded, Read
<1>5. m = Popped(l)
  BY <1>2, <1>4 DEF Updated, Patched, Returned, Entered1
<1> QED
  BY <1>3, <1>5 DEF Behind

-------------------------------------------------------------------------
(* The slave's stack.                                                     *)

(* Below every frame that is listed is what was to be listed before.      *)
FrameInv ==
    /\ \A k \in 1 .. Len(frames) : HasCall(frames[k].list)
    /\ \A k \in 1 .. Len(frames) - 1 :
          frames[k].listed => BackFrom(frames[k + 1].list, frames[k].list)

(* One more function on top.                                              *)
LEMMA OneLonger ==
    ASSUME NEW R \in Path, NEW x \in Called
    PROVE  Longer(<<x>> \o R, R, x)
<1>1. R \in Seq(Called) /\ <<x>> \in Seq(Called) /\ Len(R) \in Nat
  BY DEF Path, Called
<1>2. <<x>> \o R \in Path
  BY <1>1 DEF Path, Called
<1>3. Len(<<x>> \o R) = Len(R) + 1 /\ (<<x>> \o R)[1] = x
  BY <1>1
<1>4. ASSUME NEW i \in 1 .. Len(R) PROVE (<<x>> \o R)[i + 1] = R[i]
  BY <1>1
<1> QED
  BY <1>2, <1>3, <1>4 DEF Longer

(* It leaves the calls where they are, and is the newest if it is one.    *)
LEMMA LongerCalls ==
    ASSUME NEW R \in Path, NEW Q, NEW x, Longer(Q, R, x)
    PROVE  /\ HasCall(R) => HasCall(Q)
           /\ ~x.jmp => HasCall(Q) /\ BackFrom(R, Q)
           /\ x.jmp => \A P : BackFrom(P, R) => BackFrom(P, Q)
<1>1. /\ Len(R) \in Nat /\ Len(Q) = Len(R) + 1 /\ Q[1] = x
      /\ \A i \in 1 .. Len(R) : Q[i + 1] = R[i] /\ i + 1 \in 1 .. Len(Q)
      /\ 1 \in 1 .. Len(Q)
  <2>1. Len(R) \in Nat
    BY PathEntries
  <2> QED
    BY <2>1 DEF Longer
<1>2. HasCall(R) => HasCall(Q)
  BY <1>1 DEF HasCall
<1>3. ASSUME ~x.jmp PROVE HasCall(Q) /\ BackFrom(R, Q)
  <2>1. HasCall(Q)
    BY <1>1, <1>3 DEF HasCall
  <2>2. Shorter(R, Q, 1)
    BY <1>1 DEF Shorter
  <2>3. \A i \in 1 .. 1 - 1 : Q[i].jmp
    OBVIOUS
  <2> QED
    BY <1>1, <1>3, <2>1, <2>2, <2>3 DEF BackFrom
<1>4. ASSUME x.jmp, NEW P, BackFrom(P, R) PROVE BackFrom(P, Q)
  <2>1. PICK k \in 1 .. Len(R) : /\ Shorter(P, R, k) /\ ~R[k].jmp
                                 /\ \A i \in 1 .. k - 1 : R[i].jmp
    BY <1>4 DEF BackFrom
  <2>2. k \in Nat /\ k + 1 \in 1 .. Len(Q) /\ ~Q[k + 1].jmp
    BY <1>1, <2>1
  <2>3. ASSUME NEW i \in 1 .. (k + 1) - 1 PROVE Q[i].jmp
    <3>1. i = 1 \/ (i - 1 \in 1 .. k - 1 /\ i - 1 \in 1 .. Len(R)
                    /\ (i - 1) + 1 = i)
      BY <1>1, <2>2
    <3>2. CASE i = 1
      BY <1>1, <1>4, <3>2
    <3>3. CASE i # 1
      <4>1. Q[i] = R[i - 1] /\ R[i - 1].jmp
        BY <1>1, <2>1, <3>1, <3>3
      <4> QED
        BY <4>1
    <3> QED
      BY <3>2, <3>3
  <2>4. Shorter(P, Q, k + 1)
    <3>1. Len(P) = Len(Q) - (k + 1) /\ Len(P) = Len(R) - k
      BY <1>1, <2>1, <2>2 DEF Shorter
    <3>2. ASSUME NEW i \in 1 .. Len(P) PROVE P[i] = Q[i + (k + 1)]
      <4>1. i + k \in 1 .. Len(R) /\ (i + k) + 1 = i + (k + 1)
        BY <1>1, <2>2, <3>1
      <4>2. Q[(i + k) + 1] = R[i + k]
        BY <1>1, <4>1
      <4>3. P[i] = R[i + k]
        BY <2>1 DEF Shorter
      <4> QED
        BY <4>1, <4>2, <4>3
    <3> QED
      BY <2>1, <3>1, <3>2 DEF Shorter
  <2> QED
    BY <2>2, <2>3, <2>4 DEF BackFrom
<1> QED
  BY <1>2, <1>3, <1>4

(* What an instruction does to the stack.                                 *)
LEMMA ExecuteFrames ==
    ASSUME IType, Execute
    PROVE  \/ /\ code[pc].op = "call" /\ pc \notin armed /\ returned' = FALSE
              /\ Len(frames') = Len(frames) + 1
              /\ \A k \in 1 .. Len(frames) : frames'[k + 1] = frames[k]
              /\ frames'[1].listed <=> FnOf(pc') # FnOf(pc)
              /\ FnOf(pc') = FnOf(pc) => frames'[1].list = frames[1].list
              /\ FnOf(pc') # FnOf(pc) =>
                    Longer(frames'[1].list, frames[1].list, In(pc', FALSE))
           \/ /\ code[pc].op = "ret" /\ pc \notin armed /\ returned' = TRUE
              /\ Len(frames) > 1 /\ Len(frames') = Len(frames) - 1
              /\ \A k \in 1 .. Len(frames) - 1 : frames'[k] = frames[k + 1]
           \/ /\ code[pc].op \notin {"call", "ret"} /\ pc \notin armed
              /\ returned' = FALSE
              /\ FnOf(pc') = FnOf(pc) => frames' = frames
              /\ FnOf(pc') # FnOf(pc) =>
                    /\ Len(frames') = Len(frames)
                    /\ \A k \in 2 .. Len(frames) : frames'[k] = frames[k]
                    /\ frames'[1].listed = frames[1].listed
                    /\ Longer(frames'[1].list, frames[1].list, In(pc', TRUE))
           \/ /\ pc \in armed /\ frames' = frames /\ returned' = returned
<1>1. /\ pc' \in Code /\ frames' \in Seq(Frame) /\ Types
      /\ frames \in Seq(Frame) /\ Len(frames) \in Nat /\ Len(frames) > 0
      /\ DOMAIN frames = 1 .. Len(frames) /\ 1 \in 1 .. Len(frames)
      /\ frames[1] \in Frame /\ frames # << >>
  <2>1. pc' \in Code /\ frames' \in Seq(Frame)
    BY ExecuteType
  <2>2. Types /\ frames \in Seq(Frame) /\ Len(frames) > 0
    BY DEF IType
  <2> QED
    BY <2>1, <2>2
<1>2. frames[1].list \in Path
  BY <1>1 DEF Frame
<1>3. In(pc', TRUE) \in Called /\ In(pc', FALSE) \in Called
  BY <1>1, FnOfType DEF Called
<1>4. CASE pc \notin armed /\ Call
  <2> DEFINE g == [back |-> code[pc].next, listed |-> FnOf(pc') # FnOf(pc),
                   list |-> IF FnOf(pc') = FnOf(pc) THEN frames[1].list
                            ELSE <<In(pc', FALSE)>> \o frames[1].list]
  <2>1. frames' = <<g>> \o frames /\ returned' = FALSE /\ code[pc].op = "call"
    BY <1>4 DEF Call
  <2>2. Longer(<<In(pc', FALSE)>> \o frames[1].list, frames[1].list,
               In(pc', FALSE))
    BY <1>2, <1>3, OneLonger
  <2>3. /\ g.listed <=> FnOf(pc') # FnOf(pc)
        /\ FnOf(pc') = FnOf(pc) => g.list = frames[1].list
        /\ FnOf(pc') # FnOf(pc) =>
              Longer(g.list, frames[1].list, In(pc', FALSE))
    BY <2>2
  <2> HIDE DEF g
  <2>4. /\ frames'[1] = g /\ Len(frames') = Len(frames) + 1
        /\ \A k \in 1 .. Len(frames) : frames'[k + 1] = frames[k]
    <3>1. <<g>> \in Seq({g}) /\ Len(<<g>>) = 1 /\ <<g>>[1] = g
      OBVIOUS
    <3>2. Len(<<g>> \o frames) = Len(frames) + 1 /\ (<<g>> \o frames)[1] = g
      BY <1>1
    <3>3. ASSUME NEW k \in 1 .. Len(frames)
          PROVE  (<<g>> \o frames)[k + 1] = frames[k]
      BY <1>1
    <3> QED
      BY <2>1, <3>2, <3>3
  <2> QED
    BY <1>4, <2>1, <2>3, <2>4
<1>5. CASE pc \notin armed /\ Ret
  <2>1. /\ code[pc].op = "ret" /\ returned' = TRUE /\ Len(frames) > 1
        /\ frames' = Tail(frames)
    BY <1>5 DEF Ret
  <2>2. /\ Len(Tail(frames)) = Len(frames) - 1
        /\ \A k \in 1 .. Len(frames) - 1 : Tail(frames)[k] = frames[k + 1]
    <3>1. /\ Len(Tail(frames)) = Len(frames) - 1
          /\ \A k \in 1 .. Len(Tail(frames)) : Tail(frames)[k] = frames[k + 1]
      BY <1>1, HeadTailProperties
    <3> QED
      BY <3>1
  <2> QED
    BY <1>5, <2>1, <2>2
<1>6. CASE pc \notin armed /\ GoOn
  <2>1. /\ code[pc].op \notin {"call", "ret"} /\ returned' = FALSE
        /\ frames' = IF FnOf(pc') = FnOf(pc) THEN frames
                     ELSE [frames EXCEPT ![1].list = <<In(pc', TRUE)>> \o @]
    BY <1>6 DEF GoOn
  <2>2. ASSUME FnOf(pc') # FnOf(pc)
        PROVE  /\ Len(frames') = Len(frames)
               /\ \A k \in 2 .. Len(frames) : frames'[k] = frames[k]
               /\ frames'[1].listed = frames[1].listed
               /\ Longer(frames'[1].list, frames[1].list, In(pc', TRUE))
    <3> DEFINE q == <<In(pc', TRUE)>> \o frames[1].list
               g == [frames[1] EXCEPT !.list = q]
    <3>1. Longer(q, frames[1].list, In(pc', TRUE))
      BY <1>2, <1>3, OneLonger
    <3>2. frames' = [frames EXCEPT ![1] = g]
      BY <2>1, <2>2
    <3> HIDE DEF q
    <3>3. g.list = q /\ g.listed = frames[1].listed
      BY <1>1 DEF Frame
    <3> HIDE DEF g
    <3>4. /\ frames'[1] = g /\ DOMAIN frames' = DOMAIN frames
          /\ \A k \in 2 .. Len(frames) : frames'[k] = frames[k]
      BY <1>1, <3>2
    <3>5. Len(frames') = Len(frames)
      BY <1>1, <3>4
    <3> QED
      BY <3>1, <3>3, <3>4, <3>5
  <2> QED
    BY <1>6, <2>1, <2>2
<1>7. CASE pc \in armed /\ UNCHANGED <<frames, returned>>
  BY <1>7
<1> QED
  BY <1>4, <1>5, <1>6, <1>7 DEF Execute

(* So the stack stays in order, whatever is run.                          *)
LEMMA FrameInvExecute == IType /\ FrameInv /\ Execute => FrameInv'
<1> SUFFICES ASSUME IType, FrameInv, Execute PROVE FrameInv'
  OBVIOUS
<1>1. /\ Len(frames) \in Nat /\ Len(frames) > 0 /\ 1 \in 1 .. Len(frames)
      /\ \A k \in 1 .. Len(frames) : frames[k].list \in Path
  <2>1. frames \in Seq(Frame) /\ Len(frames) > 0
    BY DEF IType
  <2>2. \A k \in 1 .. Len(frames) : frames[k] \in Frame
    BY <2>1
  <2>3. Len(frames) \in Nat /\ 1 \in 1 .. Len(frames)
    BY <2>1
  <2> QED
    BY <2>1, <2>2, <2>3 DEF Frame
<1>2. ~In(pc', FALSE).jmp /\ In(pc', TRUE).jmp
  BY DEF In
<1> DEFINE Has(k) == HasCall(frames'[k].list)
           Back(k) == frames'[k].listed =>
                         BackFrom(frames'[k + 1].list, frames'[k].list)
<1>3. FrameInv' <=> /\ \A k \in 1 .. Len(frames') : Has(k)
                    /\ \A k \in 1 .. Len(frames') - 1 : Back(k)
  BY DEF FrameInv
<1>4. CASE /\ Len(frames') = Len(frames) + 1
           /\ \A k \in 1 .. Len(frames) : frames'[k + 1] = frames[k]
           /\ frames'[1].listed <=> FnOf(pc') # FnOf(pc)
           /\ FnOf(pc') = FnOf(pc) => frames'[1].list = frames[1].list
           /\ FnOf(pc') # FnOf(pc) =>
                 Longer(frames'[1].list, frames[1].list, In(pc', FALSE))
  <2>1. Has(1) /\ Back(1)
    <3>1. CASE FnOf(pc') = FnOf(pc)
      BY <1>1, <1>4, <3>1 DEF FrameInv
    <3>2. CASE FnOf(pc') # FnOf(pc)
      <4> DEFINE x == In(pc', FALSE)
      <4>0. Longer(frames'[1].list, frames[1].list, x) /\ ~x.jmp
        BY <1>2, <1>4, <3>2
      <4> HIDE DEF x
      <4>1. /\ HasCall(frames'[1].list)
            /\ BackFrom(frames[1].list, frames'[1].list)
        BY <1>1, <4>0, LongerCalls
      <4>2. frames'[1 + 1] = frames[1]
        BY <1>1, <1>4
      <4> QED
        BY <4>1, <4>2
    <3> QED
      BY <3>1, <3>2
  <2>2. ASSUME NEW k \in 1 .. Len(frames) PROVE Has(k + 1)
    BY <1>4 DEF FrameInv
  <2>3. ASSUME NEW k \in 1 .. Len(frames) - 1 PROVE Back(k + 1)
    <3>1. k \in 1 .. Len(frames) /\ k + 1 \in 1 .. Len(frames)
      BY <1>1
    <3>2. frames'[k + 1] = frames[k] /\ frames'[(k + 1) + 1] = frames[k + 1]
      BY <1>4, <3>1
    <3> QED
      BY <3>2 DEF FrameInv
  <2> HIDE DEF Has, Back
  <2>4. ASSUME NEW k \in 1 .. Len(frames') PROVE Has(k)
    <3>1. k = 1 \/ (k - 1 \in 1 .. Len(frames) /\ (k - 1) + 1 = k)
      BY <1>1, <1>4
    <3>2. CASE k # 1
      <4>1. Has((k - 1) + 1)
        BY <2>2, <3>1, <3>2
      <4> QED
        BY <3>1, <3>2, <4>1
    <3> QED
      BY <2>1, <3>2
  <2>5. ASSUME NEW k \in 1 .. Len(frames') - 1 PROVE Back(k)
    <3>1. k = 1 \/ (k - 1 \in 1 .. Len(frames) - 1 /\ (k - 1) + 1 = k)
      BY <1>1, <1>4
    <3>2. CASE k # 1
      <4>1. Back((k - 1) + 1)
        BY <2>3, <3>1, <3>2
      <4> QED
        BY <3>1, <3>2, <4>1
    <3> QED
      BY <2>1, <3>2
  <2> QED
    BY <1>3, <2>4, <2>5
<1>5. CASE /\ Len(frames) > 1 /\ Len(frames') = Len(frames) - 1
           /\ \A k \in 1 .. Len(frames) - 1 : frames'[k] = frames[k + 1]
  <2>1. ASSUME NEW k \in 1 .. Len(frames') PROVE Has(k)
    <3>1. k \in 1 .. Len(frames) - 1 /\ k + 1 \in 1 .. Len(frames)
      BY <1>1, <1>5
    <3> QED
      BY <1>5, <3>1 DEF FrameInv
  <2>2. ASSUME NEW k \in 1 .. Len(frames') - 1 PROVE Back(k)
    <3>1. /\ k \in 1 .. Len(frames) - 1 /\ k + 1 \in 1 .. Len(frames) - 1
      BY <1>1, <1>5
    <3>2. frames'[k] = frames[k + 1] /\ frames'[k + 1] = frames[(k + 1) + 1]
      BY <1>5, <3>1
    <3> QED
      BY <3>1, <3>2 DEF FrameInv
  <2> QED
    BY <1>3, <2>1, <2>2
<1>6. CASE /\ Len(frames') = Len(frames)
           /\ \A k \in 2 .. Len(frames) : frames'[k] = frames[k]
           /\ frames'[1].listed = frames[1].listed
           /\ Longer(frames'[1].list, frames[1].list, In(pc', TRUE))
  <2>1. Has(1) /\ \A P : BackFrom(P, frames[1].list) =>
                            BackFrom(P, frames'[1].list)
    <3> DEFINE x == In(pc', TRUE)
    <3>1. HasCall(frames[1].list)
      BY <1>1 DEF FrameInv
    <3>2. Longer(frames'[1].list, frames[1].list, x) /\ x.jmp
      BY <1>2, <1>6
    <3> HIDE DEF x
    <3> QED
      BY <1>1, <3>1, <3>2, LongerCalls
  <2>2. ASSUME NEW k \in 1 .. Len(frames') PROVE Has(k)
    <3>1. k = 1 \/ k \in 2 .. Len(frames)
      BY <1>1, <1>6
    <3>2. CASE k \in 2 .. Len(frames)
      BY <1>1, <1>6, <3>2 DEF FrameInv
    <3> QED
      BY <2>1, <3>1, <3>2
  <2>3. ASSUME NEW k \in 1 .. Len(frames') - 1 PROVE Back(k)
    <3>1. k \in 1 .. Len(frames) - 1 /\ k + 1 \in 2 .. Len(frames)
          /\ (k = 1 \/ k \in 2 .. Len(frames))
      BY <1>1, <1>6
    <3>2. frames'[k + 1] = frames[k + 1]
      BY <1>6, <3>1
    <3>3. CASE k = 1
      BY <1>6, <2>1, <3>1, <3>2, <3>3 DEF FrameInv
    <3>4. CASE k \in 2 .. Len(frames)
      BY <1>6, <3>1, <3>2, <3>4 DEF FrameInv
    <3> QED
      BY <3>1, <3>3, <3>4
  <2> QED
    BY <1>3, <2>2, <2>3
<1>7. CASE frames' = frames
  BY <1>7 DEF FrameInv
<1> HIDE DEF Has, Back
<1> QED
  BY <1>4, <1>5, <1>6, <1>7, ExecuteFrames

(* Nothing but an instruction touches it.                                 *)
LEMMA FrameInvStep == IType /\ FrameInv /\ [Next]_vars => FrameInv'
<1> SUFFICES ASSUME IType, FrameInv, [Next]_vars PROVE FrameInv'
  OBVIOUS
<1>1. CASE Execute
  BY <1>1, FrameInvExecute
<1>2. CASE UNCHANGED frames
  BY <1>2 DEF FrameInv
<1>3. CASE Step
  BY <1>1, <1>2, <1>3 DEF Step
<1>4. CASE BlindCont
  BY <1>1, <1>2, <1>4 DEF BlindCont
<1>5. CASE Run
  BY <1>1, <1>2, <1>5 DEF Run
<1>6. CASE Exit
  BY <1>2, <1>6 DEF Exit, slaveVars
<1>7. ASSUME NEW a \in BreakAddrs, NewSbp(a) PROVE FrameInv'
  BY <1>2, <1>7 DEF NewSbp, slaveVars
<1>8. CASE TakeBreak \/ TakeWatch \/ TakeOther
  BY <1>2, <1>8 DEF TakeBreak, TakeWatch, TakeOther, slaveVars
<1>9. CASE UNCHANGED vars
  BY <1>2, <1>9 DEF vars, slaveVars
<1> QED
  BY <1>3, <1>4, <1>5, <1>6, <1>7, <1>8, <1>9 DEF Next

(* A program starts in a function that is called.                         *)
LEMMA FrameInvInit ==
    Init => /\ FrameInv /\ Real \in Path /\ Len(Real) = 1
            /\ Real[1] = In(Entry, FALSE)
<1> SUFFICES ASSUME Init
             PROVE  /\ FrameInv /\ Real \in Path /\ Len(Real) = 1
                    /\ Real[1] = In(Entry, FALSE)
  OBVIOUS
<1>1. Types /\ Entry \in Code
  BY ITypeInit, ProgramAssumption DEF IType
<1>2. In(Entry, FALSE) \in Called
  BY <1>1, FnOfType DEF Called
<1> DEFINE x == In(Entry, FALSE)
           g == [back |-> Entry, list |-> <<x>>, listed |-> TRUE]
<1>3. ~x.jmp
  BY DEF In
<1>4. frames = <<g>>
  BY DEF Init
<1> HIDE DEF x
<1>5. <<x>> \in Path /\ Len(<<x>>) = 1 /\ <<x>>[1] = x
  <2>1. x \in Called
    BY <1>2 DEF x
  <2>2. <<x>> \in Seq(Called) /\ Len(<<x>>) = 1 /\ <<x>>[1] = x
    BY <2>1
  <2> QED
    BY <2>2 DEF Path, Called
<1>6. g.list = <<x>>
  OBVIOUS
<1> HIDE DEF g
<1>7. Len(frames) = 1 /\ frames[1] = g
  BY <1>4
<1>8. HasCall(frames[1].list)
  BY <1>3, <1>5, <1>6, <1>7 DEF HasCall
<1>9. FrameInv
  BY <1>7, <1>8 DEF FrameInv
<1> QED
  BY <1>5, <1>6, <1>7, <1>9 DEF Real, x

-------------------------------------------------------------------------
(* The list between two stops, until something happens that the updates   *)
(* cannot see.                                                            *)

(* R is what should be on the list while the slave is at a; r says that   *)
(* it has just returned.                                                  *)
Held(c, l, R, a, r) == /\ Linked(c, l, R) /\ R[1].fn = FnAt(a)
                       /\ Met(l, a) \/ (r /\ Behind(c, l, a))

(* The slave has moved to a since the list was that for R0: it stayed in  *)
(* its function, called or jumped to another, or returned to one.         *)
Moved(c, l, R0, R, a, int3, r) ==
    \/ R = R0 /\ R[1].fn = FnAt(a) /\ Quiet(c, l, a, int3)
    \/ /\ FnIn(l[1]) = R0[1].fn /\ FnIn(l[1]) # FnAt(a)
       /\ l[1].rip \notin int3 /\ c[l[1].rip].op # "ret"
       /\ Longer(R, R0, [fn |-> FnAt(a), jmp |-> c[l[1].rip].op # "call"])
    \/ /\ r /\ FnIn(l[1]) # FnAt(a) /\ Read(c, l[1].rip, int3) = "ret"
       /\ BackFrom(R, R0) /\ HasCall(R) /\ R[1].fn = FnAt(a)

(* The update at a stop makes the list the one for R.                     *)
LEMMA MovedHeld ==
    ASSUME Types, ~stripped, SymbolsApart, NEW l \in Lists, NEW m \in Lists,
           NEW a \in Code, NEW int3, Updated(m, l, a, int3),
           FntPltSym(a) = {}, NEW R0 \in Path, Linked(code, l, R0), NEW R,
           AllFormed(l), AllMade(l), Narrow(l, a), NEW r,
           Moved(code, l, R0, R, a, int3, r)
    PROVE  Held(code, m, R, a, r)
<1>1. CASE R = R0 /\ R[1].fn = FnAt(a) /\ Quiet(code, l, a, int3)
  <2>1. Linked(code, m, R0) /\ Met(m, a)
    BY <1>1, Revisits
  <2> QED
    BY <1>1, <2>1 DEF Held
<1>2. CASE /\ FnIn(l[1]) = R0[1].fn /\ FnIn(l[1]) # FnAt(a)
           /\ l[1].rip \notin int3 /\ code[l[1].rip].op # "ret"
           /\ Longer(R, R0, [fn |-> FnAt(a),
                             jmp |-> code[l[1].rip].op # "call"])
  <2>1. Linked(code, m, R) /\ Met(m, a)
    BY <1>2, Enters
  <2>2. R[1].fn = FnAt(a)
    BY <1>2 DEF Longer
  <2> QED
    BY <2>1, <2>2 DEF Held
<1>3. CASE /\ r /\ FnIn(l[1]) # FnAt(a) /\ Read(code, l[1].rip, int3) = "ret"
           /\ BackFrom(R, R0) /\ HasCall(R) /\ R[1].fn = FnAt(a)
  <2>1. Linked(code, m, R) /\ Behind(code, m, a)
    BY <1>3, GoesBack
  <2> QED
    BY <1>3, <2>1 DEF Held
<1> QED
  BY <1>1, <1>2, <1>3 DEF Moved

(* A place that is held is quiet, if it is no return of a function        *)
(* without a size.                                                        *)
LEMMA HeldQuiet ==
    ASSUME NEW c, NEW l, NEW R, NEW a, NEW b, NEW r, NEW int3,
           Held(c, l, R, a, r), FnAt(b) = FnAt(a),
           Met(l, a) => c[a].op # "ret" \/ Sure(b)
    PROVE  Quiet(c, l, b, int3)
<1>1. CASE Met(l, a)
  <2>1. l[1].rip = a /\ FnIn(l[1]) = FnAt(b)
    BY <1>1 DEF Met
  <2>2. Read(c, l[1].rip, int3) # "ret" \/ Sure(b)
    BY <1>1, <2>1 DEF Read
  <2> QED
    BY <2>1, <2>2 DEF Quiet
<1>2. CASE Behind(c, l, a)
  <2>1. c[l[1].rip].op # "ret" /\ Read(c, l[1].rip, int3) # "ret"
    BY <1>2 DEF Behind, Read
  <2> QED
    BY <1>2, <2>1 DEF Quiet, Behind
<1> QED
  BY <1>1, <1>2 DEF Held

(* So one instruction moves the slave as an update can tell, if none of   *)
(* the hazards was met.                                                   *)
LEMMA ExecuteMoves ==
    ASSUME IType, FrameInv, SymbolsApart, ~stripped, Execute, Hidden = {},
           Held(code, lst, Real, pc, returned)
    PROVE  Moved(code, lst, Real, Real', pc', armed, returned')
<1>1. /\ pc' \in Code /\ pc \in Code /\ Types
      /\ Len(frames) \in Nat /\ Len(frames) > 0
  <2>1. frames \in Seq(Frame) /\ Len(frames) > 0 /\ Types /\ pc \in Code
    BY DEF IType
  <2>2. pc' \in Code
    BY ExecuteType
  <2> QED
    BY <2>1, <2>2
<1>2. /\ FnOf(pc) = FnAt(pc) /\ FntNew(pc) = FntOf(pc)
      /\ FnOf(pc') = FnAt(pc')
  BY <1>1, FntOfIs
<1>3. /\ pc \notin armed /\ returned' => /\ ~Mistaken
                                         /\ FnOf(pc') = frames[2].list[1].fn
      /\ returned => FnOf(pc') = FnOf(pc) /\ code[pc].op \notin {"call", "ret"}
      /\ pc \in armed => FnOf(pc') = FnOf(pc)
  <2>1. ~(pc \notin armed /\ returned' /\ Mistaken)
    BY DEF Hidden
  <2>2. ~(pc \notin armed /\ returned' /\ FnOf(pc') # frames[2].list[1].fn)
    BY DEF Hidden
  <2>3. ~(returned /\ (FnOf(pc') # FnOf(pc) \/ code[pc].op \in {"call", "ret"}))
    BY DEF Hidden
  <2>4. ~(pc \in armed /\ FnOf(pc') # FnOf(pc))
    BY DEF Hidden
  <2> QED
    BY <2>1, <2>2, <2>3, <2>4
<1>4. /\ Linked(code, lst, Real) /\ Real[1].fn = FnAt(pc)
      /\ ~returned => Met(lst, pc)
      /\ Met(lst, pc) \/ Behind(code, lst, pc)
  BY DEF Held
<1>5. Met(lst, pc) => lst[1].rip = pc /\ FnIn(lst[1]) = Real[1].fn
  BY <1>4 DEF Met
<1>6. Real = frames[1].list /\ Real' = frames'[1].list
  BY DEF Real
(* The next instruction of the function, or the int3 in its place.        *)
<1>7. ASSUME FnAt(pc') = FnAt(pc), Real' = Real,
             pc \in armed \/ code[pc].op # "ret"
      PROVE  Moved(code, lst, Real, Real', pc', armed, returned')
  <2>1. CASE Met(lst, pc)
    <3>1. Read(code, lst[1].rip, armed) # "ret"
      BY <1>5, <1>7, <2>1 DEF Read
    <3>2. FnIn(lst[1]) = FnAt(pc')
      BY <1>4, <1>5, <1>7, <2>1
    <3> QED
      BY <1>4, <1>7, <3>1, <3>2 DEF Moved, Quiet
  <2>2. CASE Behind(code, lst, pc)
    <3>1. Read(code, lst[1].rip, armed) # "ret" /\ code[lst[1].rip].op # "ret"
      BY <2>2 DEF Behind, Read
    <3>2. FnIn(lst[1]) # FnAt(pc') => code[lst[1].rip].op # "call"
      BY <1>7, <2>2 DEF Behind
    <3>3. Quiet(code, lst, pc', armed)
      BY <3>1, <3>2 DEF Quiet
    <3> QED
      BY <1>4, <1>7, <3>3 DEF Moved
  <2> QED
    BY <1>4, <2>1, <2>2
(* To another function.                                                   *)
<1>8. ASSUME FnAt(pc') # FnAt(pc), pc \notin armed, code[pc].op # "ret",
             Longer(Real', Real, In(pc', code[pc].op # "call"))
      PROVE  Moved(code, lst, Real, Real', pc', armed, returned')
  <2>1. lst[1].rip = pc /\ FnIn(lst[1]) = Real[1].fn
        /\ FnIn(lst[1]) # FnAt(pc')
    <3>1. Met(lst, pc)
      BY <1>2, <1>3, <1>4, <1>8
    <3> QED
      BY <1>4, <1>5, <1>8, <3>1
  <2>2. In(pc', code[pc].op # "call")
           = [fn |-> FnAt(pc'), jmp |-> code[pc].op # "call"]
    BY <1>2 DEF In
  <2> QED
    BY <1>8, <2>1, <2>2 DEF Moved
<1>9. CASE /\ code[pc].op = "call" /\ pc \notin armed
           /\ FnOf(pc') = FnOf(pc) => frames'[1].list = frames[1].list
           /\ FnOf(pc') # FnOf(pc) =>
                 Longer(frames'[1].list, frames[1].list, In(pc', FALSE))
  <2>1. (code[pc].op # "call") = FALSE /\ code[pc].op # "ret"
    BY <1>9
  <2> QED
    BY <1>2, <1>6, <1>7, <1>8, <1>9, <2>1
<1>10. CASE /\ code[pc].op \notin {"call", "ret"} /\ pc \notin armed
            /\ FnOf(pc') = FnOf(pc) => frames' = frames
            /\ FnOf(pc') # FnOf(pc) =>
                  Longer(frames'[1].list, frames[1].list, In(pc', TRUE))
  <2>1. (code[pc].op # "call") = TRUE /\ code[pc].op # "ret"
    BY <1>10
  <2>2. FnOf(pc') = FnOf(pc) => Real' = Real
    BY <1>6, <1>10
  <2> QED
    BY <1>2, <1>6, <1>7, <1>8, <1>10, <2>1, <2>2
<1>11. CASE pc \in armed /\ frames' = frames
  BY <1>2, <1>3, <1>6, <1>7, <1>11
(* A return.                                                              *)
<1>12. CASE /\ code[pc].op = "ret" /\ pc \notin armed /\ returned' = TRUE
            /\ Len(frames) > 1 /\ Len(frames') = Len(frames) - 1
            /\ \A k \in 1 .. Len(frames) - 1 : frames'[k] = frames[k + 1]
  <2>1. ~Mistaken /\ FnAt(pc') = frames[2].list[1].fn /\ Met(lst, pc)
    BY <1>2, <1>3, <1>4, <1>12
  <2>2. /\ 1 \in 1 .. Len(frames) - 1 /\ 2 \in 1 .. Len(frames)
        /\ 1 + 1 = 2
    BY <1>1, <1>12
  <2>3. Real' = frames[2].list /\ Real'[1].fn = FnAt(pc') /\ HasCall(Real')
    <3>1. frames'[1] = frames[2] /\ HasCall(frames[2].list)
      BY <1>12, <2>2 DEF FrameInv
    <3> QED
      BY <1>6, <2>1, <3>1
  <2>4. Read(code, lst[1].rip, armed) = "ret"
    BY <1>5, <1>12, <2>1 DEF Read
  <2>5. CASE frames[1].listed
    <3>1. FnAt(pc') # FnAt(pc)
      BY <1>2, <2>1, <2>5 DEF Mistaken
    <3>2. BackFrom(Real', Real)
      BY <1>6, <2>2, <2>3, <2>5 DEF FrameInv
    <3>3. FnIn(lst[1]) # FnAt(pc')
      BY <1>4, <1>5, <2>1, <3>1
    <3> QED
      BY <1>12, <2>3, <2>4, <3>2, <3>3 DEF Moved
  <2>6. CASE ~frames[1].listed
    <3>1. Real' = Real /\ ~NoSize(pc)
      BY <1>2, <1>6, <2>1, <2>3, <2>6 DEF Mistaken
    <3>2. FnAt(pc') = FnAt(pc) /\ FnIn(lst[1]) = FnAt(pc')
      BY <1>4, <1>5, <2>1, <2>3, <3>1
    <3>3. Sure(pc)
      BY <1>1, <3>1, SureIs
    <3>4. Sure(pc')
      BY <1>1, <3>2, <3>3, SameSymbol DEF Sure
    <3> QED
      BY <2>3, <3>1, <3>2, <3>4 DEF Moved, Quiet
  <2> QED
    BY <2>5, <2>6
<1> QED
  BY <1>9, <1>10, <1>11, <1>12, ExecuteFrames

(* What an update in a function needs of the entries.                     *)
Shaped(l, a) == AllFormed(l) /\ AllMade(l) /\ Narrow(l, a)

(* One of the updates at a stop.                                          *)
LEMMA UpdateHeld ==
    ASSUME Types, ~stripped, SymbolsApart, NEW st \in States, NEW a \in Code,
           NEW int3, ~UpdateFunc(st, a, int3).crashed, FntPltSym(a) = {},
           NEW R0 \in Path, Linked(code, st.lst, R0), NEW R, NEW r,
           Shaped(st.lst, a), Moved(code, st.lst, R0, R, a, int3, r)
    PROVE  /\ ~st.crashed /\ UpdateFunc(st, a, int3) \in States
           /\ Held(code, UpdateFunc(st, a, int3).lst, R, a, r)
           /\ Shaped(UpdateFunc(st, a, int3).lst, a)
           /\ \A b \in Code : FnAt(b) = FnAt(a) /\ Narrow(st.lst, b) =>
                                 Narrow(UpdateFunc(st, a, int3).lst, b)
<1> DEFINE n == UpdateFunc(st, a, int3)
<1>1. n \in States /\ ~st.crashed /\ Updated(n.lst, st.lst, a, int3)
  BY UpdateCases
<1> HIDE DEF n
<1>2. st.lst \in Lists /\ n.lst \in Lists
  BY <1>1 DEF States
<1>3. Held(code, n.lst, R, a, r)
  BY <1>1, <1>2, MovedHeld DEF Shaped
<1>4. AllFormed(n.lst)
  BY <1>1, <1>2, FormedKept DEF Shaped
<1>5. ASSUME NEW b \in Code, FnAt(b) = FnAt(a), Narrow(st.lst, b)
      PROVE  AllMade(n.lst) /\ Narrow(n.lst, b)
  BY <1>1, <1>2, <1>5, ShapeKept DEF Shaped
<1>6. Shaped(n.lst, a)
  BY <1>4, <1>5 DEF Shaped
<1> QED
  BY <1>1, <1>3, <1>5, <1>6 DEF n

(* An update at the place that is held, or next to it in its function.    *)
LEMMA UpdateQuiet ==
    ASSUME Types, ~stripped, SymbolsApart, NEW st \in States, NEW a \in Code,
           NEW b \in Code, NEW int3, ~UpdateFunc(st, b, int3).crashed,
           FntPltSym(b) = {}, NEW R \in Path, NEW r,
           Held(code, st.lst, R, a, r), Shaped(st.lst, b), FnAt(b) = FnAt(a),
           Met(st.lst, a) => code[a].op # "ret" \/ Sure(b)
    PROVE  /\ ~st.crashed /\ UpdateFunc(st, b, int3) \in States
           /\ Held(code, UpdateFunc(st, b, int3).lst, R, b, r)
           /\ Shaped(UpdateFunc(st, b, int3).lst, b)
           /\ \A x \in Code : FnAt(x) = FnAt(b) /\ Narrow(st.lst, x) =>
                                 Narrow(UpdateFunc(st, b, int3).lst, x)
<1>1. Quiet(code, st.lst, b, int3)
  BY HeldQuiet
<1>2. Linked(code, st.lst, R) /\ R[1].fn = FnAt(b)
  BY DEF Held
<1>3. Moved(code, st.lst, R, R, b, int3, r)
  BY <1>1, <1>2 DEF Moved
<1> QED
  BY <1>2, <1>3, UpdateHeld

(* While nothing that is in doubt was met and rb was not given: at a stop *)
(* the list is that for the slave's stack; after an instruction it is     *)
(* that for the stack before.                                             *)
ListInv ==
    /\ stripped => "stripped" \in doubt
    /\ runs = 0 /\ doubt \subseteq {"covered"} =>
         /\ AllFormed(lst) /\ AllMade(lst)
         /\ mode \in {"stop", "signal"} =>
               Held(code, lst, Real, pc, returned) /\ last[2] = pc
         /\ mode = "trap" =>
               \E R0 \in Path : /\ Linked(code, lst, R0)
                                /\ Moved(code, lst, R0, Real, pc, armed,
                                         returned)
         /\ mode \notin {"cont", "watch"}

(* The entry of a program is what the first list has.                     *)
LEMMA ListInvInit == SymbolsApart /\ Init => ListInv
<1> SUFFICES ASSUME SymbolsApart, Init PROVE ListInv
  OBVIOUS
<1> SUFFICES ASSUME ~stripped, FntPltSym(Entry) = {}
             PROVE  /\ AllFormed(lst) /\ AllMade(lst)
                    /\ Held(code, lst, Real, pc, returned) /\ last[2] = pc
  <2>1. stripped => "stripped" \in doubt
    BY DEF Init
  <2>2. FntPltSym(Entry) # {} => "plt" \in doubt
    BY DEF Init, Plt
  <2>3. mode = "stop"
    BY DEF Init
  <2> QED
    BY <2>1, <2>2, <2>3 DEF ListInv
<1>1. Types /\ IType
  BY ITypeInit DEF IType
<1>2. Entry \in Code
  BY ProgramAssumption
<1> DEFINE e == Entry1(<< >>, Entry, {})
<1>3. lst = <<e>> \o << >>
  BY DEF Init, Pushed, Entry1, Jumped
<1>4. e \in EntryAt /\ << >> \in Lists
  BY <1>1, <1>2, EntryTypes DEF Lists
<1>5. /\ e.start = FntOf(Entry).start /\ e.end = FntOf(Entry).end
      /\ e.size = FntOf(Entry).size /\ e.unknown = FntOf(Entry).unknown
      /\ e.rip = Entry
  BY <1>1, <1>2, EntryFields
<1>6. FnIn(e) = FnAt(Entry) /\ e.jmp = FALSE
  <2>1. FnIn(e) = FnAt(Entry) /\ e.jmp = Jumped(<< >>, {})
    BY <1>1, <1>2, EntryFunction
  <2>2. Jumped(<< >>, {}) = FALSE
    BY DEF Jumped
  <2> QED
    BY <2>1, <2>2
<1> HIDE DEF e
<1>7. Len(lst) = 1 /\ lst[1] = e
  <2>1. Len(<< >>) = 0
    OBVIOUS
  <2> QED
    BY <1>3, <1>4, <2>1, PushedOnTop DEF OnTop
<1>8. AllFormed(lst)
  <2>1. Formed(FntOf(Entry))
    BY <1>2, FntOfCases DEF Formed
  <2>2. Formed(e)
    BY <1>5, <2>1, FormedFields
  <2> QED
    BY <1>7, <2>2 DEF AllFormed
<1>9. AllMade(lst)
  BY <1>2, <1>5, <1>7 DEF AllMade, Made
<1>10. /\ Real \in Path /\ Len(Real) = 1 /\ Real[1].fn = FnAt(Entry)
       /\ Real[1].jmp = FALSE
  <2>1. Real \in Path /\ Len(Real) = 1 /\ Real[1] = In(Entry, FALSE)
    BY FrameInvInit
  <2>2. FnOf(Entry) = FnAt(Entry)
    BY <1>1, <1>2, FntOfIs
  <2> QED
    BY <2>1, <2>2 DEF In
<1>11. Linked(code, lst, Real)
  <2> DEFINE f == [i \in 1 .. 1 |-> 1]
  <2>1. f \in [1 .. 1 -> 1 .. 1] /\ f[1] = 1
    OBVIOUS
  <2> HIDE DEF f
  <2>2. \A i \in 1 .. 1 : i = 1
    OBVIOUS
  <2>3. Shows(lst[1], Real[1])
    BY <1>6, <1>7, <1>10 DEF Shows
  <2>4. Finds(f, lst, Real)
    BY <1>7, <1>10, <2>1, <2>2, <2>3 DEF Finds
  <2>5. Left(code, f, lst, Real)
    BY <1>7 DEF Left
  <2> QED
    BY <1>7, <2>4, <2>5 DEF Linked
<1>12. pc = Entry /\ last[2] = Entry
  BY DEF Init
<1>13. Met(lst, pc)
  BY <1>5, <1>6, <1>7, <1>12 DEF Met
<1> QED
  BY <1>8, <1>9, <1>10, <1>11, <1>12, <1>13 DEF Held

(* With no entry stretched over a place, the list is narrow there.        *)
LEMMA NotWide ==
    ASSUME Types, ~stripped, lst \in Lists, NEW a \in Code,
           "wide" \notin Wide(a)
    PROVE  Narrow(lst, a)
<1>1. DOMAIN lst = 1 .. Len(lst)
  BY DEF Lists
<1>2. FnOf(a) = FnAt(a)
  BY FntOfIs
<1>3. \A i \in 1 .. Len(lst) : Seen[i].fn = FnIn(lst[i])
  BY <1>1 DEF Seen, FnIn
<1>4. \A i \in DOMAIN lst :
         ~(lst[i].start <= a /\ a < lst[i].end /\ Seen[i].fn # FnOf(a))
  BY DEF Wide
<1> QED
  BY <1>1, <1>2, <1>3, <1>4 DEF Narrow

(* A return of a function without a size is looked at again.              *)
LEMMA NotReread ==
    ASSUME Types, ~stripped, SymbolsApart, NEW a \in Code, NEW b \in Code,
           "reread" \notin Reread(a), FnAt(b) = FnAt(a)
    PROVE  code[a].op # "ret" \/ Sure(b)
<1> SUFFICES ASSUME code[a].op = "ret" PROVE Sure(b)
  OBVIOUS
<1>1. ~NoSize(a)
  BY DEF Reread
<1>2. Sure(a)
  BY <1>1, SureIs
<1> QED
  BY <1>2, SameSymbol DEF Sure

(* The first update at a stop, and the second one in the same place.      *)
LEMMA OnceHeld ==
    ASSUME IType, ListInv, SymbolsApart, ~stripped, runs = 0,
           doubt \subseteq {"covered"}, FntPltSym(pc) = {},
           "wide" \notin Wide(pc), ~Once.crashed,
           \/ mode = "trap"
           \/ mode = "signal" /\ "reread" \notin Reread(pc)
    PROVE  /\ Held(code, Once.lst, Real, pc, returned) /\ Shaped(Once.lst, pc)
           /\ \A b \in Code : FnAt(b) = FnAt(pc) /\ Narrow(lst, b) =>
                                 Narrow(Once.lst, b)
<1>1. /\ Types /\ pc \in Code /\ lst \in Lists /\ List \in States
      /\ List.lst = lst /\ frames \in Seq(Frame) /\ Len(frames) > 0
  BY UpdateTypes DEF IType
<1>2. Real \in Path
  <2>1. frames[1] \in Frame
    BY <1>1
  <2> QED
    BY <2>1 DEF Real, Frame
<1>3. Shaped(lst, pc)
  BY <1>1, NotWide DEF ListInv, Shaped
<1>4. CASE mode = "trap"
  <2>1. PICK R0 \in Path : /\ Linked(code, lst, R0)
                           /\ Moved(code, lst, R0, Real, pc, armed, returned)
    BY <1>4 DEF ListInv
  <2> QED
    BY <1>1, <1>3, <2>1, UpdateHeld DEF Once
<1>5. CASE mode = "signal" /\ "reread" \notin Reread(pc)
  <2>1. Held(code, lst, Real, pc, returned)
    BY <1>5 DEF ListInv
  <2>2. code[pc].op # "ret" \/ Sure(pc)
    BY <1>1, <1>5, NotReread
  <2> QED
    BY <1>1, <1>2, <1>3, <2>1, <2>2, UpdateQuiet DEF Once
<1> QED
  BY <1>4, <1>5

(* The second one finds the slave where the first one did, or puts the    *)
(* function there that a return came back to.                             *)
LEMMA TwiceHeld ==
    ASSUME IType, ListInv, SymbolsApart, ~stripped, runs = 0,
           doubt \subseteq {"covered"}, FntPltSym(pc) = {},
           "wide" \notin Wide(pc), ~Twice.crashed, mode = "trap",
           "reread" \notin Reread(pc)
    PROVE  /\ Held(code, Twice.lst, Real, pc, returned) /\ Shaped(Twice.lst, pc)
           /\ Met(Twice.lst, pc)
           /\ \A b \in Code : FnAt(b) = FnAt(pc) /\ Narrow(lst, b) =>
                                 Narrow(Twice.lst, b)
<1>1. /\ Types /\ pc \in Code /\ frames \in Seq(Frame) /\ Len(frames) > 0
      /\ Once \in States
  BY UpdateTypes DEF IType
<1>2. Real \in Path
  <2>1. frames[1] \in Frame
    BY <1>1
  <2> QED
    BY <2>1 DEF Real, Frame
<1>3. ~Once.crashed /\ Twice \in States
      /\ Updated(Twice.lst, Once.lst, pc, armed)
  BY <1>1, UpdateCases DEF Twice
<1>4. /\ Held(code, Once.lst, Real, pc, returned) /\ Shaped(Once.lst, pc)
      /\ \A b \in Code : FnAt(b) = FnAt(pc) /\ Narrow(lst, b) =>
                            Narrow(Once.lst, b)
  BY <1>3, OnceHeld
<1>5. code[pc].op # "ret" \/ Sure(pc)
  BY <1>1, NotReread
<1>6. /\ Held(code, Twice.lst, Real, pc, returned) /\ Shaped(Twice.lst, pc)
      /\ \A b \in Code : FnAt(b) = FnAt(pc) /\ Narrow(Once.lst, b) =>
                            Narrow(Twice.lst, b)
  BY <1>1, <1>2, <1>4, <1>5, UpdateQuiet DEF Twice
<1>7. Met(Twice.lst, pc)
  <2>1. Quiet(code, Once.lst, pc, armed)
    BY <1>4, <1>5, HeldQuiet
  <2>2. Linked(code, Once.lst, Real) /\ Real[1].fn = FnAt(pc)
    BY <1>4 DEF Held
  <2>3. Once.lst \in Lists /\ Twice.lst \in Lists
    BY <1>1, <1>3 DEF States
  <2> QED
    BY <1>1, <1>2, <1>3, <1>4, <2>1, <2>2, <2>3, Revisits DEF Shaped
<1> QED
  BY <1>4, <1>6, <1>7

(* The invariant holds after each step.                                   *)
LEMMA ListInvStep ==
    SymbolsApart /\ IType /\ NoPlt /\ FrameInv /\ ListInv /\ [Next]_vars
        => ListInv'
<1> SUFFICES ASSUME SymbolsApart, IType, NoPlt, FrameInv, ListInv, [Next]_vars
             PROVE  ListInv'
  OBVIOUS
<1> DEFINE Ends == /\ AllFormed(lst') /\ AllMade(lst')
                   /\ mode' \in {"stop", "signal"} =>
                         /\ Held(code', lst', Real', pc', returned')
                         /\ last'[2] = pc'
                   /\ mode' = "trap" =>
                         \E R0 \in Path :
                            /\ Linked(code', lst', R0)
                            /\ Moved(code', lst', R0, Real', pc', armed',
                                     returned')
                   /\ mode' \notin {"cont", "watch"}
(* What is in doubt stays so, and rb is never untold.                     *)
<1>1. /\ doubt \subseteq doubt' /\ stripped' = stripped /\ code' = code
      /\ runs' = 0 => runs = 0
  <2>0. runs \in Nat
    BY BoundAssumption DEF IType
  <2>1. CASE Step
    BY <2>1 DEF Step, programVars, code
  <2>2. CASE BlindCont
    BY <2>0, <2>2 DEF BlindCont, programVars, code
  <2>3. CASE Run
    BY <2>3 DEF Run, programVars, code
  <2>4. CASE Exit
    BY <2>4 DEF Exit, slaveVars, programVars, code
  <2>5. ASSUME NEW a \in BreakAddrs, NewSbp(a)
        PROVE  /\ doubt \subseteq doubt' /\ stripped' = stripped
               /\ code' = code /\ (runs' = 0 => runs = 0)
    BY <2>5 DEF NewSbp, slaveVars, programVars, code
  <2>6. CASE TakeBreak
    BY <2>6 DEF TakeBreak, programVars, code
  <2>7. CASE TakeWatch
    BY <2>7 DEF TakeWatch, slaveVars, programVars, code
  <2>8. CASE TakeOther
    BY <2>8 DEF TakeOther, slaveVars, programVars, code
  <2>9. CASE UNCHANGED vars
    BY <2>9 DEF vars, slaveVars, programVars, code
  <2> QED
    BY <2>1, <2>2, <2>3, <2>4, <2>5, <2>6, <2>7, <2>8, <2>9 DEF Next
<1>2. stripped' => "stripped" \in doubt'
  BY <1>1 DEF ListInv
<1> SUFFICES ASSUME runs' = 0, doubt' \subseteq {"covered"} PROVE Ends
  BY <1>2 DEF ListInv
<1>3. /\ runs = 0 /\ doubt \subseteq {"covered"} /\ ~stripped
      /\ AllFormed(lst) /\ AllMade(lst) /\ mode \notin {"cont", "watch"}
  BY <1>1 DEF ListInv
<1>4. ~crashed'
  BY NoPltStep DEF NoPlt
<1>5. /\ Types /\ pc \in Code /\ lst \in Lists
      /\ frames \in Seq(Frame) /\ Len(frames) > 0
  BY DEF IType
<1>6. Real \in Path
  <2>1. frames[1] \in Frame
    BY <1>5
  <2> QED
    BY <2>1 DEF Real, Frame
<1>7. \A a : Plt(a) \subseteq doubt' => FntPltSym(a) = {}
  BY DEF Plt
<1>8. \A a : /\ Wide(a) \subseteq doubt' => "wide" \notin Wide(a)
             /\ Reread(a) \subseteq doubt' => "reread" \notin Reread(a)
  OBVIOUS
<1>9. CASE Step
  <2>1. /\ mode = "stop" /\ lst' = lst /\ last' = last /\ armed' = armed
        /\ Held(code, lst, Real, pc, returned) /\ last[2] = pc
    BY <1>3, <1>9 DEF Step, listVars, ListInv
  <2>2. CASE Execute /\ mode' = "trap" /\ doubt' = doubt \cup Hidden
    <3>1. Hidden = {}
      BY <2>2 DEF Hidden
    <3>2. Moved(code, lst, Real, Real', pc', armed, returned')
      BY <1>3, <2>1, <2>2, <3>1, ExecuteMoves
    <3>3. Linked(code, lst, Real)
      BY <2>1 DEF Held
    <3> QED
      BY <1>1, <1>3, <1>6, <2>1, <2>2, <3>2, <3>3
  <2>3. CASE mode' = "signal" /\ UNCHANGED <<pc, frames, returned, doubt>>
    <3>1. Real' = Real
      BY <2>3 DEF Real
    <3> QED
      BY <1>1, <1>3, <2>1, <2>3, <3>1
  <2> QED
    BY <1>9, <2>2, <2>3 DEF Step
<1>10. CASE BlindCont
  BY <1>3, <1>10 DEF BlindCont
<1>11. CASE Run
  BY <1>3, <1>11 DEF Run
<1>12. CASE Exit
  BY <1>3, <1>12 DEF Exit, listVars
<1>13. ASSUME NEW a \in BreakAddrs, NewSbp(a) PROVE Ends
  <2>1. /\ mode' = "stop" /\ mode = "stop" /\ lst' = lst /\ last' = last
        /\ pc' = pc /\ returned' = returned /\ Real' = Real
    BY <1>13 DEF NewSbp, slaveVars, listVars, Real
  <2> QED
    BY <1>1, <1>3, <2>1 DEF ListInv
<1>14. CASE TakeBreak
  <2>1. PICK b \in Hit(pc) :
          /\ Becomes(Thrice(b)) /\ last' = <<pc, b>> /\ pc' = b
          /\ doubt' = doubt \cup Plt(pc) \cup Plt(b) \cup Reread(pc) \cup Covered
                       \cup Wide(pc) \cup Wide(b)
                       \cup (IF FnOf(pc) = FnOf(b) THEN {} ELSE {"edge"})
    BY <1>14 DEF TakeBreak, Thrice, Twice, Once
  <2>2. /\ mode = "trap" /\ mode' = "stop" /\ returned' = returned
        /\ Real' = Real
    BY <1>3, <1>14 DEF TakeBreak, Real
  <2>3. /\ FntPltSym(pc) = {} /\ FntPltSym(b) = {} /\ b \in Code
        /\ "wide" \notin Wide(pc) /\ "wide" \notin Wide(b)
        /\ "reread" \notin Reread(pc) /\ FnOf(pc) = FnOf(b)
    <3>1. b \in Code
      BY HitInCode
    <3>2. FnOf(pc) = FnOf(b)
      BY <2>1
    <3> QED
      BY <1>7, <1>8, <2>1, <3>1, <3>2
  <2>4. FnAt(b) = FnAt(pc)
    BY <1>3, <1>5, <2>3, FntOfIs
  <2>5. lst' = Thrice(b).lst /\ ~Thrice(b).crashed
    BY <1>4, <2>1 DEF Becomes
  <2>6. Twice \in States /\ ~Twice.crashed
    BY <1>5, <2>3, <2>5, UpdateCases, UpdateTypes DEF Thrice
  <2>7. /\ Held(code, Twice.lst, Real, pc, returned) /\ Shaped(Twice.lst, pc)
        /\ \A x \in Code : FnAt(x) = FnAt(pc) /\ Narrow(lst, x) =>
                              Narrow(Twice.lst, x)
    BY <1>3, <2>2, <2>3, <2>6, TwiceHeld
  <2>8. Shaped(Twice.lst, b)
    <3>1. Narrow(lst, b)
      BY <1>3, <1>5, <2>3, NotWide
    <3> QED
      BY <2>3, <2>4, <2>7, <3>1 DEF Shaped
  <2>9. code[pc].op # "ret" \/ Sure(b)
    BY <1>3, <1>5, <2>3, <2>4, NotReread
  <2>10. Held(code, Thrice(b).lst, Real, b, returned) /\ Shaped(Thrice(b).lst, b)
    BY <1>3, <1>5, <1>6, <2>3, <2>4, <2>5, <2>6, <2>7, <2>8, <2>9,
       UpdateQuiet DEF Thrice
  <2>11. last'[2] = b /\ pc' = b
    BY <2>1
  <2> QED
    BY <1>1, <2>2, <2>5, <2>10, <2>11 DEF Shaped
<1>15. CASE TakeWatch
  <2>1. /\ Becomes(Twice) /\ last' = <<pc, pc>> /\ pc' = pc
        /\ doubt' = doubt \cup Plt(pc) \cup Reread(pc) \cup Covered \cup Wide(pc)
        /\ mode = "trap" /\ mode' = "stop" /\ returned' = returned
        /\ Real' = Real
    BY <1>3, <1>15 DEF TakeWatch, Twice, Once, slaveVars, Real
  <2>2. FntPltSym(pc) = {} /\ "wide" \notin Wide(pc) /\ "reread" \notin Reread(pc)
    BY <1>7, <1>8, <2>1
  <2>3. lst' = Twice.lst /\ ~Twice.crashed
    BY <1>4, <2>1 DEF Becomes
  <2>4. Held(code, Twice.lst, Real, pc, returned) /\ Shaped(Twice.lst, pc)
    BY <1>3, <2>1, <2>2, <2>3, TwiceHeld
  <2>5. last'[2] = pc
    BY <2>1
  <2> QED
    BY <1>1, <2>1, <2>3, <2>4, <2>5 DEF Shaped
<1>16. CASE TakeOther
  <2>1. /\ Becomes(Once) /\ last' = <<last[2], pc>> /\ pc' = pc
        /\ doubt' = doubt \cup Plt(pc) \cup Covered \cup Wide(pc)
                     \cup (IF last[2] = pc THEN Reread(pc) ELSE {})
        /\ mode \in {"trap", "signal"} /\ mode' = "stop"
        /\ returned' = returned /\ Real' = Real
    BY <1>3, <1>16 DEF TakeOther, Once, slaveVars, Real
  <2>2. FntPltSym(pc) = {} /\ "wide" \notin Wide(pc)
    BY <1>7, <1>8, <2>1
  <2>3. mode = "signal" => "reread" \notin Reread(pc)
    <3> SUFFICES ASSUME mode = "signal" PROVE "reread" \notin Reread(pc)
      OBVIOUS
    <3>1. last[2] = pc
      BY <1>3 DEF ListInv
    <3> QED
      BY <1>8, <2>1, <3>1
  <2>4. lst' = Once.lst /\ ~Once.crashed
    BY <1>4, <2>1 DEF Becomes
  <2>5. Held(code, Once.lst, Real, pc, returned) /\ Shaped(Once.lst, pc)
    BY <1>3, <2>1, <2>2, <2>3, <2>4, OnceHeld
  <2>6. last'[2] = pc
    BY <2>1
  <2> QED
    BY <1>1, <2>1, <2>4, <2>5, <2>6 DEF Shaped
<1>17. CASE UNCHANGED vars
  <2>1. /\ lst' = lst /\ last' = last /\ mode' = mode /\ armed' = armed
        /\ pc' = pc /\ returned' = returned /\ Real' = Real
    BY <1>17 DEF vars, slaveVars, listVars, Real
  <2> QED
    BY <1>1, <1>3, <2>1 DEF ListInv
<1> HIDE DEF Ends
<1> QED
  BY <1>9, <1>10, <1>11, <1>12, <1>13, <1>14, <1>15, <1>16, <1>17 DEF Next

-------------------------------------------------------------------------
(* What the list shows.                                                   *)

(* The invariant always holds.                                            *)
LEMMA ListInvAlways ==
    ASSUME SymbolsApart
    PROVE  Spec => [](IType /\ ListInv)
<1>1. SymbolsApart
  OBVIOUS
<1>2. Init => IType /\ NoPlt /\ FrameInv /\ ListInv
  BY <1>1, ITypeInit, NoPltInit, FrameInvInit, ListInvInit
<1>3. IType /\ NoPlt /\ FrameInv /\ ListInv /\ [Next]_vars
        => (IType /\ NoPlt /\ FrameInv /\ ListInv)'
  BY <1>1, ITypeStep, NoPltStep, FrameInvStep, ListInvStep
<1> QED
  BY <1>2, <1>3, PTL DEF Spec

(* The map that links them, as the properties say it.                     *)
LEMMA ListInvPlaces ==
    ASSUME IType, ListInv, Clear
    PROVE  \E f \in [DOMAIN Seen -> DOMAIN Real] :
              /\ Places(f, Seen, Real)
              /\ \A k \in Calls(Real) : \E i \in Calls(Seen) : f[i] = k
<1>1. /\ lst \in Lists /\ frames \in Seq(Frame) /\ Len(frames) > 0
      /\ Linked(code, lst, Real)
  BY DEF IType, ListInv, Clear, Held
<1>2. Real \in Path
  <2>1. frames[1] \in Frame
    BY <1>1
  <2> QED
    BY <2>1 DEF Real, Frame
<1>3. PICK f : Finds(f, lst, Real)
  BY <1>1 DEF Linked
<1>4. /\ DOMAIN Seen = 1 .. Len(lst) /\ DOMAIN Real = 1 .. Len(Real)
      /\ \A i \in 1 .. Len(lst) :
            Seen[i] = [fn |-> FnIn(lst[i]), jmp |-> lst[i].jmp]
  <2>1. DOMAIN lst = 1 .. Len(lst)
    BY <1>1 DEF Lists
  <2>2. DOMAIN Real = 1 .. Len(Real)
    BY <1>2 DEF Path
  <2> QED
    BY <2>1, <2>2 DEF Seen, FnIn
<1>5. ASSUME NEW i \in 1 .. Len(lst) PROVE Seen[i] = Real[f[i]]
  <2>1. f[i] \in 1 .. Len(Real) /\ Shows(lst[i], Real[f[i]])
    BY <1>3 DEF Finds
  <2>2. Real[f[i]] \in Called
    BY <1>2, <2>1, PathEntries
  <2>3. Real[f[i]] = [fn |-> Real[f[i]].fn, jmp |-> Real[f[i]].jmp]
    BY <2>2 DEF Called
  <2> QED
    BY <1>4, <2>1, <2>3 DEF Shows
<1>6. f \in [DOMAIN Seen -> DOMAIN Real]
  BY <1>3, <1>4 DEF Finds
<1>7. Places(f, Seen, Real)
  BY <1>3, <1>4, <1>5, <1>6 DEF Places, Finds
<1>8. ASSUME NEW k \in Calls(Real)
      PROVE  \E i \in Calls(Seen) : f[i] = k
  <2>1. k \in 1 .. Len(Real) /\ ~Real[k].jmp
    BY <1>4 DEF Calls
  <2>2. PICK i \in 1 .. Len(lst) : f[i] = k
    BY <1>3, <2>1 DEF Finds
  <2>3. ~Seen[i].jmp
    BY <1>5, <2>1, <2>2
  <2> QED
    BY <1>4, <2>2, <2>3 DEF Calls
<1> QED
  BY <1>6, <1>7, <1>8

(* The calls on the list are those the slave is in, in their order, for   *)
(* every program whose symbols start in no other, however deep it calls    *)
(* and wherever breakpoints, watchpoints and signals stop it, as long as  *)
(* it is stepped and met none of the hazards that doubt names.            *)
THEOREM CallsListed ==
    ASSUME SymbolsApart
    PROVE  Spec => []CallsAreListed
<1>1. IType /\ ListInv => CallsAreListed
  <2> SUFFICES ASSUME IType, ListInv, Clear
               PROVE  \E g \in Bijection(Calls(Seen), Calls(Real)) :
                         Places(g, Seen, Real)
    BY DEF CallsAreListed
  <2>1. PICK f \in [DOMAIN Seen -> DOMAIN Real] :
              /\ Places(f, Seen, Real)
              /\ \A k \in Calls(Real) : \E i \in Calls(Seen) : f[i] = k
    BY ListInvPlaces
  <2> DEFINE g == [i \in Calls(Seen) |-> f[i]]
  <2>2. /\ DOMAIN g = Calls(Seen) /\ Calls(Seen) \subseteq DOMAIN Seen
        /\ \A i \in Calls(Seen) : g[i] = f[i]
    BY DEF Calls
  <2>3. ASSUME NEW i \in Calls(Seen) PROVE g[i] \in Calls(Real)
    <3>1. i \in DOMAIN f /\ f[i] \in DOMAIN Real /\ Seen[i] = Real[f[i]]
      BY <2>1, <2>2 DEF Places
    <3> QED
      BY <2>2, <3>1 DEF Calls
  <2>4. g \in [Calls(Seen) -> Calls(Real)]
    BY <2>3
  <2> HIDE DEF g
  <2>5. Places(g, Seen, Real)
    <3>1. \A i \in Calls(Seen) : i \in DOMAIN f
      BY <2>1, <2>2
    <3> QED
      BY <2>1, <2>2, <3>1 DEF Places
  <2>6. \A i, j \in Calls(Seen) : g[i] = g[j] => i = j
    <3> SUFFICES ASSUME NEW i \in Calls(Seen), NEW j \in Calls(Seen),
                        g[i] = g[j], i # j
                 PROVE  FALSE
      OBVIOUS
    <3>1. /\ i \in 1 .. Len(lst) /\ j \in 1 .. Len(lst)
          /\ g[i] \in 1 .. Len(Real) /\ g[j] \in 1 .. Len(Real)
      <4>1. lst \in Lists /\ frames \in Seq(Frame) /\ Len(frames) > 0
        BY DEF IType
      <4>2. DOMAIN lst = 1 .. Len(lst)
        BY <4>1 DEF Lists
      <4>3. DOMAIN Seen = 1 .. Len(lst)
        BY <4>2 DEF Seen
      <4>4. DOMAIN Real = 1 .. Len(Real)
        <5>1. frames[1] \in Frame
          BY <4>1
        <5> QED
          BY <5>1 DEF Real, Frame, Path
      <4>5. g[i] \in DOMAIN Real /\ g[j] \in DOMAIN Real
        BY <2>4 DEF Calls
      <4> QED
        BY <2>2, <4>3, <4>4, <4>5
    <3>2. i < j \/ j < i
      BY <3>1
    <3>3. g[i] < g[j] \/ g[j] < g[i]
      BY <2>2, <2>5, <3>2 DEF Places
    <3> QED
      BY <3>1, <3>3
  <2>7. \A k \in Calls(Real) : \E i \in Calls(Seen) : g[i] = k
    BY <2>1, <2>2
  <2>8. g \in Bijection(Calls(Seen), Calls(Real))
    BY <2>2, <2>4, <2>6, <2>7 DEF Bijection, Injection, Surjection, IsInjective
  <2> QED
    BY <2>5, <2>8
<1> QED
  BY <1>1, ListInvAlways, PTL

(* And nothing is on the list, as a call or as a jump, that is over.      *)
THEOREM NothingStale ==
    ASSUME SymbolsApart
    PROVE  Spec => []NoStaleEntries
<1>1. IType /\ ListInv => NoStaleEntries
  BY ListInvPlaces DEF NoStaleEntries
<1> QED
  BY <1>1, ListInvAlways, PTL
=========================================================================
