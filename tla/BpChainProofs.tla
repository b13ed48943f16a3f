------------------------- MODULE BpChainProofs -------------------------
(* Proofs about BpChain: the pointers of sbp.c make lists, for every      *)
(* number of nodes.  A chain is described by the sequence s that walks    *)
(* it; Path, which TLC runs, is first shown to compute that s.            *)
EXTENDS BpChain, FiniteSetTheorems, SequenceTheorems, TLAPS

(* s is the list that starts at r and follows the links of next.          *)
IsPath(next, r, s) ==
    /\ s \in Seq(Nodes)
    /\ \A i, j \in DOMAIN s : s[i] = s[j] => i = j
    /\ r = IF s = << >> THEN Nil ELSE s[1]
    /\ \A i \in DOMAIN s : next[s[i]] = IF i = Len(s) THEN Nil ELSE s[i + 1]

(* A set of numbers has a least one, since < is well founded.             *)
LEMMA LeastNumber ==
    ASSUME NEW T \in SUBSET Nat, T # {}
    PROVE  \E x \in T : \A y \in T : x <= y
<1> DEFINE R == OpToRel(<, Nat)
<1>1. PICK x \in T : \A y \in T : <<y, x>> \notin R
  <2>1. IsWellFoundedOn(R, Nat)
    BY NatLessThanWellFounded
  <2> HIDE DEF R
  <2> QED
    BY <2>1, WFMin
<1>2. ASSUME NEW y \in T, y < x PROVE FALSE
  <2>1. <<y, x>> \in Nat \X Nat
    OBVIOUS
  <2>2. <<y, x>>[1] < <<y, x>>[2]
    BY <1>2
  <2>3. <<y, x>> \in R
    BY <2>1, <2>2 DEF OpToRel
  <2> QED
    BY <2>3, <1>1
<1> HIDE DEF R
<1>3. \A y \in T : x <= y
  BY <1>2
<1> QED
  BY <1>3

-------------------------------------------------------------------------
(* What Path computes.                                                    *)

(* One step of the walk of Path: the first k nodes from the first k - 1.  *)
Further(next, r, f, k) ==
    IF k = 0 THEN << >>
    ELSE LET s == f[k - 1]
             n == IF s = << >> THEN r ELSE next[s[Len(s)]]
         IN  IF n = Nil \/ Len(s) < k - 1 THEN s ELSE Append(s, n)

(* Path is the last value of the function that takes these steps.         *)
LEMMA PathDef ==
    ASSUME NEW next, NEW r
    PROVE  Path(next, r) =
            (CHOOSE f : f = [k \in 0 .. Cardinality(Nodes) |->
                                Further(next, r, f, k)])[Cardinality(Nodes)]
  BY DEF Path, Further

(* A list without repetition is no longer than there are nodes, and has   *)
(* as many cells as its length.                                           *)
LEMMA CellsCount ==
    ASSUME NEW next, NEW r, NEW s, IsPath(next, r, s)
    PROVE  /\ Len(s) <= Cardinality(Nodes)
           /\ IsFiniteSet(Cells(s)) /\ Cardinality(Cells(s)) = Len(s)
           /\ Cells(s) \subseteq Nodes
           /\ Cardinality(Nodes) \in Nat
<1>1. /\ s \in [1 .. Len(s) -> Nodes] /\ DOMAIN s = 1 .. Len(s)
      /\ Len(s) \in Nat
      /\ \A i, j \in DOMAIN s : s[i] = s[j] => i = j
  BY DEF IsPath
<1>2. s \in Injection(1 .. Len(s), Nodes)
  BY <1>1 DEF Injection, IsInjective
<1>3. IsFiniteSet(1 .. Len(s)) /\ Cardinality(1 .. Len(s)) = Len(s)
  <2>1. IsFiniteSet(1 .. Len(s))
        /\ Cardinality(1 .. Len(s)) = IF 1 > Len(s) THEN 0 ELSE Len(s) - 1 + 1
    BY <1>1, FS_Interval
  <2> QED
    BY <1>1, <2>1
<1>4. Len(s) <= Cardinality(Nodes)
  BY <1>2, <1>3, FS_Injection, NodeAssumption
<1>5. s \in [1 .. Len(s) -> Cells(s)]
  BY <1>1 DEF Cells
<1>6. s \in Bijection(1 .. Len(s), Cells(s))
  BY <1>1, <1>5 DEF Bijection, Injection, Surjection, IsInjective, Cells
<1>7. ExistsBijection(1 .. Len(s), Cells(s))
  BY <1>6 DEF ExistsBijection
<1>8. IsFiniteSet(Cells(s)) /\ Cardinality(Cells(s)) = Len(s)
  BY <1>3, <1>7, FS_Bijection
<1>9. Cells(s) \subseteq Nodes
  BY <1>1 DEF Cells
<1> QED
  BY <1>4, <1>8, <1>9, FS_CardinalityType, NodeAssumption

(* Two sequences with the same length and elements are the same.          *)
LEMMA SameSeq ==
    ASSUME NEW S, NEW s \in Seq(S), NEW t \in Seq(S), Len(s) = Len(t),
           \A i \in 1 .. Len(s) : s[i] = t[i]
    PROVE  s = t
  OBVIOUS

(* Path finds the list that the links make.                               *)
LEMMA PathIs ==
    ASSUME NEW next, NEW r, NEW s, IsPath(next, r, s)
    PROVE  Path(next, r) = s
<1> DEFINE C == Cardinality(Nodes)
           upto(k) == IF k <= Len(s) THEN k ELSE Len(s)
           g == [k \in 0 .. C |-> SubSeq(s, 1, upto(k))]
           P(f) == f = [k \in 0 .. C |-> Further(next, r, f, k)]
<1>1. C \in Nat /\ Len(s) \in Nat /\ Len(s) <= C
  BY CellsCount DEF IsPath
<1>2. /\ s \in Seq(Nodes) /\ DOMAIN s = 1 .. Len(s)
      /\ \A i \in 1 .. Len(s) : s[i] \in Nodes
      /\ r = IF s = << >> THEN Nil ELSE s[1]
      /\ \A i \in 1 .. Len(s) :
            next[s[i]] = IF i = Len(s) THEN Nil ELSE s[i + 1]
  BY DEF IsPath
<1>3. Nil \notin Nodes
  BY NodeAssumption
<1> HIDE DEF C
<1>4. \A k \in 0 .. C :
        /\ g[k] \in Seq(Nodes) /\ Len(g[k]) = upto(k)
        /\ \A i \in 1 .. upto(k) : g[k][i] = s[i]
  <2> TAKE k \in 0 .. C
  <2> DEFINE m == upto(k)
  <2>1. m \in 0 .. Len(s)
    BY <1>1
  <2>2. g[k] = SubSeq(s, 1, m)
    OBVIOUS
  <2> HIDE DEF m
  <2>3. /\ SubSeq(s, 1, m) \in Seq(Nodes) /\ Len(SubSeq(s, 1, m)) = m
        /\ \A i \in 1 .. m : SubSeq(s, 1, m)[i] = s[i]
    <3>1. m \in Int /\ \A i \in 1 .. m : s[i] \in Nodes
      <4>1. m \in Int /\ \A i \in 1 .. m : i \in 1 .. Len(s)
        BY <2>1, <1>1
      <4> QED
        BY <4>1, <1>2
    <3>2. /\ SubSeq(s, 1, m) \in Seq(Nodes)
          /\ Len(SubSeq(s, 1, m)) = IF 1 <= m THEN m - 1 + 1 ELSE 0
          /\ \A i \in 1 .. m - 1 + 1 : SubSeq(s, 1, m)[i] = s[1 + i - 1]
      BY <3>1, SubSeqProperties
    <3> QED
      BY <2>1, <3>1, <3>2
  <2> HIDE DEF g
  <2> QED
    BY <2>2, <2>3 DEF m
<1> HIDE DEF g
<1>5. ASSUME NEW f, NEW k \in 0 .. C, k > 0 => f[k - 1] = g[k - 1]
      PROVE  Further(next, r, f, k) = g[k]
  <2>1. CASE k = 0
    <3>1. g[k] \in Seq(Nodes) /\ Len(g[k]) = 0
      BY <1>1, <1>4, <2>1
    <3> QED
      BY <2>1, <3>1 DEF Further
  <2>2. CASE k # 0
    <3> DEFINE p == g[k - 1]
               n == IF p = << >> THEN r ELSE next[p[Len(p)]]
    <3>1. k - 1 \in 0 .. C /\ f[k - 1] = p
      BY <1>1, <1>5, <2>2
    <3>2. Further(next, r, f, k) =
            IF n = Nil \/ Len(p) < k - 1 THEN p ELSE Append(p, n)
      BY <2>2, <3>1 DEF Further
    <3>3. /\ p \in Seq(Nodes) /\ Len(p) = upto(k - 1)
          /\ \A i \in 1 .. upto(k - 1) : p[i] = s[i]
      BY <1>4, <3>1
    <3>4. /\ g[k] \in Seq(Nodes) /\ Len(g[k]) = upto(k)
          /\ \A i \in 1 .. upto(k) : g[k][i] = s[i]
      BY <1>4
    <3> HIDE DEF p
    <3>5. CASE k - 1 < Len(s)
      <4>1. Len(p) = k - 1 /\ upto(k) = k /\ k \in 1 .. Len(s)
        BY <1>1, <2>2, <3>3, <3>5
      <4>2. n = s[k]
        <5>1. CASE k = 1
          <6>1. p = << >> /\ s # << >>
            BY <3>3, <4>1, <5>1
          <6> QED
            BY <1>2, <5>1, <6>1
        <5>2. CASE k # 1
          <6>1. k - 1 \in 1 .. Len(s) /\ k - 1 # Len(s) /\ (k - 1) + 1 = k
            BY <1>1, <4>1, <5>2
          <6>2. p # << >> /\ p[Len(p)] = s[k - 1]
            BY <3>3, <4>1, <5>2, <6>1
          <6> QED
            BY <1>2, <6>1, <6>2
        <5> QED
          BY <5>1, <5>2
      <4>3. n \in Nodes /\ n # Nil
        BY <1>2, <1>3, <4>1, <4>2
      <4> HIDE DEF n
      <4>4. Further(next, r, f, k) = Append(p, n)
        BY <3>2, <4>1, <4>3
      <4>5. Append(p, n) \in Seq(Nodes) /\ Len(Append(p, n)) = k
        BY <3>3, <4>1, <4>3
      <4>6. \A i \in 1 .. k : Append(p, n)[i] = g[k][i]
        <5> TAKE i \in 1 .. k
        <5>1. g[k][i] = s[i]
          BY <3>4, <4>1
        <5>2. CASE i = k
          BY <3>3, <4>1, <4>2, <4>3, <5>1, <5>2
        <5>3. CASE i # k
          <6>1. i \in 1 .. Len(p)
            BY <4>1, <5>3
          <6>2. Append(p, n)[i] = p[i]
            BY <3>3, <4>3, <6>1
          <6> QED
            BY <3>3, <5>1, <6>1, <6>2
        <5> QED
          BY <5>2, <5>3
      <4>7. Append(p, n) = g[k]
        BY <3>4, <4>1, <4>5, <4>6, SameSeq
      <4> QED
        BY <4>4, <4>7
    <3>6. CASE ~(k - 1 < Len(s))
      <4>1. Len(p) = Len(s) /\ upto(k) = Len(s) /\ upto(k - 1) = Len(s)
        BY <1>1, <3>3, <3>6
      <4>2. n = Nil
        <5>1. CASE s = << >>
          BY <1>2, <3>3, <4>1, <5>1
        <5>2. CASE s # << >>
          <6>1. Len(s) # 0
            BY <1>2, <5>2, EmptySeq
          <6>3. Len(s) \in 1 .. Len(s) /\ p # << >>
            BY <1>1, <3>3, <4>1, <6>1
          <6>2. p[Len(p)] = s[Len(s)]
            BY <3>3, <4>1, <6>3
          <6> QED
            BY <1>2, <6>2, <6>3
        <5> QED
          BY <5>1, <5>2
      <4>3. p = g[k]
        BY <3>3, <3>4, <4>1, SameSeq
      <4> HIDE DEF n
      <4> QED
        BY <3>2, <4>2, <4>3
    <3> QED
      BY <3>5, <3>6
  <2> QED
    BY <2>1, <2>2
<1>6. P(g)
  <2>1. g = [k \in 0 .. C |-> g[k]]
    BY DEF g
  <2>2. \A k \in 0 .. C : Further(next, r, g, k) = g[k]
    BY <1>5
  <2> QED
    BY <2>1, <2>2
<1>7. ASSUME NEW f, P(f) PROVE f = g
  <2> DEFINE T == {k \in 0 .. C : f[k] # g[k]}
  <2>1. ASSUME T # {} PROVE FALSE
    <3>1. T \in SUBSET Nat
      BY <1>1
    <3> HIDE DEF T
    <3>2. PICK x \in T : \A y \in T : x <= y
      BY <2>1, <3>1, LeastNumber
    <3>3. x \in 0 .. C /\ f[x] # g[x]
      BY DEF T
    <3>4. x > 0 => f[x - 1] = g[x - 1]
      <4> SUFFICES ASSUME x > 0, f[x - 1] # g[x - 1] PROVE FALSE
        OBVIOUS
      <4>1. x - 1 \in T
        BY <1>1, <3>3 DEF T
      <4> QED
        BY <1>1, <3>2, <3>3, <4>1
    <3>5. Further(next, r, f, x) = g[x]
      BY <1>5, <3>3, <3>4
    <3>6. f[x] = Further(next, r, f, x)
      BY <1>7, <3>3, Zenon
    <3> QED
      BY <3>3, <3>5, <3>6
  <2>2. f = [k \in 0 .. C |-> f[k]] /\ g = [k \in 0 .. C |-> g[k]]
    <3>1. DOMAIN f = 0 .. C
      BY <1>7, Zenon
    <3>2. f = [k \in DOMAIN f |-> f[k]]
      BY <1>7, Zenon
    <3> QED
      BY <3>1, <3>2, Zenon DEF g
  <2> QED
    BY <2>1, <2>2
<1>8. (CHOOSE f : P(f)) = g
  <2>1. P(CHOOSE f : P(f))
    BY <1>6
  <2> QED
    BY <1>7, <2>1
<1>9. Path(next, r) = (CHOOSE f : P(f))[C]
  BY PathDef, Zenon DEF C
<1>10. g[C] = s
  <2>1. upto(C) = Len(s) /\ C \in 0 .. C
    BY <1>1
  <2>2. g[C] \in Seq(Nodes) /\ Len(g[C]) = Len(s)
        /\ \A i \in 1 .. Len(s) : g[C][i] = s[i]
    BY <1>4, <2>1
  <2> QED
    BY <1>2, <2>2, SameSeq
<1> HIDE DEF P
<1> QED
  BY <1>8, <1>9, <1>10

-------------------------------------------------------------------------
(* What the two operations do to the lists.                               *)

Links == [Nodes -> Nodes \cup {Nil}]

(* Below the last index there is a next one.                              *)
LEMMA NextIndex ==
    ASSUME NEW n \in Nat, NEW i \in 1 .. n, i # n
    PROVE  i + 1 \in 1 .. n
  OBVIOUS

(* What the pieces of IsPath say of one cell.                             *)
LEMMA PathCells ==
    ASSUME NEW next, NEW r, NEW s, IsPath(next, r, s)
    PROVE  /\ Len(s) \in Nat /\ DOMAIN s = 1 .. Len(s)
           /\ \A i \in 1 .. Len(s) : s[i] \in Nodes /\ s[i] # Nil
           /\ \A n : n \in Cells(s) <=> \E i \in 1 .. Len(s) : s[i] = n
           /\ s = << >> <=> r = Nil
           /\ s # << >> => Len(s) \in 1 .. Len(s) /\ r = s[1] /\ r \in Cells(s)
<1>1. /\ Len(s) \in Nat /\ DOMAIN s = 1 .. Len(s)
      /\ \A i \in 1 .. Len(s) : s[i] \in Nodes /\ s[i] # Nil
  <2>1. s \in Seq(Nodes)
    BY DEF IsPath
  <2>2. /\ Len(s) \in Nat /\ DOMAIN s = 1 .. Len(s)
        /\ \A i \in 1 .. Len(s) : s[i] \in Nodes
    BY <2>1
  <2> QED
    BY <2>2, NodeAssumption
<1>2. s # << >> => Len(s) \in 1 .. Len(s) /\ 1 \in 1 .. Len(s)
  BY EmptySeq DEF IsPath
<1> QED
  BY <1>1, <1>2 DEF IsPath, Cells

(* sbp_append puts the node behind the last one.                          *)
LEMMA AppendPath ==
    ASSUME NEW next \in Links, NEW r, NEW s, IsPath(next, r, s),
           NEW n \in Nodes, n \notin Cells(s)
    PROVE  /\ Appended(next, r, n) \in Links
           /\ IsPath(Appended(next, r, n), AppendHead(r, n), Append(s, n))
           /\ Cells(Append(s, n)) = Cells(s) \cup {n}
<1> DEFINE a == Appended(next, r, n)
           t == Append(s, n)
<1>1. Path(next, r) = s
  BY PathIs
<1>2. /\ Len(s) \in Nat /\ DOMAIN s = 1 .. Len(s)
      /\ \A i \in 1 .. Len(s) : s[i] \in Nodes /\ s[i] # Nil
      /\ s = << >> <=> r = Nil
      /\ s # << >> => Len(s) \in 1 .. Len(s) /\ r = s[1]
      /\ \A i \in 1 .. Len(s) : s[i] # n
  BY PathCells
<1>3. s \in Seq(Nodes)
  BY DEF IsPath
<1>4. /\ t \in Seq(Nodes) /\ Len(t) = Len(s) + 1 /\ DOMAIN t = 1 .. Len(s) + 1
      /\ \A i \in 1 .. Len(s) : t[i] = s[i]
      /\ t[Len(s) + 1] = n
      /\ t # << >>
  <2>1. t \in Seq(Nodes) /\ Len(t) = Len(s) + 1 /\ DOMAIN t = 1 .. Len(s) + 1
    BY <1>3
  <2>2. /\ \A i \in 1 .. Len(s) : t[i] = s[i]
        /\ t[Len(s) + 1] = n
    BY <1>3
  <2>3. t # << >>
    <3>1. Len(t) # 0
      BY <2>1, <1>2
    <3> HIDE DEF t
    <3> QED
      BY <3>1
  <2> QED
    BY <2>1, <2>2, <2>3
<1> HIDE DEF t
<1>5. /\ a \in Links
      /\ a[n] = Nil
      /\ \A m \in Nodes \ {n} :
            a[m] = IF s # << >> /\ m = s[Len(s)] THEN n ELSE next[m]
  <2>1. CASE s = << >>
    <3>1. a = [next EXCEPT ![n] = Nil]
      BY <1>2, <2>1 DEF Appended
    <3> QED
      BY <2>1, <3>1 DEF Links
  <2>2. CASE s # << >>
    <3>1. a = [next EXCEPT ![n] = Nil, ![s[Len(s)]] = n]
      BY <1>1, <1>2, <2>2 DEF Appended, Tail_
    <3>2. s[Len(s)] \in Nodes /\ s[Len(s)] # n
      BY <1>2, <2>2
    <3> QED
      BY <2>2, <3>1, <3>2 DEF Links
  <2> QED
    BY <2>1, <2>2
<1> HIDE DEF a
<1>6. \A i, j \in DOMAIN t : t[i] = t[j] => i = j
  <2>1. \A i, j \in 1 .. Len(s) : s[i] = s[j] => i = j
    BY <1>2 DEF IsPath
  <2>2. \A i \in 1 .. Len(s) + 1 : i \in 1 .. Len(s) \/ i = Len(s) + 1
    BY <1>2
  <2> QED
    BY <1>2, <1>4, <2>1, <2>2
<1>7. AppendHead(r, n) = IF t = << >> THEN Nil ELSE t[1]
  <2>1. CASE s = << >>
    BY <1>2, <1>4, <2>1 DEF AppendHead
  <2>2. CASE s # << >>
    <3>1. 1 \in 1 .. Len(s)
      BY <1>2, <2>2
    <3> QED
      BY <1>2, <1>4, <2>2, <3>1 DEF AppendHead
  <2> QED
    BY <2>1, <2>2
<1>8. \A i \in DOMAIN t : a[t[i]] = IF i = Len(t) THEN Nil ELSE t[i + 1]
  <2> TAKE i \in DOMAIN t
  <2>1. CASE i = Len(s) + 1
    BY <1>4, <1>5, <2>1
  <2>2. CASE i \in 1 .. Len(s)
    <3>1. t[i] = s[i] /\ s[i] \in Nodes \ {n} /\ i # Len(t) /\ s # << >>
      BY <1>2, <1>4, <2>2, EmptySeq
    <3>2. CASE i = Len(s)
      BY <1>4, <1>5, <3>1, <3>2
    <3>3. CASE i # Len(s)
      <4>1. s[i] # s[Len(s)]
        BY <1>2, <2>2, <3>1, <3>3 DEF IsPath
      <4>2. a[t[i]] = next[s[i]]
        BY <1>5, <3>1, <4>1
      <4>3. next[s[i]] = s[i + 1]
        BY <1>2, <2>2, <3>3 DEF IsPath
      <4>4. t[i + 1] = s[i + 1]
        <5>1. i + 1 \in 1 .. Len(s)
          BY <1>2, <2>2, <3>3
        <5> QED
          BY <1>4, <5>1
      <4> QED
        BY <3>1, <4>2, <4>3, <4>4
    <3> QED
      BY <3>2, <3>3
  <2> QED
    BY <1>2, <1>4, <2>1, <2>2
<1>9. IsPath(a, AppendHead(r, n), t)
  BY <1>4, <1>6, <1>7, <1>8 DEF IsPath
<1>10. Cells(t) = Cells(s) \cup {n}
  <2>1. \A i \in 1 .. Len(s) + 1 : i \in 1 .. Len(s) \/ i = Len(s) + 1
    BY <1>2
  <2>2. \A i \in 1 .. Len(s) : i \in 1 .. Len(s) + 1
    BY <1>2
  <2>3. Len(s) + 1 \in 1 .. Len(s) + 1
    BY <1>2
  <2>4. Cells(t) = {t[i] : i \in 1 .. Len(s) + 1}
    BY <1>4 DEF Cells
  <2>5. Cells(s) = {s[i] : i \in 1 .. Len(s)}
    BY <1>2 DEF Cells
  <2> QED
    BY <1>4, <2>1, <2>2, <2>3, <2>4, <2>5
<1> QED
  BY <1>5, <1>9, <1>10 DEF a, t

(* ... and leaves every other list alone.                                 *)
LEMMA AppendKeeps ==
    ASSUME NEW next \in Links, NEW r, NEW s, IsPath(next, r, s),
           NEW n \in Nodes, NEW q, NEW t, IsPath(next, q, t),
           n \notin Cells(t), Cells(s) \cap Cells(t) = {}
    PROVE  IsPath(Appended(next, r, n), q, t)
<1>1. Path(next, r) = s
  BY PathIs
<1>2. /\ s = << >> <=> r = Nil
      /\ s # << >> => s[Len(s)] \in Cells(s) /\ s[Len(s)] \in Nodes
  BY PathCells
<1>3. \A m \in Cells(t) : m \in Nodes /\ m # n /\ m \notin Cells(s)
  BY PathCells
<1>4. \A m \in Cells(t) : Appended(next, r, n)[m] = next[m]
  BY <1>1, <1>2, <1>3 DEF Appended, Tail_, Links
<1>5. \A i \in DOMAIN t : t[i] \in Cells(t)
  BY DEF Cells
<1> QED
  BY <1>4, <1>5 DEF IsPath

(* sbp_remove takes the node out of its list.                             *)
LEMMA RemovePath ==
    ASSUME nxt \in Links, NEW r, NEW s, IsPath(nxt, r, s), NEW k \in DOMAIN s
    PROVE  /\ Removed(r, s[k]) \in Links
           /\ IsPath(Removed(r, s[k]), RemoveHead(r, s[k]), Lists!BpRemove(s, k))
           /\ Cells(Lists!BpRemove(s, k)) = Cells(s) \ {s[k]}
<1> DEFINE n == s[k]
           a == Removed(r, n)
           t == Lists!BpRemove(s, k)
           was(i) == IF i < k THEN i ELSE i + 1
<1>1. Chain(r) = s
  BY PathIs DEF Chain
<1>2. /\ Len(s) \in Nat /\ DOMAIN s = 1 .. Len(s)
      /\ \A i \in 1 .. Len(s) : s[i] \in Nodes /\ s[i] # Nil
      /\ s # << >> /\ r = s[1] /\ k \in 1 .. Len(s) /\ Len(s) \in 1 .. Len(s)
      /\ 1 \in 1 .. Len(s)
      /\ n \in Nodes
  <2>1. k \in 1 .. Len(s) /\ s # << >>
    BY PathCells
  <2> QED
    BY <2>1, PathCells
<1>3. /\ \A i, j \in 1 .. Len(s) : s[i] = s[j] => i = j
      /\ \A i \in 1 .. Len(s) :
            nxt[s[i]] = IF i = Len(s) THEN Nil ELSE s[i + 1]
      /\ s \in Seq(Nodes)
  BY <1>2 DEF IsPath
<1>15. Len(s) \in Nat /\ k \in 1 .. Len(s)
  BY <1>2
<1> HIDE DEF n
<1>4. \A i \in 1 .. Len(s) : s[i] \in Before(r, n) <=> i + 1 = k
  <2> TAKE i \in 1 .. Len(s)
  <2>1. s[i] \in Before(r, n) <=> nxt[s[i]] = n
    BY <1>1, <1>2 DEF Before, Cells
  <2>2. CASE i = Len(s)
    <3>1. nxt[s[i]] = Nil /\ n # Nil
      BY <1>2, <1>3, <2>2 DEF n
    <3>2. i + 1 # k
      BY <1>15, <2>2
    <3> QED
      BY <2>1, <3>1, <3>2
  <2>3. CASE i # Len(s)
    <3>1. i + 1 \in 1 .. Len(s)
      BY <1>15, <2>3
    <3>2. nxt[s[i]] = s[i + 1]
      BY <1>3, <2>3
    <3>3. s[i + 1] = s[k] => i + 1 = k
      BY <1>3, <1>15, <3>1
    <3> QED
      BY <2>1, <3>2, <3>3 DEF n
  <2> QED
    BY <2>2, <2>3
<1>5. r # n <=> k # 1
  BY <1>2, <1>3 DEF n
<1>6. a \in Links
  BY <1>2 DEF Removed, Links
<1>7. \A m \in Nodes :
        a[m] = IF m = n THEN Nil
               ELSE IF r # n /\ m \in Before(r, n) THEN nxt[n] ELSE nxt[m]
  BY DEF Removed
<1>8. \A i \in 1 .. Len(s) : i # k =>
        a[s[i]] = IF i + 1 = k THEN nxt[n] ELSE nxt[s[i]]
  <2> TAKE i \in 1 .. Len(s)
  <2> HAVE i # k
  <2>1. s[i] # n /\ s[i] \in Nodes
    BY <1>2, <1>3 DEF n
  <2>2. i + 1 = k => k # 1
    BY <1>2
  <2> QED
    BY <1>4, <1>5, <1>7, <2>1, <2>2
<1> HIDE DEF a
<1>9. /\ DOMAIN t = 1 .. Len(s) - 1
      /\ \A i \in 1 .. Len(s) - 1 : t[i] = s[was(i)]
      /\ t \in Seq(Nodes) /\ Len(t) = Len(s) - 1
  <2>1. \A i \in 1 .. Len(s) - 1 : was(i) \in 1 .. Len(s)
    BY <1>2
  <2>2. t = [j \in 1 .. Len(s) - 1 |-> s[was(j)]]
    BY DEF Lists!BpRemove
  <2> HIDE DEF t, was
  <2>3. t \in [1 .. Len(s) - 1 -> Nodes]
    BY <1>2, <2>1, <2>2
  <2>4. Len(s) - 1 \in Nat
    BY <1>2
  <2> QED
    BY <2>2, <2>3, <2>4
<1> HIDE DEF t
<1>10. \A i, j \in DOMAIN t : t[i] = t[j] => i = j
  <2> TAKE i, j \in DOMAIN t
  <2>1. was(i) \in 1 .. Len(s) /\ was(j) \in 1 .. Len(s)
    BY <1>2, <1>9
  <2>2. t[i] = t[j] => was(i) = was(j)
    BY <1>3, <1>9, <2>1
  <2> QED
    BY <1>2, <1>9, <2>2
<1>11. RemoveHead(r, n) = IF t = << >> THEN Nil ELSE t[1]
  <2>1. t = << >> <=> Len(s) = 1
    BY <1>2, <1>9, EmptySeq
  <2>2. CASE k = 1
    <3>1. RemoveHead(r, n) = nxt[s[1]]
      BY <1>5, <2>2 DEF RemoveHead, n
    <3>2. CASE Len(s) = 1
      BY <1>2, <1>3, <2>1, <3>1, <3>2
    <3>3. CASE Len(s) # 1
      <4>1. 1 \in 1 .. Len(s) - 1 /\ was(1) = 2 /\ 1 + 1 = 2
        BY <1>15, <2>2, <3>3
      <4>2. nxt[s[1]] = s[2]
        BY <1>2, <1>3, <3>3, <4>1
      <4>3. t[1] = s[2]
        BY <1>9, <4>1
      <4> QED
        BY <2>1, <3>1, <3>3, <4>2, <4>3
    <3> QED
      BY <3>2, <3>3
  <2>3. CASE k # 1
    <3>1. 1 \in 1 .. Len(s) - 1 /\ was(1) = 1 /\ Len(s) # 1
      BY <1>2, <2>3
    <3> QED
      BY <1>2, <1>5, <1>9, <2>1, <2>3, <3>1 DEF RemoveHead
  <2> QED
    BY <2>2, <2>3
<1>12. \A i \in DOMAIN t : a[t[i]] = IF i = Len(t) THEN Nil ELSE t[i + 1]
  <2> TAKE i \in DOMAIN t
  <2>1. i \in 1 .. Len(s) - 1 /\ t[i] = s[was(i)] /\ was(i) \in 1 .. Len(s)
        /\ was(i) # k
    BY <1>2, <1>9
  <2>2. a[t[i]] = IF was(i) + 1 = k THEN nxt[n] ELSE nxt[s[was(i)]]
    BY <1>8, <2>1
  <2>3. i # Len(t) => i + 1 \in 1 .. Len(s) - 1 /\ t[i + 1] = s[was(i + 1)]
    BY <1>2, <1>9, <2>1
  <2>4. CASE was(i) + 1 = k
    <3>1. was(i) = i /\ i + 1 = k /\ a[t[i]] = nxt[s[k]]
      <4>1. was(i) = i /\ i + 1 = k
        BY <1>15, <2>1, <2>4
      <4> QED
        BY <2>2, <2>4, <4>1 DEF n
    <3>2. CASE k = Len(s)
      <4>1. i = Len(t)
        BY <1>9, <1>15, <3>1, <3>2
      <4>2. nxt[s[k]] = Nil
        BY <1>3, <1>15, <3>2
      <4> QED
        BY <3>1, <4>1, <4>2
    <3>3. CASE k # Len(s)
      <4>1. i # Len(t) /\ was(i + 1) = k + 1
        BY <1>9, <1>15, <2>1, <3>1, <3>3
      <4>2. nxt[s[k]] = s[k + 1]
        BY <1>3, <1>15, <3>3
      <4>3. t[i + 1] = s[k + 1]
        BY <2>3, <4>1
      <4> QED
        BY <3>1, <4>1, <4>2, <4>3
    <3> QED
      BY <3>2, <3>3
  <2>5. CASE was(i) + 1 # k
    <3>1. a[t[i]] = IF was(i) = Len(s) THEN Nil ELSE s[was(i) + 1]
      BY <1>3, <2>1, <2>2, <2>5
    <3>2. was(i) = Len(s) <=> i = Len(t)
      BY <1>2, <1>9, <2>1, <2>5
    <3>3. i # Len(t) => was(i + 1) = was(i) + 1
      BY <1>2, <1>9, <2>1, <2>5
    <3> QED
      BY <2>3, <3>1, <3>2, <3>3
  <2> QED
    BY <2>4, <2>5
<1>13. IsPath(a, RemoveHead(r, n), t)
  BY <1>9, <1>10, <1>11, <1>12 DEF IsPath
<1>14. Cells(t) = Cells(s) \ {n}
  <2>1. Cells(t) = {t[i] : i \in 1 .. Len(s) - 1}
    BY <1>9 DEF Cells
  <2>2. Cells(s) = {s[i] : i \in 1 .. Len(s)}
    BY <1>2 DEF Cells
  <2>3. \A i \in 1 .. Len(s) - 1 : t[i] \in Cells(s) /\ t[i] # n
    <3> TAKE i \in 1 .. Len(s) - 1
    <3>1. was(i) \in 1 .. Len(s) /\ was(i) # k
      BY <1>15
    <3>2. t[i] = s[was(i)]
      BY <1>9
    <3> HIDE DEF was
    <3>3. s[was(i)] # s[k]
      BY <1>3, <1>15, <3>1
    <3> QED
      BY <2>2, <3>1, <3>2, <3>3 DEF n
  <2>4. \A j \in 1 .. Len(s) : j # k => s[j] \in Cells(t)
    <3> TAKE j \in 1 .. Len(s)
    <3> HAVE j # k
    <3> DEFINE i == IF j < k THEN j ELSE j - 1
    <3>1. i \in 1 .. Len(s) - 1 /\ was(i) = j
      BY <1>2
    <3> HIDE DEF i, was
    <3> QED
      BY <1>9, <2>1, <3>1
  <2> HIDE DEF was
  <2> QED
    BY <2>1, <2>2, <2>3, <2>4 DEF n
<1> QED
  BY <1>6, <1>13, <1>14 DEF a, t, n

(* ... and no node out of another one, the node itself being in neither   *)
(* or in the first only.                                                  *)
LEMMA RemoveKeeps ==
    ASSUME nxt \in Links, NEW r, NEW s, IsPath(nxt, r, s),
           NEW n \in Nodes, NEW q, NEW t, IsPath(nxt, q, t), n \notin Cells(t),
           Cells(s) \cap Cells(t) = {} \/ n \notin Cells(s)
    PROVE  /\ Removed(r, n) \in Links
           /\ IsPath(Removed(r, n), q, t)
<1>1. Chain(r) = s
  BY PathIs DEF Chain
<1>2. Removed(r, n) \in Links
  BY DEF Removed, Links
<1>3. \A i \in DOMAIN t : t[i] \in Cells(t) /\ t[i] \in Nodes /\ t[i] # n
  BY PathCells DEF Cells
<1>4. \A i \in DOMAIN t : t[i] \notin Before(r, n)
  <2> TAKE i \in DOMAIN t
  <2> SUFFICES ASSUME t[i] \in Cells(s), nxt[t[i]] = n PROVE FALSE
    BY <1>1 DEF Before
  <2>1. PICK j \in 1 .. Len(s) : s[j] = t[i]
    BY PathCells
  <2>2. n = Nil \/ (j # Len(s) /\ n = s[j + 1])
    <3>1. j \in DOMAIN s
      BY PathCells
    <3>2. nxt[s[j]] = IF j = Len(s) THEN Nil ELSE s[j + 1]
      BY <3>1 DEF IsPath
    <3> QED
      BY <2>1, <3>2
  <2>3. j # Len(s) => s[j + 1] \in Cells(s)
    <3>1. Len(s) \in Nat /\ DOMAIN s = 1 .. Len(s)
      BY PathCells
    <3>2. j # Len(s) => j + 1 \in 1 .. Len(s)
      BY <2>1, <3>1, NextIndex
    <3>3. \A m \in 1 .. Len(s) : s[m] \in Cells(s)
      BY <3>1 DEF Cells
    <3> QED
      BY <3>2, <3>3
  <2> QED
    BY <1>3, <2>2, <2>3, NodeAssumption
<1>5. \A i \in DOMAIN t : Removed(r, n)[t[i]] = nxt[t[i]]
  BY <1>3, <1>4 DEF Removed
<1> QED
  BY <1>2, <1>5 DEF IsPath

-------------------------------------------------------------------------
(* The lists of values that BpMoves speaks of.                            *)

(* The record of a node, the records along s, and their type.             *)
Value(n, a, c, i) == [addr |-> a[n], current |-> c[n], id |-> i[n]]
ValuesOf(s, a, c, i) == [k \in DOMAIN s |-> Value(s[k], a, c, i)]
Record == [addr : Places \cup {0}, current : BOOLEAN, id : Int]

(* The fields a node has.                                                 *)
Fields(a, c, i) ==
    /\ a \in [Nodes -> Places \cup {0}]
    /\ c \in [Nodes -> BOOLEAN]
    /\ i \in [Nodes -> Int]

(* A function on the first n numbers is a sequence.                       *)
LEMMA FunctionSeq ==
    ASSUME NEW S, NEW n \in Nat, NEW f \in [1 .. n -> S]
    PROVE  f \in Seq(S) /\ Len(f) = n /\ DOMAIN f = 1 .. n
  OBVIOUS

(* The values along a list are records, one for each node.                *)
LEMMA ValuesType ==
    ASSUME NEW s \in Seq(Nodes), NEW a, NEW c, NEW i, Fields(a, c, i)
    PROVE  /\ ValuesOf(s, a, c, i) \in Seq(Record)
           /\ Len(ValuesOf(s, a, c, i)) = Len(s)
           /\ DOMAIN ValuesOf(s, a, c, i) = 1 .. Len(s)
           /\ \A k \in 1 .. Len(s) :
                ValuesOf(s, a, c, i)[k] = Value(s[k], a, c, i)
<1> DEFINE v == ValuesOf(s, a, c, i)
<1>1. Len(s) \in Nat /\ DOMAIN s = 1 .. Len(s)
      /\ \A k \in 1 .. Len(s) : s[k] \in Nodes
  OBVIOUS
<1>2. \A n \in Nodes : Value(n, a, c, i) \in Record
  BY DEF Record, Fields, Value
<1>3. v = [k \in 1 .. Len(s) |-> Value(s[k], a, c, i)]
  BY <1>1 DEF ValuesOf
<1> HIDE DEF v
<1>4. v \in [1 .. Len(s) -> Record]
  BY <1>1, <1>2, <1>3
<1>5. v \in Seq(Record) /\ Len(v) = Len(s) /\ DOMAIN v = 1 .. Len(s)
  BY <1>1, <1>4, FunctionSeq
<1> QED
  BY <1>3, <1>5 DEF v

(* sbp_append of the node behind s appends its record, renumbered, to the *)
(* values of s.                                                           *)
LEMMA AppendValues ==
    ASSUME NEW next, NEW r, NEW s, IsPath(next, r, s), Fields(addr, current, id),
           NEW n \in Nodes, n \notin Cells(s), NEW inc \in Int,
           NEW a, NEW c, NEW i, Fields(a, c, i),
           NEW bp \in Record, bp.addr = a[n], bp.current = c[n],
           \A m \in Cells(s) : a[m] = addr[m] /\ c[m] = current[m] /\ i[m] = id[m],
           i[n] = AppendId(next, r, inc)
    PROVE  ValuesOf(Append(s, n), a, c, i)
            = Lists!BpAppend(ValuesOf(s, addr, current, id), bp, inc)
<1> DEFINE v == ValuesOf(s, addr, current, id)
           w == ValuesOf(Append(s, n), a, c, i)
           t == Append(s, n)
           x == Lists!WithId(bp, Lists!NextId(v, inc))
<1>1. /\ Len(s) \in Nat /\ DOMAIN s = 1 .. Len(s)
      /\ s \in Seq(Nodes)
      /\ \A k \in 1 .. Len(s) : s[k] \in Nodes /\ s[k] \in Cells(s)
      /\ s = << >> <=> r = Nil
      /\ s # << >> => Len(s) \in 1 .. Len(s)
  BY PathCells DEF IsPath
<1>2. /\ t \in Seq(Nodes) /\ Len(t) = Len(s) + 1
      /\ \A k \in 1 .. Len(s) : t[k] = s[k]
      /\ t[Len(s) + 1] = n
  BY <1>1
<1> HIDE DEF t
<1>3. /\ v \in Seq(Record) /\ Len(v) = Len(s)
      /\ \A k \in 1 .. Len(s) : v[k] = Value(s[k], addr, current, id)
  BY <1>1, ValuesType
<1>4. /\ w \in Seq(Record) /\ Len(w) = Len(t)
      /\ \A k \in 1 .. Len(t) : w[k] = Value(t[k], a, c, i)
  <2>1. w = ValuesOf(t, a, c, i)
    BY DEF t
  <2> HIDE DEF w
  <2> QED
    BY <1>2, <2>1, ValuesType
<1> HIDE DEF v, w
<1>5. Lists!NextId(v, inc) = i[n]
  <2>1. CASE s = << >>
    <3>1. v = << >>
      BY <1>3, <2>1, EmptySeq
    <3> QED
      BY <1>1, <2>1, <3>1 DEF Lists!NextId, AppendId, Nil
  <2>2. CASE s # << >>
    <3>1. v # << >>
      BY <1>1, <1>3, <2>2, EmptySeq
    <3>2. v[Len(v)].id = id[s[Len(s)]]
      <4>1. v[Len(v)] = Value(s[Len(s)], addr, current, id)
        BY <1>1, <1>3, <2>2
      <4> QED
        BY <4>1 DEF Value
    <3>3. AppendId(next, r, inc) = id[s[Len(s)]] + inc
      BY <1>1, <2>2, PathIs DEF AppendId, Tail_
    <3> QED
      BY <3>1, <3>2, <3>3 DEF Lists!NextId
  <2> QED
    BY <2>1, <2>2
<1>6. x = Value(n, a, c, i) /\ x \in Record
  BY <1>5 DEF Lists!WithId, Record, Value, Fields
<1>7. Lists!BpAppend(v, bp, inc) = Append(v, x)
  BY DEF Lists!BpAppend
<1> HIDE DEF x
<1>8. /\ Append(v, x) \in Seq(Record) /\ Len(Append(v, x)) = Len(w)
      /\ \A k \in 1 .. Len(s) : Append(v, x)[k] = v[k]
      /\ Append(v, x)[Len(s) + 1] = x
  BY <1>2, <1>3, <1>4, <1>6
<1>9. \A k \in 1 .. Len(w) : Append(v, x)[k] = w[k]
  <2> TAKE k \in 1 .. Len(w)
  <2>1. k \in 1 .. Len(t) /\ (k \in 1 .. Len(s) \/ k = Len(s) + 1)
    BY <1>1, <1>2, <1>4
  <2>2. CASE k = Len(s) + 1
    BY <1>2, <1>4, <1>6, <1>8, <2>1, <2>2
  <2>3. CASE k \in 1 .. Len(s)
    <3>1. s[k] \in Cells(s) /\ t[k] = s[k]
      BY <1>1, <1>2, <2>3
    <3>2. w[k] = Value(s[k], a, c, i)
      BY <1>4, <2>1, <3>1
    <3>3. v[k] = w[k]
      BY <1>3, <2>3, <3>1, <3>2 DEF Value
    <3> QED
      BY <1>8, <2>3, <3>3
  <2> QED
    BY <2>1, <2>2, <2>3
<1>10. Append(v, x) = w
  BY <1>4, <1>8, <1>9, SeqEqual
<1> QED
  BY <1>7, <1>10 DEF v, w, t

(* Taking a node out of s takes its record out of the values.             *)
LEMMA RemoveValues ==
    ASSUME NEW next, NEW r, NEW s, IsPath(next, r, s), Fields(addr, current, id),
           NEW k \in DOMAIN s, NEW a, NEW c, NEW i,
           \A m \in Cells(s) \ {s[k]} :
                a[m] = addr[m] /\ c[m] = current[m] /\ i[m] = id[m]
    PROVE  /\ ValuesOf(Lists!BpRemove(s, k), a, c, i)
                = Lists!BpRemove(ValuesOf(s, addr, current, id), k)
           /\ k \in DOMAIN ValuesOf(s, addr, current, id)
<1> DEFINE v == ValuesOf(s, addr, current, id)
           t == Lists!BpRemove(s, k)
           w == ValuesOf(t, a, c, i)
           was(j) == IF j < k THEN j ELSE j + 1
<1>1. /\ Len(s) \in Nat /\ DOMAIN s = 1 .. Len(s) /\ k \in 1 .. Len(s)
      /\ s \in Seq(Nodes)
      /\ \A j \in 1 .. Len(s) : s[j] \in Nodes /\ s[j] \in Cells(s)
      /\ \A j \in 1 .. Len(s) : s[j] = s[k] => j = k
  <2>1. k \in 1 .. Len(s)
    BY PathCells
  <2>2. \A j \in 1 .. Len(s) : s[j] = s[k] => j = k
    BY PathCells DEF IsPath
  <2>3. s \in Seq(Nodes)
    BY DEF IsPath
  <2> QED
    BY <2>1, <2>2, <2>3, PathCells
<1>2. /\ Len(v) = Len(s)
      /\ DOMAIN v = 1 .. Len(s)
      /\ \A j \in 1 .. Len(s) : v[j] = Value(s[j], addr, current, id)
  BY <1>1, ValuesType
<1> HIDE DEF v
<1>3. \A j \in 1 .. Len(s) - 1 : was(j) \in 1 .. Len(s) /\ was(j) # k
  BY <1>1
<1>4. t = [j \in 1 .. Len(s) - 1 |-> s[was(j)]]
  BY DEF Lists!BpRemove
<1>5. Lists!BpRemove(v, k) = [j \in 1 .. Len(s) - 1 |-> v[was(j)]]
  BY <1>2 DEF Lists!BpRemove
<1> HIDE DEF t, was
<1>6. w = [j \in 1 .. Len(s) - 1 |-> Value(t[j], a, c, i)]
  BY <1>4 DEF ValuesOf
<1>7. \A j \in 1 .. Len(s) - 1 : v[was(j)] = Value(t[j], a, c, i)
  <2> TAKE j \in 1 .. Len(s) - 1
  <2>1. t[j] = s[was(j)] /\ was(j) \in 1 .. Len(s) /\ was(j) # k
    BY <1>3, <1>4
  <2>2. s[was(j)] \in Cells(s) \ {s[k]}
    BY <1>1, <2>1
  <2> QED
    BY <1>2, <2>1, <2>2 DEF Value
<1>8. w = Lists!BpRemove(v, k)
  BY <1>5, <1>6, <1>7
<1> QED
  BY <1>1, <1>2, <1>8 DEF v, t

(* Values that are not touched stay.                                      *)
LEMMA ValuesKept ==
    ASSUME NEW s \in Seq(Nodes), NEW a, NEW c, NEW i, NEW b, NEW f, NEW j,
           \A m \in Cells(s) : a[m] = b[m] /\ c[m] = f[m] /\ i[m] = j[m]
    PROVE  ValuesOf(s, a, c, i) = ValuesOf(s, b, f, j)
<1>1. \A k \in DOMAIN s : Value(s[k], a, c, i) = Value(s[k], b, f, j)
  BY DEF Value, Cells
<1> QED
  BY <1>1 DEF ValuesOf

-------------------------------------------------------------------------
(* The invariant.                                                         *)

(* s and t are the two lists: they share no node, and their nodes are the *)
(* allocated ones.  Inside the loop of sbp_restore the node at hand is    *)
(* the head of the disabled list, and the room that the loop found when   *)
(* it began is still there.                                               *)
Shape(s, t) ==
    /\ nxt \in Links /\ Fields(addr, current, id)
    /\ IsPath(nxt, e, s) /\ IsPath(nxt, d, t)
    /\ Cells(s) \cap Cells(t) = {}
    /\ Cells(s) \cup Cells(t) = used
    /\ it # Nil => it = d /\ Room

IInv == \E s, t : Shape(s, t)

(* What the walks of the model see of it.                                 *)
LEMMA ShapeChains ==
    ASSUME NEW s, NEW t, Shape(s, t)
    PROVE  /\ Chain(e) = s /\ Chain(d) = t
           /\ Values(Chain(e)) = ValuesOf(s, addr, current, id)
           /\ Values(Chain(d)) = ValuesOf(t, addr, current, id)
           /\ s \in Seq(Nodes) /\ t \in Seq(Nodes)
           /\ Cells(s) \subseteq Nodes /\ Cells(t) \subseteq Nodes
<1>1. Chain(e) = s /\ Chain(d) = t
  BY PathIs DEF Shape, Chain
<1>2. \A u : Values(u) = ValuesOf(u, addr, current, id)
  BY DEF Values, ValuesOf, Value
<1> QED
  BY <1>1, <1>2, CellsCount DEF Shape, IsPath

(* The ids of the values are those of the nodes.                          *)
LEMMA IdsOfValues ==
    ASSUME NEW s \in Seq(Nodes), Fields(addr, current, id)
    PROVE  Lists!Ids(ValuesOf(s, addr, current, id)) = {id[n] : n \in Cells(s)}
<1> DEFINE v == ValuesOf(s, addr, current, id)
<1>1. /\ DOMAIN v = 1 .. Len(s) /\ DOMAIN s = 1 .. Len(s)
      /\ \A k \in 1 .. Len(s) : v[k] = Value(s[k], addr, current, id)
  BY ValuesType, LenProperties
<1> HIDE DEF v
<1>2. \A k \in 1 .. Len(s) : v[k].id = id[s[k]]
  BY <1>1 DEF Value
<1>3. Lists!Ids(v) = {id[s[k]] : k \in 1 .. Len(s)}
  BY <1>1, <1>2 DEF Lists!Ids
<1>4. Cells(s) = {s[k] : k \in 1 .. Len(s)}
  BY <1>1 DEF Cells
<1>5. {id[s[k]] : k \in 1 .. Len(s)} = {id[n] : n \in Cells(s)}
  BY <1>4
<1> QED
  BY <1>3, <1>5 DEF v

(* The bound on the ids says the same of the nodes and of the values.     *)
LEMMA RoomIsRoom ==
    ASSUME NEW s, NEW t, Shape(s, t), Room
    PROVE  Lists!Room
<1>1. /\ Lists!Ids(Values(Chain(e))) = {id[n] : n \in Cells(s)}
      /\ Lists!Ids(Values(Chain(d))) = {id[n] : n \in Cells(t)}
  BY ShapeChains, IdsOfValues DEF Shape
<1>2. \A n \in Cells(s) \cup Cells(t) : id[n] \in 1 - MaxId .. MaxId - 1
  BY ShapeChains DEF Room
<1> QED
  BY <1>1, <1>2 DEF Lists!Room

-------------------------------------------------------------------------
(* The steps.                                                             *)

(* A node leaves the list at r for the end of the one at q: what          *)
(* sbp_disable and sbp_restore have in common.                            *)
LEMMA Moved ==
    ASSUME nxt \in Links, Fields(addr, current, id),
           NEW r, NEW s, IsPath(nxt, r, s), NEW q, NEW t, IsPath(nxt, q, t),
           Cells(s) \cap Cells(t) = {},
           NEW k \in DOMAIN s, NEW inc \in Int, NEW a, NEW c, NEW i,
           Fields(a, c, i),
           \A m \in Nodes \ {s[k]} :
                a[m] = addr[m] /\ c[m] = current[m] /\ i[m] = id[m],
           i[s[k]] = AppendId(Removed(r, s[k]), q, inc),
           NEW bp \in Record, bp.addr = a[s[k]], bp.current = c[s[k]]
    PROVE  LET n == s[k]
               nx == Appended(Removed(r, n), q, n)
               s2 == Lists!BpRemove(s, k)
               t2 == Append(t, n)
           IN  /\ nx \in Links
               /\ IsPath(nx, RemoveHead(r, n), s2)
               /\ IsPath(nx, AppendHead(q, n), t2)
               /\ Cells(s2) = Cells(s) \ {n} /\ Cells(t2) = Cells(t) \cup {n}
               /\ nx[n] = Nil
               /\ k \in DOMAIN ValuesOf(s, addr, current, id)
               /\ ValuesOf(s2, a, c, i)
                    = Lists!BpRemove(ValuesOf(s, addr, current, id), k)
               /\ ValuesOf(t2, a, c, i)
                    = Lists!BpAppend(ValuesOf(t, addr, current, id), bp, inc)
<1> DEFINE n == s[k]
           next == Removed(r, n)
           nx == Appended(next, q, n)
           s2 == Lists!BpRemove(s, k)
           t2 == Append(t, n)
<1>1. /\ n \in Nodes /\ n \in Cells(s) /\ n \notin Cells(t)
      /\ Cells(s) \subseteq Nodes /\ Cells(t) \subseteq Nodes
  <2>1. n \in Cells(s)
    BY DEF Cells
  <2> HIDE DEF n
  <2> QED
    BY <2>1, CellsCount
<1>2. /\ next \in Links
      /\ IsPath(next, RemoveHead(r, n), s2)
      /\ Cells(s2) = Cells(s) \ {n}
  BY RemovePath
<1>3. IsPath(next, q, t)
  BY <1>1, RemoveKeeps
<1>4. /\ nx \in Links /\ IsPath(nx, AppendHead(q, n), t2)
      /\ Cells(t2) = Cells(t) \cup {n}
  <2> HIDE DEF n, next
  <2> QED
    BY <1>1, <1>2, <1>3, AppendPath
<1>5. IsPath(nx, RemoveHead(r, n), s2)
  <2>1. n \notin Cells(s2) /\ Cells(t) \cap Cells(s2) = {}
    BY <1>2
  <2> HIDE DEF n, next, s2
  <2> QED
    BY <1>1, <1>2, <1>3, <2>1, AppendKeeps
<1>6. nx[n] = Nil
  <2>1. t \in Seq(Nodes)
    BY DEF IsPath
  <2> HIDE DEF n, nx
  <2>2. Len(t) + 1 \in DOMAIN t2 /\ t2[Len(t) + 1] = n /\ Len(t2) = Len(t) + 1
    BY <1>1, <2>1
  <2> HIDE DEF t2
  <2> QED
    BY <1>4, <2>2 DEF IsPath
<1>7. /\ k \in DOMAIN ValuesOf(s, addr, current, id)
      /\ ValuesOf(s2, a, c, i)
            = Lists!BpRemove(ValuesOf(s, addr, current, id), k)
  BY <1>1, RemoveValues
<1>8. ValuesOf(t2, a, c, i)
        = Lists!BpAppend(ValuesOf(t, addr, current, id), bp, inc)
  <2>1. \A m \in Cells(t) : a[m] = addr[m] /\ c[m] = current[m] /\ i[m] = id[m]
    BY <1>1
  <2>2. i[n] = AppendId(next, q, inc) /\ bp.addr = a[n] /\ bp.current = c[n]
    OBVIOUS
  <2> HIDE DEF n, next
  <2> QED
    BY <1>1, <1>3, <2>1, <2>2, AppendValues
<1> QED
  BY <1>2, <1>4, <1>5, <1>6, <1>7, <1>8

(* Every action keeps the shape and is a move of BpMoves, or changes no   *)
(* list.                                                                  *)
Kept == \E s, t : Shape(s, t)'
Mapped == Lists!Next \/ UNCHANGED <<Values(Chain(e)), Values(Chain(d))>>

(* What remains of a list step once the next lists are known.             *)
LEMMA NextShape ==
    ASSUME NEW s, NEW t,
           nxt' \in Links, Fields(addr', current', id'),
           IsPath(nxt', e', s), IsPath(nxt', d', t),
           Cells(s) \cap Cells(t) = {}, Cells(s) \cup Cells(t) = used',
           it' = Nil
    PROVE  /\ Kept
           /\ Values(Chain(e))' = ValuesOf(s, addr', current', id')
           /\ Values(Chain(d))' = ValuesOf(t, addr', current', id')
<1>1. Path(nxt', e') = s /\ Path(nxt', d') = t
  BY PathIs
<1>2. Chain(e)' = s /\ Chain(d)' = t
  BY <1>1 DEF Chain
<1>3. Shape(s, t)'
  BY DEF Shape
<1> QED
  BY <1>2, <1>3 DEF Kept, Values, ValuesOf, Value

(* new_sbp is BpMoves' New.                                               *)
LEMMA NewStep ==
    ASSUME NEW s, NEW t, Shape(s, t), New
    PROVE  Kept /\ Mapped
<1>1. PICK n \in Nodes \ used, a \in Places :
        /\ d' = RemoveHead(d, n)
        /\ nxt' = Appended(Removed(d, n), e, n) /\ e' = AppendHead(e, n)
        /\ id' = [id EXCEPT ![n] = AppendId(Removed(d, n), e, 1)]
        /\ addr' = [addr EXCEPT ![n] = a]
        /\ current' = [current EXCEPT ![n] = FALSE]
        /\ used' = used \cup {n}
        /\ it' = Nil
        /\ Room
  BY DEF New
<1> DEFINE next == Removed(d, n)
           s2 == Append(s, n)
           bp == [addr |-> a, current |-> FALSE, id |-> 0]
<1>2. /\ nxt \in Links /\ Fields(addr, current, id)
      /\ IsPath(nxt, e, s) /\ IsPath(nxt, d, t)
      /\ Cells(s) \cap Cells(t) = {} /\ Cells(s) \cup Cells(t) = used
      /\ n \in Nodes /\ n \notin Cells(s) /\ n \notin Cells(t)
  BY DEF Shape
<1>3. next \in Links /\ IsPath(next, e, s) /\ IsPath(next, d, t)
  BY <1>2, RemoveKeeps
<1>4. d' = d
  <2>1. d # n
    BY <1>2, PathCells, NodeAssumption
  <2> QED
    BY <1>1, <2>1 DEF RemoveHead
<1> HIDE DEF next
<1>5. /\ nxt' \in Links /\ IsPath(nxt', e', s2)
      /\ Cells(s2) = Cells(s) \cup {n}
  BY <1>1, <1>2, <1>3, AppendPath DEF next
<1>6. IsPath(nxt', d', t)
  BY <1>1, <1>2, <1>3, <1>4, AppendKeeps DEF next
<1>7. Fields(addr', current', id')
  <2>1. AppendId(next, e, 1) \in Int
    <3>1. Path(next, e) = s
      BY <1>3, PathIs
    <3>2. s # << >> => s[Len(s)] \in Nodes
      BY <1>2, PathCells
    <3>3. s = << >> <=> e = Nil
      BY <1>2, PathCells
    <3> QED
      BY <1>2, <3>1, <3>2, <3>3 DEF AppendId, Tail_, Fields
  <2> QED
    BY <1>1, <1>2, <2>1 DEF Fields, next
<1>8. \A m \in Nodes \ {n} :
        addr'[m] = addr[m] /\ current'[m] = current[m] /\ id'[m] = id[m]
  BY <1>1, <1>2 DEF Fields
<1>9. addr'[n] = a /\ current'[n] = FALSE /\ id'[n] = AppendId(next, e, 1)
  BY <1>1, <1>2 DEF Fields, next
<1>10. /\ Kept
       /\ Values(Chain(e))' = ValuesOf(s2, addr', current', id')
       /\ Values(Chain(d))' = ValuesOf(t, addr', current', id')
  <2>1. Cells(s2) \cap Cells(t) = {} /\ Cells(s2) \cup Cells(t) = used'
    BY <1>1, <1>2, <1>5
  <2> HIDE DEF s2
  <2> QED
    BY <1>1, <1>5, <1>6, <1>7, <2>1, NextShape
<1>11. bp \in Record /\ bp.addr = a /\ bp.current = FALSE
  BY DEF Record
<1> HIDE DEF s2, bp
<1>12. \A m \in Cells(s) \cup Cells(t) :
        addr'[m] = addr[m] /\ current'[m] = current[m] /\ id'[m] = id[m]
  BY <1>2, <1>8, ShapeChains
<1>13. Values(Chain(e))' = Lists!BpAppend(Values(Chain(e)), bp, 1)
  <2>1. ValuesOf(s2, addr', current', id')
          = Lists!BpAppend(ValuesOf(s, addr, current, id), bp, 1)
    <3> DEFINE b == addr'
               c == current'
               i == id'
    <3>1. /\ Fields(b, c, i)
          /\ bp.addr = b[n] /\ bp.current = c[n]
          /\ i[n] = AppendId(next, e, 1)
          /\ \A m \in Cells(s) :
                b[m] = addr[m] /\ c[m] = current[m] /\ i[m] = id[m]
      BY <1>7, <1>9, <1>11, <1>12
    <3> HIDE DEF b, c, i
    <3>2. ValuesOf(Append(s, n), b, c, i)
            = Lists!BpAppend(ValuesOf(s, addr, current, id), bp, 1)
      BY <1>2, <1>3, <1>11, <3>1, AppendValues
    <3> QED
      BY <3>2 DEF b, c, i, s2
  <2> QED
    BY <1>10, <2>1, ShapeChains
<1>14. Values(Chain(d))' = Values(Chain(d))
  <2>1. t \in Seq(Nodes)
    BY ShapeChains
  <2>2. ValuesOf(t, addr', current', id') = ValuesOf(t, addr, current, id)
    BY <1>12, <2>1, ValuesKept
  <2> QED
    BY <1>10, <2>2, ShapeChains
<1>15. Lists!New
  BY <1>1, <1>13, <1>14, RoomIsRoom DEF Lists!New, bp
<1> QED
  BY <1>10, <1>15 DEF Lists!Next, Mapped

(* The id that sbp_append gives is a number.                              *)
LEMMA MovedIdInt ==
    ASSUME nxt \in Links, Fields(addr, current, id),
           NEW r, NEW s, IsPath(nxt, r, s), NEW q, NEW t, IsPath(nxt, q, t),
           Cells(s) \cap Cells(t) = {}, NEW n \in Cells(s), NEW inc \in Int
    PROVE  AppendId(Removed(r, n), q, inc) \in Int
<1>1. n \in Nodes /\ n \notin Cells(t)
  BY CellsCount
<1>2. IsPath(Removed(r, n), q, t)
  BY <1>1, RemoveKeeps
<1>3. Path(Removed(r, n), q) = t
  BY <1>2, PathIs
<1>4. (t = << >> <=> q = Nil) /\ (t # << >> => t[Len(t)] \in Nodes)
  BY PathCells
<1> QED
  BY <1>3, <1>4 DEF AppendId, Tail_, Fields

(* sbp_disable is BpMoves' Disable.                                       *)
LEMMA DisableStep ==
    ASSUME NEW s, NEW t, Shape(s, t), Disable
    PROVE  Kept /\ Mapped
<1>1. /\ nxt \in Links /\ Fields(addr, current, id)
      /\ IsPath(nxt, e, s) /\ IsPath(nxt, d, t)
      /\ Cells(s) \cap Cells(t) = {} /\ Cells(s) \cup Cells(t) = used
  BY DEF Shape
<1>2. PICK n \in Cells(s) :
        /\ e' = RemoveHead(e, n)
        /\ nxt' = Appended(Removed(e, n), d, n) /\ d' = AppendHead(d, n)
        /\ id' = [id EXCEPT ![n] = AppendId(Removed(e, n), d, -1)]
        /\ current' = [current EXCEPT ![n] = TRUE]
        /\ addr' = addr /\ used' = used /\ it' = Nil
        /\ Room
  BY ShapeChains DEF Disable
<1>3. PICK k \in DOMAIN s : s[k] = n
  BY DEF Cells
<1> DEFINE v == ValuesOf(s, addr, current, id)
           bp == [v[k] EXCEPT !.current = TRUE]
           s2 == Lists!BpRemove(s, k)
           t2 == Append(t, n)
<1>4. n \in Nodes /\ -1 \in Int
  BY <1>1, CellsCount
<1>5. AppendId(Removed(e, n), d, -1) \in Int
  BY <1>1, <1>4, MovedIdInt
<1>6. /\ Fields(addr', current', id')
      /\ id'[n] = AppendId(Removed(e, n), d, -1)
      /\ \A m \in Nodes \ {n} :
            addr'[m] = addr[m] /\ current'[m] = current[m] /\ id'[m] = id[m]
  BY <1>1, <1>2, <1>4, <1>5 DEF Fields
<1>7. bp \in Record /\ bp.addr = addr'[n] /\ bp.current = current'[n]
  <2>1. v[k] = Value(n, addr, current, id)
    <3>1. s \in Seq(Nodes) /\ k \in 1 .. Len(s)
      BY <1>1, PathCells DEF IsPath
    <3> QED
      BY <1>1, <1>3, <3>1, ValuesType
  <2>2. v[k] \in Record
    BY <1>1, <1>4, <2>1 DEF Value, Record, Fields
  <2>3. v[k].addr = addr[n]
    BY <2>1 DEF Value
  <2> HIDE DEF v
  <2>4. current'[n] = TRUE
    BY <1>1, <1>2, <1>4 DEF Fields
  <2> QED
    BY <1>2, <2>2, <2>3, <2>4 DEF Record
<1> HIDE DEF bp
<1>8. /\ nxt' \in Links /\ IsPath(nxt', e', s2) /\ IsPath(nxt', d', t2)
      /\ Cells(s2) = Cells(s) \ {n} /\ Cells(t2) = Cells(t) \cup {n}
      /\ k \in DOMAIN v
      /\ ValuesOf(s2, addr', current', id') = Lists!BpRemove(v, k)
      /\ ValuesOf(t2, addr', current', id')
            = Lists!BpAppend(ValuesOf(t, addr, current, id), bp, -1)
  <2> DEFINE a == addr'
             c == current'
             i == id'
  <2>1. /\ Fields(a, c, i)
        /\ \A m \in Nodes \ {s[k]} :
                a[m] = addr[m] /\ c[m] = current[m] /\ i[m] = id[m]
        /\ i[s[k]] = AppendId(Removed(e, s[k]), d, -1)
        /\ bp.addr = a[s[k]] /\ bp.current = c[s[k]]
    BY <1>3, <1>6, <1>7
  <2> HIDE DEF a, c, i
  <2>2. LET nx == Appended(Removed(e, s[k]), d, s[k])
        IN  /\ nx \in Links
            /\ IsPath(nx, RemoveHead(e, s[k]), Lists!BpRemove(s, k))
            /\ IsPath(nx, AppendHead(d, s[k]), Append(t, s[k]))
            /\ Cells(Lists!BpRemove(s, k)) = Cells(s) \ {s[k]}
            /\ Cells(Append(t, s[k])) = Cells(t) \cup {s[k]}
            /\ k \in DOMAIN ValuesOf(s, addr, current, id)
            /\ ValuesOf(Lists!BpRemove(s, k), a, c, i)
                = Lists!BpRemove(ValuesOf(s, addr, current, id), k)
            /\ ValuesOf(Append(t, s[k]), a, c, i)
                = Lists!BpAppend(ValuesOf(t, addr, current, id), bp, -1)
    BY <1>1, <1>4, <1>7, <2>1, Moved
  <2> QED
    BY <1>2, <1>3, <2>2 DEF a, c, i
<1> HIDE DEF v, s2, t2
<1>9. /\ Kept
      /\ Values(Chain(e))' = ValuesOf(s2, addr', current', id')
      /\ Values(Chain(d))' = ValuesOf(t2, addr', current', id')
  <2>1. Cells(s2) \cap Cells(t2) = {} /\ Cells(s2) \cup Cells(t2) = used'
    BY <1>1, <1>2, <1>8
  <2> QED
    BY <1>2, <1>6, <1>8, <2>1, NextShape
<1>10. Values(Chain(e)) = v /\ Values(Chain(d)) = ValuesOf(t, addr, current, id)
  BY ShapeChains DEF v
<1>11. Lists!Room
  BY <1>2, RoomIsRoom
<1>12. Lists!Disable
  BY <1>8, <1>9, <1>10, <1>11 DEF Lists!Disable, bp
<1> QED
  BY <1>9, <1>12 DEF Lists!Next, Mapped

(* A pass of the loop of sbp_restore is BpMoves' Restore, and it ends the *)
(* loop: the node it moved has no successor.                              *)
LEMMA RestoreStepStep ==
    ASSUME NEW s, NEW t, Shape(s, t), RestoreStep
    PROVE  Kept /\ Mapped
<1>1. /\ nxt \in Links /\ Fields(addr, current, id)
      /\ IsPath(nxt, e, s) /\ IsPath(nxt, d, t)
      /\ Cells(s) \cap Cells(t) = {} /\ Cells(s) \cup Cells(t) = used
      /\ it = d /\ d # Nil /\ Room
  BY DEF Shape, RestoreStep
<1> DEFINE n == d
<1>2. /\ d' = RemoveHead(d, n)
      /\ nxt' = Appended(Removed(d, n), e, n) /\ e' = AppendHead(e, n)
      /\ id' = [id EXCEPT ![n] = AppendId(Removed(d, n), e, 1)]
      /\ current' = [current EXCEPT ![n] = FALSE]
      /\ addr' = addr /\ used' = used /\ it' = nxt'[n]
  BY <1>1 DEF RestoreStep
<1>3. /\ t # << >> /\ 1 \in DOMAIN t /\ t[1] = n /\ n \in Cells(t)
      /\ n \in Nodes
  BY <1>1, PathCells
<1> HIDE DEF n
<1> DEFINE w == ValuesOf(t, addr, current, id)
           bp == [w[1] EXCEPT !.current = FALSE]
           t2 == Lists!BpRemove(t, 1)
           s2 == Append(s, n)
<1>5. AppendId(Removed(d, n), e, 1) \in Int
  BY <1>1, <1>3, MovedIdInt
<1>6. /\ Fields(addr', current', id')
      /\ id'[n] = AppendId(Removed(d, n), e, 1)
      /\ \A m \in Nodes \ {n} :
            addr'[m] = addr[m] /\ current'[m] = current[m] /\ id'[m] = id[m]
  BY <1>1, <1>2, <1>3, <1>5 DEF Fields
<1>7. bp \in Record /\ bp.addr = addr'[n] /\ bp.current = current'[n]
  <2>1. w[1] = Value(n, addr, current, id)
    <3>1. t \in Seq(Nodes) /\ 1 \in 1 .. Len(t)
      BY <1>1, <1>3, PathCells DEF IsPath
    <3> QED
      BY <1>1, <1>3, <3>1, ValuesType
  <2>2. w[1] \in Record
    BY <1>1, <1>3, <2>1 DEF Value, Record, Fields
  <2>3. w[1].addr = addr[n]
    BY <2>1 DEF Value
  <2> HIDE DEF w
  <2>4. current'[n] = FALSE
    BY <1>1, <1>2, <1>3 DEF Fields
  <2> QED
    BY <1>2, <2>2, <2>3, <2>4 DEF Record
<1> HIDE DEF bp
<1>8. /\ nxt' \in Links /\ IsPath(nxt', d', t2) /\ IsPath(nxt', e', s2)
      /\ Cells(t2) = Cells(t) \ {n} /\ Cells(s2) = Cells(s) \cup {n}
      /\ nxt'[n] = Nil
      /\ 1 \in DOMAIN w
      /\ ValuesOf(t2, addr', current', id') = Lists!BpRemove(w, 1)
      /\ ValuesOf(s2, addr', current', id')
            = Lists!BpAppend(ValuesOf(s, addr, current, id), bp, 1)
  <2> DEFINE a == addr'
             c == current'
             i == id'
  <2>1. /\ Fields(a, c, i)
        /\ \A m \in Nodes \ {t[1]} :
                a[m] = addr[m] /\ c[m] = current[m] /\ i[m] = id[m]
        /\ i[t[1]] = AppendId(Removed(d, t[1]), e, 1)
        /\ bp.addr = a[t[1]] /\ bp.current = c[t[1]]
        /\ Cells(t) \cap Cells(s) = {}
    BY <1>1, <1>3, <1>6, <1>7
  <2> HIDE DEF a, c, i
  <2>2. LET nx == Appended(Removed(d, t[1]), e, t[1])
        IN  /\ nx \in Links
            /\ IsPath(nx, RemoveHead(d, t[1]), Lists!BpRemove(t, 1))
            /\ IsPath(nx, AppendHead(e, t[1]), Append(s, t[1]))
            /\ Cells(Lists!BpRemove(t, 1)) = Cells(t) \ {t[1]}
            /\ Cells(Append(s, t[1])) = Cells(s) \cup {t[1]}
            /\ nx[t[1]] = Nil
            /\ 1 \in DOMAIN ValuesOf(t, addr, current, id)
            /\ ValuesOf(Lists!BpRemove(t, 1), a, c, i)
                = Lists!BpRemove(ValuesOf(t, addr, current, id), 1)
            /\ ValuesOf(Append(s, t[1]), a, c, i)
                = Lists!BpAppend(ValuesOf(s, addr, current, id), bp, 1)
    BY <1>1, <1>3, <1>7, <2>1, Moved
  <2> QED
    BY <1>2, <1>3, <2>2 DEF a, c, i
<1> HIDE DEF w, s2, t2
<1>9. /\ Kept
      /\ Values(Chain(e))' = ValuesOf(s2, addr', current', id')
      /\ Values(Chain(d))' = ValuesOf(t2, addr', current', id')
  <2>1. Cells(s2) \cap Cells(t2) = {} /\ Cells(s2) \cup Cells(t2) = used'
    BY <1>1, <1>2, <1>3, <1>8
  <2>2. it' = Nil
    BY <1>2, <1>8
  <2> QED
    BY <1>2, <1>6, <1>8, <2>1, <2>2, NextShape
<1>10. Values(Chain(d)) = w /\ Values(Chain(e)) = ValuesOf(s, addr, current, id)
  BY ShapeChains DEF w
<1>11. Lists!Room
  BY <1>1, RoomIsRoom
<1>12. w # << >>
  BY <1>8
<1>13. Lists!Restore
  BY <1>8, <1>9, <1>10, <1>11, <1>12 DEF Lists!Restore, bp
<1> QED
  BY <1>9, <1>13 DEF Lists!Next, Mapped

(* sbp_delete on the list at r, the other one being at q.                 *)
LEMMA Dropped ==
    ASSUME nxt \in Links, Fields(addr, current, id),
           NEW r, NEW s, IsPath(nxt, r, s), NEW q, NEW t, IsPath(nxt, q, t),
           Cells(s) \cap Cells(t) = {}, NEW k \in DOMAIN s
    PROVE  /\ Removed(r, s[k]) \in Links
           /\ IsPath(Removed(r, s[k]), RemoveHead(r, s[k]), Lists!BpRemove(s, k))
           /\ IsPath(Removed(r, s[k]), q, t)
           /\ Cells(Lists!BpRemove(s, k)) = Cells(s) \ {s[k]}
           /\ s[k] \in Cells(s)
           /\ k \in DOMAIN ValuesOf(s, addr, current, id)
           /\ ValuesOf(Lists!BpRemove(s, k), addr, current, id)
                = Lists!BpRemove(ValuesOf(s, addr, current, id), k)
<1>1. s[k] \in Cells(s)
  BY DEF Cells
<1>2. s[k] \in Nodes /\ s[k] \notin Cells(t)
  BY <1>1, CellsCount
<1>3. /\ Removed(r, s[k]) \in Links
      /\ IsPath(Removed(r, s[k]), RemoveHead(r, s[k]), Lists!BpRemove(s, k))
      /\ Cells(Lists!BpRemove(s, k)) = Cells(s) \ {s[k]}
  BY RemovePath
<1>4. IsPath(Removed(r, s[k]), q, t)
  BY <1>2, RemoveKeeps
<1>5. /\ k \in DOMAIN ValuesOf(s, addr, current, id)
      /\ ValuesOf(Lists!BpRemove(s, k), addr, current, id)
            = Lists!BpRemove(ValuesOf(s, addr, current, id), k)
  BY RemoveValues
<1> QED
  BY <1>1, <1>3, <1>4, <1>5

(* sbp_delete is BpMoves' Delete, on the list that the sign chooses.      *)
LEMMA DeleteStep ==
    ASSUME NEW s, NEW t, Shape(s, t), Delete
    PROVE  Kept /\ Mapped
<1>1. /\ nxt \in Links /\ Fields(addr, current, id)
      /\ IsPath(nxt, e, s) /\ IsPath(nxt, d, t)
      /\ Cells(s) \cap Cells(t) = {} /\ Cells(t) \cap Cells(s) = {}
      /\ Cells(s) \cup Cells(t) = used
  BY DEF Shape
<1>2. addr' = addr /\ id' = id /\ current' = current /\ it' = Nil
  BY DEF Delete
<1>3. PICK i \in DeleteIds : DeleteOf(IF i < 0 THEN d ELSE e, i)
  BY DEF Delete
<1>4. Chain(e) = s /\ Chain(d) = t
  BY ShapeChains
<1> DEFINE v == ValuesOf(s, addr, current, id)
           w == ValuesOf(t, addr, current, id)
<1>5. CASE i < 0
  <2>1. PICK n \in ById(d, i) :
            /\ nxt' = Removed(d, n) /\ used' = used \ {n}
            /\ d' = RemoveHead(d, n) /\ e' = e
    BY <1>3, <1>5 DEF DeleteOf
  <2>2. PICK k \in DOMAIN t : t[k] = n
    BY <1>4 DEF ById
  <2> DEFINE t2 == Lists!BpRemove(t, k)
  <2>3. /\ nxt' \in Links /\ IsPath(nxt', d', t2) /\ IsPath(nxt', e', s)
        /\ Cells(t2) = Cells(t) \ {n} /\ n \in Cells(t)
        /\ k \in DOMAIN w
        /\ ValuesOf(t2, addr, current, id) = Lists!BpRemove(w, k)
    BY <1>1, <2>1, <2>2, Dropped
  <2> HIDE DEF t2
  <2>4. Cells(s) \cap Cells(t2) = {} /\ Cells(s) \cup Cells(t2) = used'
    BY <1>1, <2>1, <2>3
  <2>5. /\ Kept
        /\ Values(Chain(e))' = ValuesOf(s, addr', current', id')
        /\ Values(Chain(d))' = ValuesOf(t2, addr', current', id')
    BY <1>1, <1>2, <2>3, <2>4, NextShape
  <2>6. Values(Chain(e)) = v /\ Values(Chain(d)) = w
    BY ShapeChains
  <2> HIDE DEF v, w
  <2>7. Lists!Delete
    BY <1>2, <2>3, <2>5, <2>6 DEF Lists!Delete, v
  <2> QED
    BY <2>5, <2>7 DEF Lists!Next, Mapped
<1>6. CASE ~(i < 0)
  <2>1. PICK n \in ById(e, i) :
            /\ nxt' = Removed(e, n) /\ used' = used \ {n}
            /\ e' = RemoveHead(e, n) /\ d' = d
    BY <1>3, <1>6 DEF DeleteOf
  <2>2. PICK k \in DOMAIN s : s[k] = n
    BY <1>4 DEF ById
  <2> DEFINE s2 == Lists!BpRemove(s, k)
  <2>3. /\ nxt' \in Links /\ IsPath(nxt', e', s2) /\ IsPath(nxt', d', t)
        /\ Cells(s2) = Cells(s) \ {n} /\ n \in Cells(s)
        /\ k \in DOMAIN v
        /\ ValuesOf(s2, addr, current, id) = Lists!BpRemove(v, k)
    BY <1>1, <2>1, <2>2, Dropped
  <2> HIDE DEF s2
  <2>4. Cells(s2) \cap Cells(t) = {} /\ Cells(s2) \cup Cells(t) = used'
    BY <1>1, <2>1, <2>3
  <2>5. /\ Kept
        /\ Values(Chain(e))' = ValuesOf(s2, addr', current', id')
        /\ Values(Chain(d))' = ValuesOf(t, addr', current', id')
    BY <1>1, <1>2, <2>3, <2>4, NextShape
  <2>6. Values(Chain(e)) = v /\ Values(Chain(d)) = w
    BY ShapeChains
  <2> HIDE DEF v, w
  <2>7. Lists!Delete
    BY <1>2, <2>3, <2>5, <2>6 DEF Lists!Delete, w
  <2> QED
    BY <2>5, <2>7 DEF Lists!Next, Mapped
<1> QED
  BY <1>5, <1>6

(* Where only the loop variable moves, the lists stay what they are.      *)
LEMMA SameLists ==
    ASSUME NEW s, NEW t, Shape(s, t),
           UNCHANGED <<e, d, nxt, addr, id, current, used>>,
           it' # Nil => it' = d /\ Room
    PROVE  Kept /\ Mapped
<1>1. Room' = Room /\ UNCHANGED <<Values(Chain(e)), Values(Chain(d))>>
  BY DEF Room, Values, Chain
<1>2. Shape(s, t)'
  BY <1>1 DEF Shape
<1> QED
  BY <1>1, <1>2 DEF Kept, Mapped

(* The invariant is inductive, and every step is a move or a stutter.     *)
LEMMA StepKeeps ==
    ASSUME IInv, [Next]_vars
    PROVE  IInv' /\ Mapped
<1>1. PICK s, t : Shape(s, t)
  BY DEF IInv
<1>2. CASE New
  BY <1>1, <1>2, NewStep DEF IInv, Kept
<1>3. CASE Disable
  BY <1>1, <1>3, DisableStep DEF IInv, Kept
<1>4. CASE RestoreBegin
  BY <1>1, <1>4, SameLists DEF IInv, Kept, RestoreBegin
<1>5. CASE RestoreStep
  BY <1>1, <1>5, RestoreStepStep DEF IInv, Kept
<1>6. CASE Delete
  BY <1>1, <1>6, DeleteStep DEF IInv, Kept
<1>7. CASE UNCHANGED vars
  <2>1. UNCHANGED <<e, d, nxt, addr, id, current, used>> /\ it' = it
    BY <1>7 DEF vars
  <2>2. it' # Nil => it' = d /\ Room
    BY <1>1, <2>1 DEF Shape
  <2> QED
    BY <1>1, <2>1, <2>2, SameLists DEF IInv, Kept
<1> QED
  BY <1>2, <1>3, <1>4, <1>5, <1>6, <1>7 DEF Next

(* Two empty lists at first.                                              *)
LEMMA InitShape ==
    ASSUME Init
    PROVE  IInv /\ Lists!Init
<1>1. IsPath(nxt, Nil, << >>)
  BY EmptySeq DEF IsPath
<1>2. Shape(<< >>, << >>)
  BY <1>1 DEF Shape, Init, Links, Fields, Cells
<1>3. \A u : u = << >> => ValuesOf(u, addr, current, id) = << >>
  BY DEF ValuesOf
<1> QED
  BY <1>2, <1>3, ShapeChains DEF IInv, Lists!Init

-------------------------------------------------------------------------
(* The theorems.                                                          *)

(* The invariant holds in every reachable state.                          *)
THEOREM Invariance == Spec => []IInv
<1>1. Init => IInv
  BY InitShape
<1>2. IInv /\ [Next]_vars => IInv'
  BY StepKeeps
<1> QED
  BY <1>1, <1>2, PTL DEF Spec

(* Whatever is appended, disabled, restored and deleted, and however many *)
(* nodes there are, the two chains hold the allocated nodes, each once:   *)
(* none is lost, none is freed while linked, and no chain is a loop.      *)
THEOREM ChainsAreLists == Spec => []ChainsHoldUsed
<1>1. ASSUME IInv PROVE ChainsHoldUsed
  <2>1. PICK s, t : Shape(s, t)
    BY <1>1 DEF IInv
  <2>2. /\ Chain(e) = s /\ Chain(d) = t
        /\ Cells(s) \cap Cells(t) = {} /\ Cells(s) \cup Cells(t) = used
        /\ IsPath(nxt, e, s) /\ IsPath(nxt, d, t)
    BY <2>1, ShapeChains DEF Shape
  <2>3. /\ IsFiniteSet(Cells(s)) /\ Cardinality(Cells(s)) = Len(s)
        /\ IsFiniteSet(Cells(t)) /\ Cardinality(Cells(t)) = Len(t)
        /\ Len(s) \in Nat /\ Len(t) \in Nat
    BY <2>2, CellsCount DEF IsPath
  <2>4. Cardinality(used) = Len(s) + Len(t) - Cardinality({})
    BY <2>2, <2>3, FS_Union
  <2>5. Cardinality(used) = Len(s) + Len(t)
    BY <2>3, <2>4, FS_EmptySet
  <2> QED
    BY <2>2, <2>5 DEF ChainsHoldUsed
<1> QED
  BY <1>1, Invariance, PTL

(* sbp.c implements BpMoves: each operation on the pointers is one        *)
(* operation on the lists of values, and a pass of the loop of            *)
(* sbp_restore over the disabled list restores the node at its head.      *)
THEOREM RefinesBpMoves == Spec => IsLists
<1>1. Init => Lists!Init
  BY InitShape
<1>2. IInv /\ [Next]_vars
        => [Lists!Next]_<<Values(Chain(e)), Values(Chain(d))>>
  BY StepKeeps DEF Mapped
<1> QED
  BY <1>1, <1>2, Invariance, PTL DEF Spec, IsLists, Lists!Spec
=========================================================================
