------------------------- MODULE SessionProofs -------------------------
(* Proofs about Session, for every environment, PATH, status file and     *)
(* number of descriptors: the vector of strings is a map, words mean what *)
(* PATH and the builtins said at the start, and the shell learns its pid. *)
EXTENDS Session, SequenceTheorems, WellFoundedInduction, TLAPS

-------------------------------------------------------------------------
(* Least and greatest numbers, and the searches that return them.         *)

(* A set of numbers has a least one, since < is well founded.             *)
LEMMA LeastNumber ==
    ASSUME NEW T \in SUBSET Nat, T # {}
    PROVE  \E x \in T : \A y \in T : x <= y
<1> DEFINE R == OpToRel(<, Nat)
<1>1. PICK x \in T : \A y \in T : <<y, x>> \notin R
  <2>1. IsWellFoundedOn(R, Nat)
    BY NatLessThanWellFounded
  <2> HIDE DEF R
  <2> QED
    BY <2>1, WFMin
<1>2. ASSUME NEW y \in T, y < x PROVE FALSE
  <2>1. <<y, x>> \in Nat \X Nat
    OBVIOUS
  <2>2. <<y, x>>[1] < <<y, x>>[2]
    BY <1>2
  <2>3. <<y, x>> \in R
    BY <2>1, <2>2 DEF OpToRel
  <2> QED
    BY <2>3, <1>1
<1> HIDE DEF R
<1>3. \A y \in T : x <= y
  BY <1>2
<1> QED
  BY <1>3

(* Min finds it.                                                          *)
LEMMA MinIn ==
    ASSUME NEW T \in SUBSET Nat, T # {}
    PROVE  Min(T) \in T /\ \A y \in T : Min(T) <= y
  BY LeastNumber DEF Min

(* Numbers up to n have a greatest: the one nearest to n.                 *)
LEMMA MaxIn ==
    ASSUME NEW n \in Nat, NEW T \in SUBSET (1 .. n), T # {}
    PROVE  Max(T) \in T /\ \A y \in T : y <= Max(T)
<1> DEFINE U == {n - x : x \in T}
<1>1. U \in SUBSET Nat /\ U # {}
  <2>1. \A x \in T : x \in 1 .. n /\ n - x \in Nat
    OBVIOUS
  <2> QED
    BY <2>1
<1>2. PICK u \in U : \A y \in U : u <= y
  BY <1>1, LeastNumber
<1>3. PICK x \in T : u = n - x
  OBVIOUS
<1>4. \A y \in T : x >= y
  <2> TAKE y \in T
  <2>1. n - y \in U
    OBVIOUS
  <2> QED
    BY <1>2, <1>3, <2>1
<1> HIDE DEF U
<1> QED
  BY <1>3, <1>4 DEF Max

(* The first and the last place of a sequence that is in T.               *)
FirstOf(T) == IF T # {} THEN Min(T) ELSE 0
LastOf(T) == IF T # {} THEN Max(T) ELSE 0

(* The least of a set of indexes; 0 says there is none.                   *)
LEMMA FirstOfIs ==
    ASSUME NEW n \in Nat, NEW T \in SUBSET (1 .. n)
    PROVE  /\ FirstOf(T) \in 0 .. n
           /\ FirstOf(T) = 0 <=> T = {}
           /\ FirstOf(T) # 0 => FirstOf(T) \in T
           /\ \A y \in T : FirstOf(T) <= y
<1>1. T \in SUBSET Nat /\ \A y \in T : y \in 1 .. n
  OBVIOUS
<1>2. CASE T = {}
  BY <1>2 DEF FirstOf
<1>3. CASE T # {}
  <2>1. Min(T) \in T /\ \A y \in T : Min(T) <= y
    BY <1>1, <1>3, MinIn
  <2>2. FirstOf(T) = Min(T)
    BY <1>3 DEF FirstOf
  <2>3. FirstOf(T) \in T /\ FirstOf(T) \in 1 .. n
    BY <1>1, <2>1, <2>2
  <2>4. FirstOf(T) # 0 /\ FirstOf(T) \in 0 .. n
    BY <2>3
  <2> QED
    BY <1>3, <2>1, <2>2, <2>3, <2>4, Zenon
<1> QED
  BY <1>2, <1>3, Zenon

(* The greatest of a set of indexes; 0 says there is none.                *)
LEMMA LastOfIs ==
    ASSUME NEW n \in Nat, NEW T \in SUBSET (1 .. n)
    PROVE  /\ LastOf(T) \in 0 .. n
           /\ LastOf(T) = 0 <=> T = {}
           /\ LastOf(T) # 0 => LastOf(T) \in T
<1>1. \A y \in T : y \in 1 .. n
  OBVIOUS
<1>2. CASE T = {}
  BY <1>2 DEF LastOf
<1>3. CASE T # {}
  <2>1. Max(T) \in T
    BY <1>3, MaxIn
  <2>2. LastOf(T) = Max(T)
    BY <1>3 DEF LastOf
  <2>3. LastOf(T) \in T /\ LastOf(T) \in 1 .. n
    BY <1>1, <2>1, <2>2
  <2>4. LastOf(T) # 0 /\ LastOf(T) \in 0 .. n
    BY <2>3
  <2> QED
    BY <1>3, <2>3, <2>4, Zenon
<1> QED
  BY <1>2, <1>3, Zenon

-------------------------------------------------------------------------
(* The vector of the environment.                                         *)

Distinct(e) == \A i, j \in DOMAIN e : e[i].name = e[j].name => i = j
Vectors == {e \in Seq(Entry) : Distinct(e)}
Names(e) == {e[i].name : i \in DOMAIN e}
Binds(e, n, v) == \E i \in DOMAIN e : e[i].name = n /\ e[i].value = v

(* my_getenv of any vector.                                               *)
FirstAt(e, n, i) == e[i].name = n /\ \A j \in 1 .. i - 1 : e[j].name # n
ValueIn(e, n) ==
    IF n \in Names(e) THEN e[CHOOSE i \in DOMAIN e : FirstAt(e, n, i)].value
    ELSE Absent

(* It is what my_getenv finds in s_term->environ.                         *)
LEMMA ValueIs ==
    ASSUME NEW n
    PROVE  Value(n) = ValueIn(environ, n) /\ (Has(n) <=> n \in Names(environ))
<1>1. Has(n) <=> n \in Names(environ)
  BY DEF Has, Names
<1> QED
  BY <1>1 DEF Value, ValueIn, FirstAt

(* Without repetition it finds the one string of the name.                *)
LEMMA Bound ==
    ASSUME NEW e \in Vectors, NEW n
    PROVE  /\ n \in Names(e) <=> \E v \in Values : Binds(e, n, v)
           /\ \A v : Binds(e, n, v) => ValueIn(e, n) = v
           /\ n \notin Names(e) => ValueIn(e, n) = Absent
           /\ n \in Names(e) => ValueIn(e, n) \in Values /\ n \in Vars
<1>1. /\ e \in Seq(Entry) /\ Distinct(e) /\ DOMAIN e = 1 .. Len(e)
      /\ Len(e) \in Nat /\ \A i \in DOMAIN e : e[i] \in Entry
  BY DEF Vectors
<1>2. \A i \in DOMAIN e : e[i].name \in Vars /\ e[i].value \in Values
  BY <1>1 DEF Entry
<1>3. n \in Names(e) <=> \E v \in Values : Binds(e, n, v)
  BY <1>2 DEF Names, Binds
<1>4. ASSUME NEW v, Binds(e, n, v) PROVE ValueIn(e, n) = v
  <2>1. PICK i \in DOMAIN e : e[i].name = n /\ e[i].value = v
    BY <1>4 DEF Binds
  <2>2. FirstAt(e, n, i)
    <3>1. \A j \in 1 .. i - 1 : j \in DOMAIN e /\ j # i
      BY <1>1
    <3> QED
      BY <1>1, <2>1, <3>1 DEF FirstAt, Distinct
  <2>3. \A j \in DOMAIN e : FirstAt(e, n, j) => j = i
    BY <1>1, <2>1 DEF FirstAt, Distinct
  <2>4. (CHOOSE j \in DOMAIN e : FirstAt(e, n, j)) = i
    BY <2>2, <2>3
  <2>5. n \in Names(e)
    BY <2>1 DEF Names
  <2> QED
    BY <2>1, <2>4, <2>5 DEF ValueIn
<1>5. n \notin Names(e) => ValueIn(e, n) = Absent
  BY DEF ValueIn
<1>6. n \in Names(e) => n \in Vars
  BY <1>2 DEF Names
<1> QED
  BY <1>3, <1>4, <1>5, <1>6

(* Two vectors that bind a name alike give it the same value.             *)
LEMMA SameValue ==
    ASSUME NEW e \in Vectors, NEW d \in Vectors, NEW n,
           \A v : Binds(d, n, v) <=> Binds(e, n, v)
    PROVE  ValueIn(d, n) = ValueIn(e, n) /\ (n \in Names(d) <=> n \in Names(e))
<1>1. n \in Names(d) <=> n \in Names(e)
  BY Bound
<1>2. CASE n \in Names(e)
  <2>1. PICK v : Binds(e, n, v)
    BY <1>2, Bound
  <2> QED
    BY <1>1, <2>1, Bound
<1>3. CASE n \notin Names(e)
  BY <1>1, <1>3, Bound
<1> QED
  BY <1>1, <1>2, <1>3

(* setenv binds its variable and leaves the others alone (my_setenv).     *)
SetIn(d, e, n, v) ==
    /\ d \in Vectors /\ n \in Names(d) /\ ValueIn(d, n) = v
    /\ \A k : k # n => /\ ValueIn(d, k) = ValueIn(e, k)
                       /\ k \in Names(d) <=> k \in Names(e)

(* my_setenv changes one value or puts one name at the end.               *)
LEMMA MySetenvIs ==
    ASSUME NEW e \in Vectors, NEW n \in Vars, NEW v \in Values
    PROVE  SetIn(MySetenv(e, n, v), e, n, v)
<1> DEFINE T == {i \in 1 .. Len(e) : e[i].name = n}
           at == FirstOf(T)
           x == [name |-> n, value |-> v]
           d == MySetenv(e, n, v)
<1>1. /\ e \in Seq(Entry) /\ Distinct(e) /\ DOMAIN e = 1 .. Len(e)
      /\ Len(e) \in Nat /\ \A i \in DOMAIN e : e[i] \in Entry
  BY DEF Vectors
<1>2. SelectInSeq(e, LAMBDA y : y.name = n) = at
  BY DEF SelectInSeq, FirstOf
<1>3. /\ at \in 0 .. Len(e) /\ (at = 0 <=> T = {})
      /\ at # 0 => e[at].name = n
  <2>1. T \in SUBSET (1 .. Len(e))
    OBVIOUS
  <2> HIDE DEF T
  <2>2. at \in 0 .. Len(e) /\ (at = 0 <=> T = {}) /\ (at # 0 => at \in T)
    BY <1>1, <2>1, FirstOfIs
  <2> QED
    BY <2>2 DEF T
<1>4. d = IF at # 0 THEN [e EXCEPT ![at].value = v] ELSE Append(e, x)
  BY <1>2 DEF MySetenv
<1>5. x \in Entry /\ x.name = n /\ x.value = v
  BY DEF Entry
<1> HIDE DEF x, d
<1>6. CASE at # 0
  <2>1. at \in DOMAIN e /\ e[at] \in Entry /\ e[at].name = n
    BY <1>1, <1>3, <1>6
  <2>2. [e[at] EXCEPT !.value = v] = x
    BY <2>1 DEF x, Entry
  <2>3. d = [e EXCEPT ![at] = x]
    BY <1>4, <1>6, <2>2
  <2> HIDE DEF at
  <2>4. /\ d \in Seq(Entry) /\ Len(d) = Len(e) /\ DOMAIN d = DOMAIN e
        /\ d[at] = x /\ \A i \in DOMAIN e : i # at => d[i] = e[i]
    BY <1>1, <1>5, <2>1, <2>3
  <2>5. \A i \in DOMAIN d : d[i].name = e[i].name
    BY <1>5, <2>1, <2>4
  <2>6. d \in Vectors
    BY <1>1, <2>4, <2>5 DEF Vectors, Distinct
  <2>7. n \in Names(d) /\ ValueIn(d, n) = v
    <3>1. Binds(d, n, v)
      BY <1>5, <2>1, <2>4 DEF Binds
    <3> QED
      BY <2>6, <3>1, Bound
  <2>8. ASSUME NEW k, k # n, NEW u PROVE Binds(d, k, u) <=> Binds(e, k, u)
    BY <2>1, <2>4, <2>5, <2>8 DEF Binds
  <2> QED
    BY <2>6, <2>7, <2>8, SameValue DEF SetIn, d
<1>7. CASE at = 0
  <2>1. d = Append(e, x) /\ n \notin Names(e)
    BY <1>1, <1>3, <1>4, <1>7 DEF Names
  <2> HIDE DEF at
  <2>2. /\ d \in Seq(Entry) /\ Len(d) = Len(e) + 1 /\ d[Len(e) + 1] = x
        /\ DOMAIN d = 1 .. Len(e) + 1
        /\ \A i \in DOMAIN e : i \in DOMAIN d /\ d[i] = e[i]
    BY <1>1, <1>5, <2>1, AppendProperties
  <2>3. \A i \in DOMAIN d : i \in DOMAIN e \/ i = Len(e) + 1
    BY <1>1, <2>2
  <2>4. \A i \in DOMAIN e : d[i].name # n
    BY <2>1, <2>2 DEF Names
  <2>5. d \in Vectors
    <3>1. ASSUME NEW i \in DOMAIN d, NEW j \in DOMAIN d,
                 d[i].name = d[j].name
          PROVE  i = j
      <4>1. CASE i \in DOMAIN e /\ j \in DOMAIN e
        BY <1>1, <2>2, <3>1, <4>1 DEF Distinct
      <4>2. CASE i \notin DOMAIN e \/ j \notin DOMAIN e
        BY <1>5, <2>2, <2>3, <2>4, <3>1, <4>2
      <4> QED
        BY <4>1, <4>2
    <3> QED
      BY <2>2, <3>1 DEF Vectors, Distinct
  <2>6. n \in Names(d) /\ ValueIn(d, n) = v
    <3>1. Len(e) + 1 \in DOMAIN d
      BY <1>1, <2>2
    <3>2. Binds(d, n, v)
      BY <1>5, <2>2, <3>1 DEF Binds
    <3> QED
      BY <2>5, <3>2, Bound
  <2>7. ASSUME NEW k, k # n, NEW u PROVE Binds(d, k, u) <=> Binds(e, k, u)
    BY <1>5, <2>2, <2>3, <2>7 DEF Binds
  <2> QED
    BY <2>5, <2>6, <2>7, SameValue DEF SetIn, d
<1> QED
  BY <1>6, <1>7

(* unsetenv takes out one variable that begins with the word, if there is *)
(* one, and leaves the others alone (del_envvar).                         *)
TakenOut(d, e, n) ==
    /\ n \in Names(e) /\ n \notin Names(d)
    /\ \A k : k # n => /\ ValueIn(d, k) = ValueIn(e, k)
                       /\ k \in Names(d) <=> k \in Names(e)

(* del_envvar takes out no more than one name that begins as told.        *)
LEMMA DelEnvvarIs ==
    ASSUME NEW e \in Vectors, NEW t \in DOMAIN Begins
    PROVE  /\ DelEnvvar(e, t) \in Vectors
           /\ \/ DelEnvvar(e, t) = e
              \/ \E n \in Begins[t] : TakenOut(DelEnvvar(e, t), e, n)
<1> DEFINE T == {i \in 1 .. Len(e) : e[i].name \in Begins[t]}
           at == FirstOf(T)
           d == DelEnvvar(e, t)
<1>1. /\ e \in Seq(Entry) /\ Distinct(e) /\ DOMAIN e = 1 .. Len(e)
      /\ Len(e) \in Nat /\ \A i \in DOMAIN e : e[i] \in Entry
  BY DEF Vectors
<1>2. SelectInSeq(e, LAMBDA x : x.name \in Begins[t]) = at
  BY DEF SelectInSeq, FirstOf
<1>3. d = IF \E i \in 1 .. Len(e) : e[i].name \in Begins[t]
          THEN RemoveAt(e, at) ELSE e
  BY <1>2 DEF DelEnvvar, RemoveFirstMatch
<1>4. CASE T = {}
  BY <1>3, <1>4
<1>5. CASE T # {}
  <2>1. at \in DOMAIN e /\ e[at].name \in Begins[t] /\ at \in 1 .. Len(e)
    <3>1. T \in SUBSET (1 .. Len(e))
      OBVIOUS
    <3> HIDE DEF T
    <3>2. at \in T
      BY <1>1, <1>5, <3>1, FirstOfIs
    <3> QED
      BY <1>1, <3>2 DEF T
  <2>2. d = SubSeq(e, 1, at - 1) \o SubSeq(e, at + 1, Len(e))
    BY <1>3, <1>5 DEF RemoveAt
  <2> HIDE DEF at, T, d
  <2> DEFINE l == SubSeq(e, 1, at - 1)
             r == SubSeq(e, at + 1, Len(e))
             n == e[at].name
  <2>3. /\ l \in Seq(Entry) /\ Len(l) = at - 1
        /\ \A i \in 1 .. at - 1 : l[i] = e[i]
    <3>1. \A i \in 1 .. at - 1 : e[i] \in Entry
      BY <1>1, <2>1
    <3>2. 1 \in Int /\ at - 1 \in Int
      BY <1>1, <2>1
    <3>3. /\ l \in Seq(Entry)
          /\ Len(l) = IF 1 <= at - 1 THEN (at - 1) - 1 + 1 ELSE 0
          /\ \A i \in 1 .. (at - 1) - 1 + 1 : l[i] = e[1 + i - 1]
      BY <3>1, <3>2, SubSeqProperties
    <3> QED
      BY <1>1, <2>1, <3>3
  <2>4. /\ r \in Seq(Entry) /\ Len(r) = Len(e) - at
        /\ \A i \in 1 .. Len(e) - at : r[i] = e[at + i]
    <3>1. \A i \in at + 1 .. Len(e) : e[i] \in Entry
      BY <1>1, <2>1
    <3>2. at + 1 \in Int /\ Len(e) \in Int
      BY <1>1, <2>1
    <3>3. /\ r \in Seq(Entry)
          /\ Len(r) = IF at + 1 <= Len(e) THEN Len(e) - (at + 1) + 1 ELSE 0
          /\ \A i \in 1 .. Len(e) - (at + 1) + 1 : r[i] = e[at + 1 + i - 1]
      BY <3>1, <3>2, SubSeqProperties
    <3> QED
      BY <1>1, <2>1, <3>3
  <2> HIDE DEF l, r
  <2>5. /\ d \in Seq(Entry) /\ Len(d) = Len(e) - 1
        /\ DOMAIN d = 1 .. Len(e) - 1
        /\ \A i \in 1 .. Len(e) - 1 :
              d[i] = IF i < at THEN e[i] ELSE e[i + 1]
    <3>1. /\ d \in Seq(Entry) /\ Len(d) = Len(l) + Len(r)
          /\ \A i \in 1 .. Len(l) + Len(r) :
                d[i] = IF i <= Len(l) THEN l[i] ELSE r[i - Len(l)]
      BY <2>2, <2>3, <2>4, ConcatProperties DEF l, r
    <3>2. Len(d) = Len(e) - 1 /\ DOMAIN d = 1 .. Len(e) - 1
      BY <1>1, <2>1, <2>3, <2>4, <3>1
    <3>3. ASSUME NEW i \in 1 .. Len(e) - 1
          PROVE  d[i] = IF i < at THEN e[i] ELSE e[i + 1]
      <4>1. d[i] = IF i <= at - 1 THEN l[i] ELSE r[i - (at - 1)]
        BY <1>1, <2>1, <2>3, <2>4, <3>1
      <4>2. CASE i < at
        BY <1>1, <2>1, <2>3, <4>1, <4>2
      <4>3. CASE i >= at
        <5>1. i - (at - 1) \in 1 .. Len(e) - at /\ at + (i - (at - 1)) = i + 1
          BY <1>1, <2>1, <4>3
        <5> QED
          BY <1>1, <2>1, <2>4, <4>1, <4>3, <5>1
      <4> QED
        BY <1>1, <2>1, <4>2, <4>3
    <3> QED
      BY <3>1, <3>2, <3>3
  <2> DEFINE to(i) == IF i < at THEN i ELSE i + 1
  <2>6. \A i \in DOMAIN d : to(i) \in DOMAIN e /\ to(i) # at /\ d[i] = e[to(i)]
    BY <1>1, <2>1, <2>5
  <2>7. \A i, j \in DOMAIN d : to(i) = to(j) => i = j
    BY <1>1, <2>1, <2>5
  <2>8. \A j \in DOMAIN e : j # at => \E i \in DOMAIN d : to(i) = j
    <3> SUFFICES ASSUME NEW j \in DOMAIN e, j # at
                 PROVE  \E i \in DOMAIN d : to(i) = j
      OBVIOUS
    <3>1. CASE j < at
      BY <1>1, <2>1, <2>5, <3>1
    <3>2. CASE j > at
      <4>1. j - 1 \in DOMAIN d /\ to(j - 1) = j
        BY <1>1, <2>1, <2>5, <3>2
      <4> QED
        BY <4>1
    <3> QED
      BY <1>1, <2>1, <3>1, <3>2
  <2> HIDE DEF to
  <2>9. d \in Vectors
    BY <1>1, <2>5, <2>6, <2>7 DEF Vectors, Distinct
  <2>10. n \in Names(e) /\ n \notin Names(d)
    BY <1>1, <2>1, <2>6 DEF Names, Distinct
  <2>11. ASSUME NEW k, k # n, NEW u PROVE Binds(d, k, u) <=> Binds(e, k, u)
    BY <2>6, <2>8, <2>11 DEF Binds
  <2>12. TakenOut(d, e, n)
    BY <2>9, <2>10, <2>11, SameValue DEF TakenOut
  <2> QED
    BY <2>1, <2>9, <2>12 DEF d
<1> QED
  BY <1>4, <1>5

(* cd binds OLDPWD to what PWD said, and PWD to the directory (my_cd).    *)
LEMMA AfterCdIs ==
    ASSUME environ \in Vectors, NEW d \in Dirs
    PROVE  /\ AfterCd(d) \in Vectors
           /\ \A k : ValueIn(AfterCd(d), k) =
                IF k = "PWD" THEN d
                ELSE IF k = "OLDPWD"
                     THEN IF "PWD" \in Names(environ)
                          THEN ValueIn(environ, "PWD") ELSE Empty
                     ELSE ValueIn(environ, k)
<1> DEFINE v == IF "PWD" \in Names(environ)
                THEN ValueIn(environ, "PWD") ELSE Empty
           old == MySetenv(environ, "OLDPWD", v)
<1>1. {"PWD", "OLDPWD"} \subseteq Vars /\ Empty \in Values /\ d \in Values
  BY EnvAssumption
<1>2. v \in Values
  BY <1>1, Bound
<1>3. AfterCd(d) = MySetenv(old, "PWD", d)
  BY ValueIs DEF AfterCd
<1> HIDE DEF v
<1>4. SetIn(old, environ, "OLDPWD", v)
  BY <1>1, <1>2, MySetenvIs
<1> HIDE DEF old
<1>5. SetIn(AfterCd(d), old, "PWD", d)
  BY <1>1, <1>3, <1>4, MySetenvIs DEF SetIn
<1>6. \A k : ValueIn(AfterCd(d), k) =
          IF k = "PWD" THEN d
          ELSE IF k = "OLDPWD" THEN v ELSE ValueIn(environ, k)
  BY <1>4, <1>5 DEF SetIn
<1> QED
  BY <1>5, <1>6 DEF SetIn, v

(* What a step may do to the environment and the working directory.       *)
EnvSet == /\ UNCHANGED cwd
          /\ \E e \in Given : environ' = MySetenv(environ, e.name, e.value)
EnvUnset == /\ UNCHANGED cwd
            /\ \E t \in DOMAIN Begins : environ' = DelEnvvar(environ, t)
EnvCd == \E d \in Dirs : cwd' = d /\ environ' = AfterCd(d)
EnvChange == UNCHANGED <<environ, cwd>> \/ EnvSet \/ EnvUnset \/ EnvCd

(* Only the builtins touch the vector and the directory, in these ways.   *)
LEMMA EnvChanges == [Next]_vars => EnvChange
<1> SUFFICES ASSUME [Next]_vars PROVE EnvChange
  OBVIOUS
<1>1. CASE UNCHANGED vars
  BY <1>1 DEF vars, envVars, EnvChange
<1>2. CASE ShellStep
  BY <1>2 DEF ShellStep, Getpid, GotPid, OpenDir, AddProg, AddBuiltins,
              ReadEof, Waitpid, envVars, EnvChange
<1>3. CASE NoStatus \/ Heirs
  BY <1>3 DEF NoStatus, Heirs, envVars, EnvChange
<1>4. ASSUME NEW w \in Words, Command(w) PROVE EnvChange
  <2>1. ASSUME NEW e \in Given, NEW a \in BOOLEAN, Setenv(w, e, a)
        PROVE  EnvChange
    BY <2>1 DEF Setenv, EnvSet, EnvChange
  <2>2. ASSUME NEW t \in DOMAIN Begins, Unsetenv(w, t) PROVE EnvChange
    BY <2>2 DEF Unsetenv, EnvUnset, EnvChange
  <2>3. ASSUME NEW d \in Dirs, Cd(w, d) PROVE EnvChange
    BY <2>3 DEF Cd, EnvCd, EnvChange
  <2>4. CASE Env(w) \/ Declined(w) \/ Exit(w) \/ Debug(w) \/ NotFound(w)
    BY <2>4 DEF Env, Declined, Exit, Debug, NotFound, EnvChange
  <2>5. CASE NoPipe(w) \/ NoFork(w) \/ Fork(w)
    BY <2>5 DEF NoPipe, NoFork, Fork, External, EnvChange
  <2> QED
    BY <1>4, <2>1, <2>2, <2>3, <2>4, <2>5, Zenon DEF Command
<1> QED
  BY <1>1, <1>2, <1>3, <1>4, Zenon DEF Next

(* The vector never repeats a name.                                       *)
EnvInv == environ \in Vectors /\ cwd \in Dirs

(* The vector inherited is one of distinct names.                         *)
LEMMA EnvInit == Init => EnvInv
<1> SUFFICES ASSUME Init PROVE EnvInv
  OBVIOUS
<1>1. environ \in Inherited /\ cwd = Home
  BY DEF Init
<1>2. /\ environ \in Seq(Entry)
      /\ IsInjective([i \in DOMAIN environ |-> environ[i].name])
  BY <1>1, EnvAssumption
<1>3. Distinct(environ)
  BY <1>2 DEF IsInjective, Distinct
<1> QED
  BY <1>1, <1>2, <1>3, EnvAssumption DEF EnvInv, Vectors

(* What a line of setenv names is a name with its value.                  *)
LEMMA GivenTypes ==
    ASSUME NEW e \in Given PROVE e.name \in Vars /\ e.value \in Values
  BY EnvAssumption DEF Entry

(* Every builtin leaves a vector of distinct names.                       *)
LEMMA EnvStep == EnvInv /\ [Next]_vars => EnvInv'
<1> SUFFICES ASSUME EnvInv, [Next]_vars PROVE EnvInv'
  OBVIOUS
<1>1. environ \in Vectors /\ cwd \in Dirs
  BY DEF EnvInv
<1>2. CASE UNCHANGED <<environ, cwd>>
  BY <1>1, <1>2 DEF EnvInv
<1>3. CASE EnvSet
  BY <1>1, <1>3, GivenTypes, MySetenvIs DEF EnvSet, EnvInv, SetIn
<1>4. CASE EnvUnset
  BY <1>1, <1>4, DelEnvvarIs DEF EnvUnset, EnvInv
<1>5. CASE EnvCd
  BY <1>1, <1>5, AfterCdIs DEF EnvCd, EnvInv
<1> QED
  BY <1>2, <1>3, <1>4, <1>5, EnvChanges, Zenon DEF EnvChange

(* The value of each variable, which is what EnvMap keeps.                *)
Meaning(e) == [n \in Vars |-> ValueIn(e, n)]

(* What EnvMap calls the map is what my_getenv finds, before and after.   *)
LEMMA MeaningIs ==
    /\ [n \in Vars |-> Value(n)] = Meaning(environ)
    /\ [n \in Vars |-> Value(n)]' = Meaning(environ')
<1>1. \A n : Value(n) = ValueIn(environ, n)
  BY ValueIs
<1>2. ASSUME NEW n PROVE Value(n)' = ValueIn(environ', n)
  <2>1. Has(n)' <=> n \in Names(environ')
    BY DEF Has, Names
  <2> QED
    BY <2>1 DEF Value, ValueIn, FirstAt
<1> QED
  BY <1>1, <1>2 DEF Meaning

(* The first environment is a map.                                        *)
LEMMA EnvMapInit == Init => Map!Init
<1> SUFFICES ASSUME Init PROVE Map!Init
  OBVIOUS
<1>1. environ \in Vectors /\ cwd \in Dirs
  BY EnvInit DEF EnvInv
<1>2. \A n \in Vars : ValueIn(environ, n) \in Values \cup {Absent}
  BY <1>1, Bound
<1>3. Meaning(environ) \in [Vars -> Values \cup {Absent}]
  BY <1>2 DEF Meaning
<1> QED
  BY <1>1, <1>3, MeaningIs DEF Map!Init

(* Every step of the vector is a step of the map, or a stutter.           *)
LEMMA EnvMapStep ==
    EnvInv /\ [Next]_vars => [Map!Next]_<<[n \in Vars |-> Value(n)], cwd>>
<1> SUFFICES ASSUME EnvInv, [Next]_vars
             PROVE  [Map!Next]_<<[n \in Vars |-> Value(n)], cwd>>
  OBVIOUS
<1> DEFINE m == [n \in Vars |-> Value(n)]
<1>1. environ \in Vectors /\ cwd \in Dirs
  BY DEF EnvInv
<1>2. m = Meaning(environ) /\ m' = Meaning(environ')
  BY MeaningIs
<1>3. {"PWD", "OLDPWD"} \subseteq Vars
  BY EnvAssumption
<1>4. CASE UNCHANGED <<environ, cwd>>
  BY <1>2, <1>4
<1>5. CASE EnvSet
  <2>1. PICK e \in Given : environ' = MySetenv(environ, e.name, e.value)
    BY <1>5 DEF EnvSet
  <2>2. e.name \in Vars /\ e.value \in Values
    BY GivenTypes
  <2>3. SetIn(environ', environ, e.name, e.value)
    BY <1>1, <2>1, <2>2, MySetenvIs
  <2>4. m' = [m EXCEPT ![e.name] = e.value] /\ m'[e.name] = e.value
    BY <1>2, <2>2, <2>3 DEF Meaning, SetIn
  <2>5. cwd' = cwd
    BY <1>5 DEF EnvSet
  <2> HIDE DEF m
  <2>6. m'[e.name] \in Values /\ m' = [m EXCEPT ![e.name] = m'[e.name]]
    BY <2>2, <2>4
  <2>7. Map!Set(e.name)
    BY <2>5, <2>6 DEF Map!Set, m
  <2> QED
    BY <2>2, <2>7 DEF Map!Next
<1>6. CASE EnvUnset
  <2>1. PICK t \in DOMAIN Begins : environ' = DelEnvvar(environ, t)
    BY <1>6 DEF EnvUnset
  <2>2. cwd' = cwd
    BY <1>6 DEF EnvUnset
  <2>3. CASE environ' = environ
    BY <1>2, <2>2, <2>3
  <2>4. CASE environ' # environ
    <3>1. PICK n \in Begins[t] : TakenOut(environ', environ, n)
      BY <1>1, <2>1, <2>4, DelEnvvarIs
    <3>2. environ' \in Vectors /\ n \in Vars
      BY <1>1, <2>1, DelEnvvarIs, EnvAssumption
    <3>3. ValueIn(environ', n) = Absent /\ ValueIn(environ, n) # Absent
      BY <1>1, <3>1, <3>2, Bound, EnvAssumption DEF TakenOut
    <3>4. m' = [m EXCEPT ![n] = Absent] /\ m[n] # Absent
      <4>1. \A k \in Vars : ValueIn(environ', k) =
                IF k = n THEN Absent ELSE ValueIn(environ, k)
        BY <3>1, <3>3 DEF TakenOut
      <4>2. Meaning(environ') = [Meaning(environ) EXCEPT ![n] = Absent]
        BY <4>1 DEF Meaning
      <4>3. Meaning(environ)[n] # Absent
        BY <3>2, <3>3 DEF Meaning
      <4> HIDE DEF m
      <4> QED
        BY <1>2, <4>2, <4>3
    <3> HIDE DEF m
    <3>5. Map!Unset(t)
      BY <2>2, <3>4 DEF Map!Unset, m
    <3> QED
      BY <3>5 DEF Map!Next
  <2> QED
    BY <2>3, <2>4
<1>7. CASE EnvCd
  <2>1. PICK d \in Dirs : cwd' = d /\ environ' = AfterCd(d)
    BY <1>7 DEF EnvCd
  <2> DEFINE old == Meaning(environ)
             v == IF old["PWD"] = Absent THEN Empty ELSE old["PWD"]
  <2>2. v = IF "PWD" \in Names(environ)
            THEN ValueIn(environ, "PWD") ELSE Empty
    <3>1. old["PWD"] = ValueIn(environ, "PWD")
      BY <1>3 DEF Meaning
    <3> HIDE DEF old
    <3>2. old["PWD"] = Absent <=> "PWD" \notin Names(environ)
      BY <1>1, <3>1, Bound, EnvAssumption
    <3> QED
      BY <3>1, <3>2
  <2>3. m' = [m EXCEPT
                !["OLDPWD"] = IF m["PWD"] = Absent THEN Empty ELSE m["PWD"],
                !["PWD"] = d]
    <3> HIDE DEF v
    <3>1. \A k \in Vars : ValueIn(environ', k) =
              IF k = "PWD" THEN d
              ELSE IF k = "OLDPWD" THEN v ELSE ValueIn(environ, k)
      BY <1>1, <2>1, <2>2, AfterCdIs
    <3>2. Meaning(environ') = [old EXCEPT !["OLDPWD"] = v, !["PWD"] = d]
      BY <3>1 DEF Meaning
    <3> HIDE DEF m, old
    <3> QED
      BY <1>2, <3>2 DEF v, old
  <2>4. Map!Cd(d)
    BY <2>1, <2>3 DEF Map!Cd, m
  <2> QED
    BY <2>4 DEF Map!Next
<1> QED
  BY <1>4, <1>5, <1>6, <1>7, EnvChanges, Zenon DEF EnvChange

(* setenv, unsetenv and cd on the vector of strings implement a map from  *)
(* names to values: each changes what it promises and nothing else        *)
(* (my_setenv, del_envvar, my_cd), for every inherited environment.       *)
THEOREM RefinesEnvMap == Spec => IsEnvMap
<1>1. Spec => []EnvInv
  BY EnvInit, EnvStep, PTL DEF Spec
<1> QED
  BY <1>1, EnvMapInit, EnvMapStep, PTL DEF Spec, IsEnvMap, Map!Spec

-------------------------------------------------------------------------
(* The pipe, its child and the descriptors.                               *)

(* What exe_cmd may still lose is counted while the child lives: a fork   *)
(* needs room for the pipe, and of it one descriptor stays open.          *)
PipePart ==
    /\ phase \in {"getpid", "path", "prompt", "reading", "waiting", "over"}
    /\ copied \in BOOLEAN
    /\ lost \in 0 .. Spare /\ tried \in Nat
    /\ writers \subseteq {"child", "heir"} /\ child \in {"none", "alive", "dead"}
    /\ phase \in {"reading", "waiting"} <=> child # "none"
    /\ child = "none" => lost <= tried
    /\ child # "none" => lost + 2 <= Spare /\ lost + 1 <= tried

(* No pipe is open at the start.                                          *)
LEMMA PipeInit == Init => PipePart
<1> SUFFICES ASSUME Init PROVE PipePart
  OBVIOUS
<1>1. Spare \in Nat
  BY TreeAssumption
<1>2. copied \in BOOLEAN
  <2>1. copied = (Len(environ) >= 2)
    BY DEF Init
  <2>2. Len(environ) \in Nat
    BY EnvInit DEF EnvInv, Vectors
  <2>3. (Len(environ) >= 2) \in BOOLEAN
    BY <2>2
  <2> QED
    BY <2>1, <2>3, Zenon
<1>3. /\ phase \in {"getpid", "over"} /\ child = "none"
      /\ lost = 0 /\ tried = 0 /\ writers = {}
  BY DEF Init
<1> QED
  BY <1>1, <1>2, <1>3 DEF PipePart

(* What exe_cmd loses of its descriptors is bounded by the lines tried.    *)
LEMMA PipeStep == PipePart /\ [Next]_vars => PipePart'
<1> SUFFICES ASSUME PipePart, [Next]_vars PROVE PipePart'
  OBVIOUS
<1> USE DEF PipePart, envVars, treeVars, pipeVars
<1>1. Spare \in Nat
  BY TreeAssumption
<1>2. CASE UNCHANGED vars
  BY <1>2 DEF vars
<1>3. CASE ShellStep
  <2>1. CASE Getpid
    BY <2>1 DEF Getpid
  <2>2. CASE GotPid
    BY <2>2 DEF GotPid
  <2>3. CASE OpenDir
    BY <2>3 DEF OpenDir
  <2>4. CASE \E w \in Words : AddProg(w)
    BY <2>4 DEF AddProg
  <2>5. CASE AddBuiltins
    BY <2>5 DEF AddBuiltins
  <2>6. CASE ReadEof
    BY <2>6 DEF ReadEof
  <2>7. CASE Waitpid
    BY <1>1, <2>7 DEF Waitpid
  <2> QED
    BY <1>3, <2>1, <2>2, <2>3, <2>4, <2>5, <2>6, <2>7 DEF ShellStep
<1>4. CASE NoStatus
  BY <1>4 DEF NoStatus
<1>5. CASE Heirs
  BY <1>5 DEF Heirs
<1>6. ASSUME NEW w \in Words, Command(w) PROVE PipePart'
  <2> USE DEF Prompted, Builtin, Goes, Still, External
  <2>1. CASE \E e \in Given, a \in BOOLEAN : Setenv(w, e, a)
    BY <2>1 DEF Setenv
  <2>2. CASE \E t \in DOMAIN Begins : Unsetenv(w, t)
    BY <2>2 DEF Unsetenv
  <2>3. CASE Env(w)
    BY <2>3 DEF Env
  <2>4. CASE \E d \in Dirs : Cd(w, d)
    BY <2>4 DEF Cd
  <2>5. CASE Declined(w) \/ Exit(w) \/ Debug(w) \/ NotFound(w)
    BY <2>5 DEF Declined, Exit, Debug, NotFound
  <2>6. CASE NoPipe(w)
    BY <2>6 DEF NoPipe
  <2>7. CASE NoFork(w)
    <3>1. /\ lost + 2 <= Spare /\ lost' = lost + 2 /\ tried' = tried + 2
          /\ phase = "prompt" /\ copied' = copied
          /\ UNCHANGED <<phase, writers, child>>
      BY <2>7 DEF NoFork
    <3> QED
      BY <1>1, <3>1
  <2>8. CASE Fork(w)
    <3>1. /\ lost + 2 <= Spare /\ lost' = lost /\ tried' = tried + 1
          /\ phase = "prompt" /\ copied' = copied
          /\ phase' = "reading" /\ writers' = {"child"} /\ child' = "alive"
      BY <2>8 DEF Fork
    <3> QED
      BY <1>1, <3>1
  <2> QED
    BY <1>6, <2>1, <2>2, <2>3, <2>4, <2>5, <2>6, <2>7, <2>8, Zenon DEF Command
<1> QED
  BY <1>2, <1>3, <1>4, <1>5, <1>6, Zenon DEF Next

-------------------------------------------------------------------------
(* The tree of programs.                                                  *)

(* The names in the i-th directory of PATH, when the shell starts.        *)
InDir(i) == Listed[Resolved(SearchPath[i], Home)]

(* The last builtin entered under a word.                                 *)
LastBuiltin(w) == SelectLastInSeq(Builtins, LAMBDA b : b.word = w)

(* The directories of PATH, resolved or not, and what they list.          *)
LEMMA PathTypes ==
    /\ Len(SearchPath) \in Nat /\ DOMAIN SearchPath = 1 .. Len(SearchPath)
    /\ \A i \in 1 .. Len(SearchPath) :
          /\ SearchPath[i] \in Dirs \cup {Here} /\ SearchPath[i] # Absent
          /\ \A d \in Dirs : /\ Resolved(SearchPath[i], d) \in Dirs
                             /\ Listed[Resolved(SearchPath[i], d)] \subseteq Words
<1>1. SearchPath \in Seq(Dirs \cup {Here})
      /\ Listed \in [Dirs -> SUBSET Words]
  BY TreeAssumption
<1>2. Absent \notin Dirs \cup {Here}
  BY EnvAssumption
<1>3. \A i \in 1 .. Len(SearchPath) : SearchPath[i] \in Dirs \cup {Here}
  BY <1>1
<1> QED
  BY <1>1, <1>2, <1>3 DEF Resolved

(* FirstDir finds the first directory with the word.                      *)
LEMMA FirstDirIs ==
    ASSUME NEW w
    PROVE  /\ FirstDir(w) \in 0 .. Len(SearchPath)
           /\ FirstDir(w) # 0 => w \in InDir(FirstDir(w))
           /\ \A i \in 1 .. Len(SearchPath) :
                 w \in InDir(i) => FirstDir(w) # 0 /\ FirstDir(w) <= i
<1> DEFINE T == {i \in 1 .. Len(SearchPath) : w \in InDir(i)}
<1>1. FirstDir(w) = FirstOf(T)
  BY DEF FirstDir, SelectInSeq, FirstOf, InDir
<1>2. T \in SUBSET (1 .. Len(SearchPath))
  OBVIOUS
<1>3. \A i : i \in T <=> i \in 1 .. Len(SearchPath) /\ w \in InDir(i)
  OBVIOUS
<1> HIDE DEF T
<1>4. /\ FirstDir(w) \in 0 .. Len(SearchPath)
      /\ FirstDir(w) = 0 <=> T = {}
      /\ FirstDir(w) # 0 => FirstDir(w) \in T
      /\ \A y \in T : FirstDir(w) <= y
  BY <1>1, <1>2, PathTypes, FirstOfIs
<1>5. ASSUME NEW i \in 1 .. Len(SearchPath), w \in InDir(i)
      PROVE  FirstDir(w) # 0 /\ FirstDir(w) <= i
  BY <1>3, <1>4, <1>5
<1> QED
  BY <1>3, <1>4, <1>5

(* The builtin of a word is the last with that name.                      *)
LEMMA LastBuiltinIs ==
    ASSUME NEW w
    PROVE  /\ LastBuiltin(w) \in 0 .. Len(Builtins)
           /\ LastBuiltin(w) # 0 => /\ Builtins[LastBuiltin(w)].fn \in Fns
                                    /\ Builtins[LastBuiltin(w)].fn # NoFn
<1> DEFINE T == {i \in 1 .. Len(Builtins) : Builtins[i].word = w}
<1>1. LastBuiltin(w) = LastOf(T)
  BY DEF LastBuiltin, SelectLastInSeq, LastOf
<1>2. Builtins \in Seq([word : Words, fn : STRING])
      /\ \A i \in DOMAIN Builtins : Builtins[i].fn # NoFn
  BY TreeAssumption
<1>3. Len(Builtins) \in Nat /\ DOMAIN Builtins = 1 .. Len(Builtins)
  BY <1>2, LenProperties
<1>4. T \in SUBSET (1 .. Len(Builtins))
  OBVIOUS
<1> HIDE DEF T
<1>5. LastBuiltin(w) \in 0 .. Len(Builtins)
  BY <1>1, <1>3, <1>4, LastOfIs
<1>6. ASSUME LastBuiltin(w) # 0
      PROVE  /\ Builtins[LastBuiltin(w)].fn \in Fns
             /\ Builtins[LastBuiltin(w)].fn # NoFn
  <2>1. LastBuiltin(w) \in DOMAIN Builtins
    BY <1>3, <1>5, <1>6
  <2> QED
    BY <1>2, <2>1 DEF Fns
<1> QED
  BY <1>5, <1>6

(* What init_mysh makes of a word: the program of the first directory, or *)
(* the last builtin.                                                      *)
Program(w) == [dir |-> SearchPath[FirstDir(w)], fn |-> NoFn]
Final(w) ==
    IF LastBuiltin(w) # 0 THEN [dir |-> Absent, fn |-> Builtins[LastBuiltin(w)].fn]
    ELSE IF FirstDir(w) # 0 THEN Program(w) ELSE NoProg

(* What the tree holds of a word when it was filled.                      *)
LEMMA FinalIs ==
    ASSUME NEW w
    PROVE  /\ Final(w) \in Prog
           /\ Final(w).fn # NoFn =>
                 LastBuiltin(w) # 0 /\ Final(w).fn = Builtins[LastBuiltin(w)].fn
           /\ Final(w) = NoProg => LastBuiltin(w) = 0 /\ FirstDir(w) = 0
           /\ Final(w) # NoProg /\ Final(w).fn = NoFn =>
                 LastBuiltin(w) = 0 /\ FirstDir(w) # 0 /\ Final(w) = Program(w)
<1>1. CASE LastBuiltin(w) # 0
  BY <1>1, LastBuiltinIs DEF Final, Prog, NoProg
<1>2. CASE LastBuiltin(w) = 0 /\ FirstDir(w) # 0
  <2>1. SearchPath[FirstDir(w)] \in Dirs \cup {Here}
        /\ SearchPath[FirstDir(w)] # Absent
    <3>1. FirstDir(w) \in 1 .. Len(SearchPath)
      BY <1>2, FirstDirIs, PathTypes
    <3> QED
      BY <3>1, PathTypes
  <2>2. Final(w) = Program(w)
    BY <1>2 DEF Final
  <2>3. Program(w) \in Prog /\ Program(w).fn = NoFn
        /\ Program(w).dir # Absent
    <3> DEFINE p == SearchPath[FirstDir(w)]
    <3>1. p \in Dirs \cup {Here} /\ p # Absent /\ NoFn \in Fns
      BY <2>1 DEF Fns
    <3>2. Program(w) = [dir |-> p, fn |-> NoFn]
      BY DEF Program
    <3> HIDE DEF p
    <3> QED
      BY <3>1, <3>2 DEF Prog
  <2>4. NoProg.dir = Absent
    BY DEF NoProg
  <2> QED
    BY <1>2, <2>2, <2>3, <2>4, Zenon
<1>3. CASE LastBuiltin(w) = 0 /\ FirstDir(w) = 0
  BY <1>3 DEF Final, Prog, NoProg, Fns
<1> QED
  BY <1>1, <1>2, <1>3

(* While PATH is read a word has its program if its first directory was   *)
(* read so far.                                                           *)
Reached(w) ==
    FirstDir(w) \in 1 .. dirs /\ ~(FirstDir(w) = dirs /\ w \in left)

TreePart ==
    /\ dirs \in 0 .. Len(SearchPath) /\ left \subseteq Words
    /\ tree \in [Words -> Prog]
    /\ phase \in {"getpid", "path"} =>
         /\ cwd = Home /\ did.how = "none"
         /\ left # {} => dirs # 0 /\ left \subseteq InDir(dirs)
         /\ \A w \in Words : tree[w] = IF Reached(w) THEN Program(w) ELSE NoProg
    /\ phase \in {"prompt", "reading", "waiting"} =>
         \A w \in Words : tree[w] = Final(w)

(* The tree is empty at the start.                                        *)
LEMMA TreeInit == Init => TreePart
<1> SUFFICES ASSUME Init PROVE TreePart
  OBVIOUS
<1>1. /\ phase \in {"getpid", "over"} /\ cwd = Home /\ did.how = "none"
      /\ dirs = 0 /\ left = {} /\ tree = [w \in Words |-> NoProg]
  BY DEF Init
<1>2. dirs \in 0 .. Len(SearchPath) /\ left \subseteq Words
  BY <1>1, PathTypes
<1>3. NoProg \in Prog
  BY DEF NoProg, Prog, Fns
<1>4. tree \in [Words -> Prog]
  BY <1>1, <1>3
<1>5. \A w \in Words : ~Reached(w)
  BY <1>1, FirstDirIs DEF Reached
<1> QED
  BY <1>1, <1>2, <1>4, <1>5 DEF TreePart

(* One directory is opened when the one before it is read.                *)
LEMMA OpenDirTree == TreePart /\ OpenDir => TreePart'
<1> SUFFICES ASSUME TreePart, OpenDir PROVE TreePart'
  OBVIOUS
<1>1. /\ phase = "path" /\ phase' = "path" /\ left = {} /\ cwd' = cwd
      /\ did' = did /\ tree' = tree /\ dirs < Len(SearchPath)
      /\ dirs' = dirs + 1
      /\ left' = Listed[Resolved(SearchPath[dirs + 1], cwd)]
  BY DEF OpenDir, envVars
<1>2. /\ dirs \in 0 .. Len(SearchPath) /\ tree \in [Words -> Prog]
      /\ cwd = Home /\ did.how = "none"
      /\ \A w \in Words :
            tree[w] = IF Reached(w) THEN Program(w) ELSE NoProg
  BY <1>1 DEF TreePart
<1>3. dirs \in Nat /\ dirs' \in 1 .. Len(SearchPath)
  BY <1>1, <1>2, PathTypes
<1>4. left' = InDir(dirs') /\ left' \subseteq Words
  BY <1>1, <1>2, <1>3, PathTypes, EnvAssumption DEF InDir
<1>5. ASSUME NEW w \in Words PROVE Reached(w)' <=> Reached(w)
  <2>1. FirstDir(w) \in 0 .. Len(SearchPath)
        /\ (FirstDir(w) # 0 => w \in InDir(FirstDir(w)))
    BY FirstDirIs
  <2>2. Reached(w) <=> FirstDir(w) \in 1 .. dirs
    BY <1>1 DEF Reached
  <2>3. Reached(w)' <=> /\ FirstDir(w) \in 1 .. dirs + 1
                        /\ ~(FirstDir(w) = dirs + 1 /\ w \in left')
    BY <1>1 DEF Reached
  <2>4. FirstDir(w) = dirs + 1 => w \in left'
    BY <1>1, <1>3, <1>4, <2>1
  <2> QED
    BY <1>3, <2>1, <2>2, <2>3, <2>4
<1> QED
  BY <1>1, <1>2, <1>3, <1>4, <1>5 DEF TreePart

(* A name is taken from the directory: the word has its program now,      *)
(* unless it had one of a directory before.                               *)
LEMMA AddProgTree ==
    ASSUME TreePart, NEW v \in Words, AddProg(v) PROVE TreePart'
<1>1. /\ phase = "path" /\ phase' = "path" /\ v \in left /\ cwd' = cwd
      /\ did' = did /\ dirs' = dirs /\ left' = left \ {v}
      /\ tree' = [tree EXCEPT ![v] = Added(v)]
  BY DEF AddProg, envVars
<1>2. /\ dirs \in 0 .. Len(SearchPath) /\ tree \in [Words -> Prog]
      /\ cwd = Home /\ did.how = "none" /\ left \subseteq Words
      /\ dirs # 0 /\ left \subseteq InDir(dirs)
      /\ \A w \in Words :
            tree[w] = IF Reached(w) THEN Program(w) ELSE NoProg
  BY <1>1 DEF TreePart
<1>3. dirs \in 1 .. Len(SearchPath) /\ SearchPath[dirs] \in Dirs \cup {Here}
      /\ Len(SearchPath) \in Nat
  BY <1>2, PathTypes
<1>4. FirstDir(v) \in 1 .. dirs
  BY <1>1, <1>2, <1>3, FirstDirIs
<1>5. \A w \in Words \ {v} : Reached(w)' <=> Reached(w)
  BY <1>1 DEF Reached
<1>6. Reached(v)'
  BY <1>1, <1>4 DEF Reached
<1>7. Added(v) = Program(v)
  <2>1. CASE FirstDir(v) = dirs
    <3>1. ~Reached(v)
      BY <1>1, <2>1 DEF Reached
    <3> QED
      BY <1>2, <2>1, <3>1 DEF Added, Program
  <2>2. CASE FirstDir(v) # dirs
    <3>1. Reached(v)
      BY <1>4, <2>2 DEF Reached
    <3>2. tree[v] = Program(v)
      BY <1>2, <3>1
    <3>3. Program(v) # NoProg
      <4>1. SearchPath[FirstDir(v)] # Absent
        BY <1>3, <1>4, PathTypes
      <4> QED
        BY <4>1 DEF Program, NoProg
    <3> QED
      BY <3>2, <3>3 DEF Added
  <2> QED
    BY <2>1, <2>2
<1>8. Program(v) \in Prog
  <2>1. SearchPath[FirstDir(v)] \in Dirs \cup {Here}
    BY <1>3, <1>4, PathTypes
  <2> QED
    BY <2>1 DEF Program, Prog, Fns
<1>9. tree' \in [Words -> Prog] /\ tree'[v] = Program(v)
      /\ \A w \in Words \ {v} : tree'[w] = tree[w]
  BY <1>1, <1>2, <1>7, <1>8
<1>10. \A w \in Words :
          tree'[w] = IF Reached(w)' THEN Program(w) ELSE NoProg
  BY <1>2, <1>5, <1>6, <1>9
<1>11. left' \subseteq Words /\ left' \subseteq InDir(dirs')
  BY <1>1, <1>2
<1> QED
  BY <1>1, <1>2, <1>9, <1>10, <1>11 DEF TreePart

(* The builtins go over what PATH has given.                              *)
LEMMA AddBuiltinsTree == TreePart /\ AddBuiltins => TreePart'
<1> SUFFICES ASSUME TreePart, AddBuiltins PROVE TreePart'
  OBVIOUS
<1>1. /\ phase = "path" /\ phase' = "prompt" /\ left = {}
      /\ dirs = Len(SearchPath) /\ dirs' = dirs /\ left' = left
      /\ tree' = [w \in Words |->
            IF LastBuiltin(w) = 0 THEN tree[w]
            ELSE [dir |-> Absent, fn |-> Builtins[LastBuiltin(w)].fn]]
  BY DEF AddBuiltins, LastBuiltin
<1>2. /\ dirs \in 0 .. Len(SearchPath) /\ left \subseteq Words
      /\ \A w \in Words :
            tree[w] = IF Reached(w) THEN Program(w) ELSE NoProg
  BY <1>1 DEF TreePart
<1>3. ASSUME NEW w \in Words PROVE tree'[w] = Final(w)
  <2>1. Reached(w) <=> FirstDir(w) # 0
    BY <1>1, FirstDirIs, PathTypes DEF Reached
  <2> QED
    BY <1>1, <1>2, <2>1 DEF Final
<1>4. tree' \in [Words -> Prog]
  <2>1. \A w \in Words : tree'[w] \in Prog
    BY <1>3, FinalIs
  <2> QED
    BY <1>1, <2>1
<1> QED
  BY <1>1, <1>2, <1>3, <1>4 DEF TreePart

(* The tree is filled in the order of PATH and kept from then on.         *)
LEMMA TreeStep == TreePart /\ [Next]_vars => TreePart'
<1> SUFFICES ASSUME TreePart, [Next]_vars PROVE TreePart'
  OBVIOUS
<1> DEFINE Before == {"getpid", "path"}
           After2 == {"prompt", "reading", "waiting"}
           Keeps == /\ UNCHANGED <<tree, dirs, left>>
                    /\ phase' \in Before =>
                          phase \in Before /\ UNCHANGED <<cwd, did>>
                    /\ phase' \in After2 => phase \in After2
<1>1. ASSUME Keeps PROVE TreePart'
  <2>1. \A w \in Words : Reached(w)' <=> Reached(w)
    BY <1>1 DEF Reached
  <2> QED
    BY <1>1, <2>1 DEF TreePart
<1> USE DEF envVars, treeVars, pipeVars
<1>2. CASE UNCHANGED vars
  <2>1. Keeps
    BY <1>2 DEF vars
  <2> QED
    BY <1>1, <2>1
<1>3. CASE Getpid \/ GotPid \/ NoStatus \/ ReadEof \/ Waitpid \/ Heirs
  <2>1. Keeps
    BY <1>3 DEF Getpid, GotPid, NoStatus, ReadEof, Waitpid, Heirs
  <2> QED
    BY <1>1, <2>1
<1>4. CASE OpenDir \/ AddBuiltins \/ (\E w \in Words : AddProg(w))
  BY <1>4, OpenDirTree, AddProgTree, AddBuiltinsTree
<1>5. ASSUME NEW w \in Words, Command(w) PROVE TreePart'
  <2> USE DEF Prompted, Builtin, Goes, External
  <2>1. phase = "prompt" /\ UNCHANGED <<tree, dirs, left>>
        /\ phase' \in {"prompt", "reading", "over"}
    <3>1. CASE \E e \in Given, a \in BOOLEAN : Setenv(w, e, a)
      BY <3>1 DEF Setenv
    <3>2. CASE \E t \in DOMAIN Begins : Unsetenv(w, t)
      BY <3>2 DEF Unsetenv
    <3>3. CASE Env(w)
      BY <3>3 DEF Env
    <3>4. CASE \E d \in Dirs : Cd(w, d)
      BY <3>4 DEF Cd
    <3>5. CASE Declined(w) \/ Exit(w) \/ Debug(w) \/ NotFound(w)
      BY <3>5 DEF Declined, Exit, Debug, NotFound
    <3>6. CASE NoPipe(w) \/ NoFork(w) \/ Fork(w)
      BY <3>6 DEF NoPipe, NoFork, Fork
    <3> QED
      BY <1>5, <3>1, <3>2, <3>3, <3>4, <3>5, <3>6, Zenon DEF Command
  <2>2. Keeps
    BY <2>1
  <2> QED
    BY <1>1, <2>2
<1> HIDE DEF Keeps, Before, After2
<1> QED
  BY <1>2, <1>3, <1>4, <1>5, Zenon DEF Next, ShellStep

(* Every variable has its type, and the vector never repeats a name, for  *)
(* every inherited environment and whatever is given to setenv.           *)
THEOREM TypeCorrect == Spec => []TypeOK
<1>1. EnvInv /\ PipePart /\ TreePart => TypeOK
  <2> SUFFICES ASSUME EnvInv, PipePart, TreePart PROVE TypeOK
    OBVIOUS
  <2>1. /\ environ \in Seq(Entry)
        /\ IsInjective([i \in DOMAIN environ |-> environ[i].name])
    BY DEF EnvInv, Vectors, Distinct, IsInjective
  <2> QED
    BY <2>1 DEF EnvInv, PipePart, TreePart, TypeOK
<1> QED
  BY <1>1, EnvInit, EnvStep, PipeInit, PipeStep, TreeInit, TreeStep,
     PTL DEF Spec

-------------------------------------------------------------------------
(* What a word means.                                                     *)

(* The parts of WordMeans, of any last word, directory and count.         *)
BuiltinMeans(d) ==
    /\ LastBuiltin(d.word) # 0
    /\ d.prog.fn = Builtins[LastBuiltin(d.word)].fn
UnknownMeans(d) == LastBuiltin(d.word) = 0 /\ FirstDir(d.word) = 0
FileMeans(d, c) ==
    /\ LastBuiltin(d.word) = 0
    /\ d.prog.dir = SearchPath[FirstDir(d.word)]
    /\ d.there \/ (d.prog.dir = Here /\ c # Home)
Means(d, c, t) ==
    /\ d.how = "builtin" => BuiltinMeans(d)
    /\ d.how = "unknown" => UnknownMeans(d)
    /\ d.how \notin {"none", "builtin", "unknown"} => FileMeans(d, c)
    /\ d.how = "refused" => t + 2 > Spare

(* WordMeans, from the form the steps are proved with.                    *)
LEMMA MeansWord ==
    ASSUME Means(did, cwd, tried) PROVE WordMeans
<1>1. LastBuiltin(did.word) =
          SelectLastInSeq(Builtins, LAMBDA b : b.word = did.word)
  BY DEF LastBuiltin
<1>2. CASE did.how = "none"
  BY <1>2 DEF WordMeans
<1>3. CASE did.how = "builtin"
  BY <1>1, <1>3 DEF WordMeans, Means, BuiltinMeans
<1>4. CASE did.how = "unknown"
  BY <1>1, <1>4 DEF WordMeans, Means, UnknownMeans
<1>5. CASE did.how \notin {"none", "builtin", "unknown"}
  BY <1>1, <1>5 DEF WordMeans, Means, FileMeans
<1> QED
  BY <1>2, <1>3, <1>4, <1>5

(* A program that init_mysh found is where it was, unless that is a       *)
(* directory named by ".", and the shell has left it.                     *)
LEMMA StillThere ==
    ASSUME TreePart, phase = "prompt", cwd \in Dirs, NEW w \in Words,
           tree[w] # NoProg, tree[w].fn = NoFn
    PROVE  /\ LastBuiltin(w) = 0 /\ tree[w].dir = SearchPath[FirstDir(w)]
           /\ There(w) \/ (tree[w].dir = Here /\ cwd # Home)
<1>1. tree[w] = Final(w)
  BY DEF TreePart
<1>2. /\ LastBuiltin(w) = 0 /\ FirstDir(w) # 0
      /\ tree[w].dir = SearchPath[FirstDir(w)]
  BY <1>1, FinalIs DEF Program
<1>3. w \in Listed[Resolved(SearchPath[FirstDir(w)], Home)]
  BY <1>2, FirstDirIs DEF InDir
<1>4. CASE tree[w].dir = Here /\ cwd # Home
  BY <1>2, <1>4
<1>5. CASE tree[w].dir # Here \/ cwd = Home
  BY <1>2, <1>3, <1>5 DEF There, Resolved
<1> QED
  BY <1>4, <1>5

(* What a line leaves in the history.                                     *)
Line1(w, how) ==
    /\ phase = "prompt"
    /\ did' = [word |-> w, how |-> how, prog |-> tree[w], there |-> There(w)]

(* exe_cmd goes where the tree sends the word.                            *)
LEMMA CommandMeans ==
    ASSUME TreePart, PipePart, cwd \in Dirs, NEW w \in Words, Command(w)
    PROVE  Means(did', cwd', tried')
<1> USE DEF Prompted, Builtin, Goes, Still, External
<1>1. ASSUME Line1(w, "builtin"), tree[w].fn # NoFn
      PROVE  Means(did', cwd', tried')
  <2>1. tree[w] = Final(w)
    BY <1>1 DEF Line1, TreePart
  <2>2. LastBuiltin(w) # 0 /\ tree[w].fn = Builtins[LastBuiltin(w)].fn
    BY <1>1, <2>1, FinalIs
  <2>3. did'.word = w /\ did'.how = "builtin" /\ did'.prog = tree[w]
    BY <1>1 DEF Line1
  <2> QED
    BY <2>2, <2>3 DEF Means, BuiltinMeans
<1>2. CASE NotFound(w)
  <2>1. phase = "prompt" /\ tree[w] = NoProg
        /\ did'.word = w /\ did'.how = "unknown"
    BY <1>2 DEF NotFound
  <2>2. LastBuiltin(w) = 0 /\ FirstDir(w) = 0
    BY <2>1, FinalIs DEF TreePart
  <2> QED
    BY <2>1, <2>2 DEF Means, UnknownMeans
<1>3. ASSUME NEW how \in {"refused", "nofork", "file"}, Line1(w, how),
             tree[w] # NoProg, tree[w].fn = NoFn, cwd' = cwd,
             how = "refused" => tried' + 2 > Spare
      PROVE  Means(did', cwd', tried')
  <2>1. did'.word = w /\ did'.how = how /\ did'.prog = tree[w]
        /\ did'.there = There(w) /\ phase = "prompt"
    BY <1>3 DEF Line1
  <2>2. FileMeans(did', cwd')
    BY <1>3, <2>1, StillThere DEF FileMeans
  <2> QED
    BY <1>3, <2>1, <2>2 DEF Means
<1>4. CASE NoPipe(w)
  <2>1. /\ Line1(w, "refused") /\ tree[w] # NoProg /\ tree[w].fn = NoFn
        /\ cwd' = cwd /\ tried' = tried /\ lost + 2 > Spare
        /\ phase = "prompt"
    BY <1>4 DEF NoPipe, Line1
  <2>2. tried + 2 > Spare
    BY <2>1, TreeAssumption DEF PipePart
  <2> QED
    BY <1>3, <2>1, <2>2
<1>5. CASE NoFork(w)
  <2>1. /\ Line1(w, "nofork") /\ tree[w] # NoProg /\ tree[w].fn = NoFn
        /\ cwd' = cwd
    BY <1>5 DEF NoFork, Line1
  <2> QED
    BY <1>3, <2>1
<1>6. CASE Fork(w)
  <2>1. /\ Line1(w, "file") /\ tree[w] # NoProg /\ tree[w].fn = NoFn
        /\ cwd' = cwd
    BY <1>6 DEF Fork, Line1
  <2> QED
    BY <1>3, <2>1
<1>7. CASE \/ \E e \in Given, a \in BOOLEAN : Setenv(w, e, a)
           \/ \E t \in DOMAIN Begins : Unsetenv(w, t)
           \/ Env(w) \/ (\E d \in Dirs : Cd(w, d)) \/ Declined(w) \/ Exit(w)
           \/ Debug(w)
  <2>1. Line1(w, "builtin") /\ tree[w].fn # NoFn
    BY <1>7 DEF Setenv, Unsetenv, Env, Cd, Declined, Exit, Debug, Line1, NoFn
  <2> QED
    BY <1>1, <2>1
<1> QED
  BY <1>2, <1>4, <1>5, <1>6, <1>7 DEF Command

(* Nothing but a line changes the last word, the directory or the count.  *)
LEMMA QuietMeans ==
    [Next]_vars =>
       (\E w \in Words : Command(w)) \/ UNCHANGED <<did, cwd, tried>>
<1> SUFFICES ASSUME [Next]_vars, ~(\E w \in Words : Command(w))
             PROVE  UNCHANGED <<did, cwd, tried>>
  OBVIOUS
<1> USE DEF envVars
<1>1. CASE UNCHANGED vars
  BY <1>1 DEF vars
<1>2. CASE ShellStep \/ NoStatus \/ Heirs
  BY <1>2 DEF ShellStep, Getpid, GotPid, OpenDir, AddProg, AddBuiltins,
              ReadEof, Waitpid, NoStatus, Heirs
<1> QED
  BY <1>1, <1>2 DEF Next

(* A word runs the last builtin entered under it, or the program of the   *)
(* first directory that had it when the shell started, and a program is   *)
(* refused only when the descriptors are used up (find_prog, exe_cmd):    *)
(* for every PATH, every set of builtins and every number of descriptors. *)
THEOREM WordsMean == Spec => []WordMeans
<1>1. Init => Means(did, cwd, tried)
  BY DEF Init, Means
<1>2. /\ EnvInv /\ PipePart /\ TreePart /\ Means(did, cwd, tried)
      /\ [Next]_vars
      => Means(did, cwd, tried)'
  BY QuietMeans, CommandMeans DEF EnvInv
<1> QED
  BY <1>1, <1>2, MeansWord, EnvInit, EnvStep, PipeInit, PipeStep,
     TreeInit, TreeStep, PTL DEF Spec

-------------------------------------------------------------------------
(* Sequences put together.                                                *)

(* Induction: a set that has the empty sequence, and with each sequence   *)
(* those one longer, has them all.                                        *)
LEMMA SeqInduction ==
    ASSUME NEW S, NEW T, << >> \in T,
           \A s \in Seq(S), x \in S : s \in T => Append(s, x) \in T
    PROVE  \A s \in Seq(S) : s \in T
<1> SUFFICES ASSUME NEW r \in Seq(S), r \notin T PROVE FALSE
  OBVIOUS
<1> DEFINE K == {n \in Nat : \E s \in Seq(S) : Len(s) = n /\ s \notin T}
<1>1. K \in SUBSET Nat /\ K # {}
  <2>1. Len(r) \in K
    OBVIOUS
  <2> QED
    BY <2>1
<1>2. PICK n \in K : \A m \in K : n <= m
  BY <1>1, LeastNumber
<1>3. PICK s \in Seq(S) : Len(s) = n /\ s \notin T
  OBVIOUS
<1>4. PICK t \in Seq(S), x \in S : s = Append(t, x)
  <2>1. s # << >>
    BY <1>3
  <2> QED
    BY <2>1, SequenceEmptyOrAppend
<1>5. Len(t) \in Nat /\ Len(t) = n - 1 /\ n \in Nat
  BY <1>3, <1>4, AppendProperties
<1>6. t \notin T
  BY <1>3, <1>4
<1>7. Len(t) \in K
  BY <1>5, <1>6
<1> HIDE DEF K
<1> QED
  BY <1>2, <1>5, <1>7

(* FlattenSeq is the last value of a function of the prefixes.            *)
Joined(s, f, i) == IF i = 1 THEN s[i] ELSE f[i - 1] \o s[i]
IsJoin(s, f) == f = [i \in 1 .. Len(s) |-> Joined(s, f, i)]

(* The definition of FlattenSeq, for a sequence of some length.           *)
LEMMA FlatDef ==
    ASSUME NEW s, Len(s) # 0
    PROVE  FlattenSeq(s) = (CHOOSE f : IsJoin(s, f))[Len(s)]
  BY DEF FlattenSeq, IsJoin, Joined

(* What such a function is at a number of parts.                          *)
LEMMA JoinAt ==
    ASSUME NEW s, NEW f, IsJoin(s, f)
    PROVE  \A i \in 1 .. Len(s) : f[i] = Joined(s, f, i)
  BY DEF IsJoin

(* There is such a function,                                              *)
LEMMA JoinExists ==
    ASSUME NEW S, NEW s \in Seq(Seq(S)) PROVE \E f : IsJoin(s, f)
<1> DEFINE T == {t \in Seq(Seq(S)) : \E f : IsJoin(t, f)}
<1>1. << >> \in T
  <2> DEFINE g == [i \in 1 .. Len(<< >>) |-> << >>]
  <2>1. g = [i \in 1 .. Len(<< >>) |-> Joined(<< >>, g, i)]
    <3>1. \A i \in 1 .. Len(<< >>) : FALSE
      OBVIOUS
    <3> QED
      BY <3>1
  <2>2. << >> \in Seq(Seq(S))
    OBVIOUS
  <2> HIDE DEF g
  <2> QED
    BY <2>1, <2>2 DEF IsJoin
<1>2. ASSUME NEW t \in Seq(Seq(S)), NEW x \in Seq(S), t \in T
      PROVE  Append(t, x) \in T
  <2>1. PICK f : IsJoin(t, f)
    BY <1>2
  <2> DEFINE u == Append(t, x)
  <2>2. /\ u \in Seq(Seq(S)) /\ Len(u) = Len(t) + 1 /\ Len(t) \in Nat
        /\ u[Len(t) + 1] = x /\ \A i \in 1 .. Len(t) : u[i] = t[i]
    BY AppendProperties
  <2> HIDE DEF u
  <2> DEFINE g == [i \in 1 .. Len(u) |->
                     IF i = Len(u) THEN Joined(u, f, i) ELSE f[i]]
  <2>3. \A i \in 1 .. Len(t) : f[i] = Joined(t, f, i)
    BY <2>1, JoinAt
  <2>4. \A i \in 1 .. Len(t) : g[i] = f[i]
    BY <2>2
  <2>5. ASSUME NEW i \in 1 .. Len(u) PROVE g[i] = Joined(u, g, i)
    <3>1. i - 1 \in 1 .. Len(t) \/ i = 1
      BY <2>2
    <3>2. Joined(u, g, i) = Joined(u, f, i)
      BY <2>4, <3>1 DEF Joined
    <3>3. CASE i = Len(u)
      <4>1. g[i] = Joined(u, f, i)
        BY <3>3
      <4> QED
        BY <3>2, <4>1
    <3>4. CASE i # Len(u)
      <4>1. i \in 1 .. Len(t)
        BY <2>2, <3>4
      <4>2. g[i] = f[i] /\ f[i] = Joined(t, f, i) /\ u[i] = t[i]
        BY <2>2, <2>3, <2>4, <4>1
      <4> QED
        BY <3>2, <4>2 DEF Joined
    <3> QED
      BY <3>3, <3>4
  <2>6. IsJoin(u, g)
    <3>1. g = [i \in 1 .. Len(u) |-> g[i]]
      OBVIOUS
    <3> HIDE DEF g
    <3> QED
      BY <2>5, <3>1 DEF IsJoin
  <2> HIDE DEF g
  <2> QED
    BY <2>2, <2>6 DEF u
<1> HIDE DEF T
<1>3. s \in T
  BY <1>1, <1>2, SeqInduction
<1> QED
  BY <1>3 DEF T

(* and its value at a place depends on the sequence up to there only.     *)
LEMMA JoinUnique ==
    ASSUME NEW s, NEW t, NEW f, NEW g, IsJoin(s, f), IsJoin(t, g),
           Len(s) \in Nat, Len(t) \in Nat, Len(t) <= Len(s),
           \A i \in 1 .. Len(t) : s[i] = t[i]
    PROVE  \A i \in 1 .. Len(t) : f[i] = g[i]
<1> DEFINE K == {i \in 1 .. Len(t) : f[i] # g[i]}
<1>1. K = {}
  <2> SUFFICES ASSUME K # {} PROVE FALSE
    OBVIOUS
  <2>1. PICK i \in K : \A j \in K : i <= j
    <3>1. K \in SUBSET Nat
      OBVIOUS
    <3> QED
      BY <3>1, LeastNumber
  <2>2. i \in 1 .. Len(t) /\ f[i] # g[i]
    OBVIOUS
  <2>3. f[i] = Joined(s, f, i) /\ g[i] = Joined(t, g, i)
    <3>1. i \in 1 .. Len(s) /\ i \in 1 .. Len(t)
      BY <2>2
    <3> QED
      BY <3>1, JoinAt
  <2>4. i # 1 => f[i - 1] = g[i - 1]
    <3> SUFFICES ASSUME i # 1 PROVE f[i - 1] = g[i - 1]
      OBVIOUS
    <3>1. i - 1 \in 1 .. Len(t) /\ ~(i <= i - 1)
      BY <2>2
    <3> QED
      BY <2>1, <3>1
  <2> QED
    BY <2>2, <2>3, <2>4 DEF Joined
<1> QED
  BY <1>1

(* So FlattenSeq goes on with each sequence that is appended.             *)
LEMMA FlatAppend ==
    ASSUME NEW S, NEW s \in Seq(Seq(S)), NEW x \in Seq(S),
           FlattenSeq(s) \in Seq(S)
    PROVE  FlattenSeq(Append(s, x)) = FlattenSeq(s) \o x
<1> DEFINE u == Append(s, x)
           g == CHOOSE h : IsJoin(u, h)
           f == CHOOSE h : IsJoin(s, h)
<1>1. /\ u \in Seq(Seq(S)) /\ Len(u) = Len(s) + 1 /\ Len(s) \in Nat
      /\ u[Len(s) + 1] = x /\ \A i \in 1 .. Len(s) : u[i] = s[i]
  BY AppendProperties
<1> HIDE DEF u
<1>2. IsJoin(u, g) /\ IsJoin(s, f)
  BY <1>1, JoinExists
<1>3. FlattenSeq(u) = g[Len(s) + 1]
  BY <1>1, FlatDef
<1> HIDE DEF g, f
<1>4. g[Len(s) + 1] = Joined(u, g, Len(s) + 1)
  <2>1. Len(s) + 1 \in 1 .. Len(u)
    BY <1>1
  <2> QED
    BY <1>2, <2>1, JoinAt
<1>5. CASE Len(s) = 0
  <2>1. s = << >>
    BY <1>5
  <2>2. FlattenSeq(s) = << >>
    BY <2>1 DEF FlattenSeq
  <2>3. FlattenSeq(u) = x
    BY <1>1, <1>3, <1>4, <1>5 DEF Joined
  <2> QED
    BY <2>2, <2>3, ConcatEmptySeq DEF u
<1>6. CASE Len(s) # 0
  <2>1. FlattenSeq(s) = f[Len(s)]
    BY <1>6, FlatDef DEF f
  <2>2. g[Len(s)] = f[Len(s)]
    <3>1. Len(s) <= Len(u) /\ Len(s) \in 1 .. Len(s) /\ Len(u) \in Nat
      BY <1>1, <1>6
    <3>2. \A i \in 1 .. Len(s) : g[i] = f[i]
      BY <1>1, <1>2, <3>1, JoinUnique
    <3> QED
      BY <3>1, <3>2
  <2>3. FlattenSeq(u) = g[Len(s)] \o x
    <3>1. Len(s) + 1 # 1 /\ (Len(s) + 1) - 1 = Len(s)
      BY <1>1, <1>6
    <3> QED
      BY <1>1, <1>3, <1>4, <3>1 DEF Joined
  <2> QED
    BY <2>1, <2>2, <2>3 DEF u
<1> QED
  BY <1>5, <1>6

(* Joined sequences are a sequence.                                       *)
LEMMA FlatType ==
    ASSUME NEW S, NEW s \in Seq(Seq(S)) PROVE FlattenSeq(s) \in Seq(S)
<1> DEFINE T == {t \in Seq(Seq(S)) : FlattenSeq(t) \in Seq(S)}
<1>1. << >> \in T
  BY EmptySeq DEF FlattenSeq
<1>2. ASSUME NEW t \in Seq(Seq(S)), NEW x \in Seq(S), t \in T
      PROVE  Append(t, x) \in T
  <2>1. FlattenSeq(t) \in Seq(S)
    BY <1>2
  <2>2. FlattenSeq(t) \o x \in Seq(S)
    BY <2>1, ConcatProperties
  <2>3. FlattenSeq(Append(t, x)) = FlattenSeq(t) \o x
    BY <2>1, FlatAppend
  <2>4. Append(t, x) \in Seq(Seq(S))
    BY AppendProperties
  <2> QED
    BY <2>2, <2>3, <2>4
<1> HIDE DEF T
<1>3. s \in T
  BY <1>1, <1>2, SeqInduction
<1> QED
  BY <1>3 DEF T

(* Flattening two sequences in a row.                                     *)
LEMMA FlatConcat ==
    ASSUME NEW S, NEW s \in Seq(Seq(S)), NEW t \in Seq(Seq(S))
    PROVE  FlattenSeq(s \o t) = FlattenSeq(s) \o FlattenSeq(t)
<1> DEFINE T == {u \in Seq(Seq(S)) :
                    FlattenSeq(s \o u) = FlattenSeq(s) \o FlattenSeq(u)}
<1>1. << >> \in T
  <2>1. FlattenSeq(<< >>) = << >> /\ << >> \in Seq(Seq(S))
    BY EmptySeq DEF FlattenSeq
  <2>2. s \o << >> = s
    BY ConcatEmptySeq
  <2>3. FlattenSeq(s) \o << >> = FlattenSeq(s)
    BY FlatType, ConcatEmptySeq
  <2> QED
    BY <2>1, <2>2, <2>3
<1>2. ASSUME NEW u \in Seq(Seq(S)), NEW x \in Seq(S), u \in T
      PROVE  Append(u, x) \in T
  <2> DEFINE su == s \o u
             fs == FlattenSeq(s)
             fu == FlattenSeq(u)
  <2>1. su \in Seq(Seq(S)) /\ fs \in Seq(S) /\ fu \in Seq(S)
    BY FlatType, ConcatProperties
  <2>2. FlattenSeq(su) = fs \o fu
    BY <1>2
  <2>3. s \o Append(u, x) = Append(su, x)
    <3>1. <<x>> \in Seq(Seq(S))
      OBVIOUS
    <3>2. Append(u, x) = u \o <<x>> /\ Append(su, x) = su \o <<x>>
      BY <2>1, AppendIsConcat
    <3>3. su \o <<x>> = s \o (u \o <<x>>)
      BY <3>1, ConcatAssociative
    <3> HIDE DEF su
    <3> QED
      BY <3>2, <3>3
  <2> HIDE DEF su, fs, fu
  <2>4. FlattenSeq(Append(su, x)) = (fs \o fu) \o x
    BY <2>1, <2>2, FlatAppend, FlatType
  <2>5. FlattenSeq(Append(u, x)) = fu \o x
    BY <2>1, FlatAppend, FlatType DEF fu
  <2>6. (fs \o fu) \o x = fs \o (fu \o x)
    BY <2>1, ConcatAssociative
  <2>7. FlattenSeq(s \o Append(u, x))
            = FlattenSeq(s) \o FlattenSeq(Append(u, x))
    BY <2>3, <2>4, <2>5, <2>6 DEF fs
  <2>8. Append(u, x) \in Seq(Seq(S))
    BY AppendProperties
  <2> QED
    BY <2>7, <2>8
<1> HIDE DEF T
<1>3. t \in T
  BY <1>1, <1>2, SeqInduction
<1> QED
  BY <1>3 DEF T

(* A single sequence joined is itself.                                    *)
LEMMA FlatOne ==
    ASSUME NEW S, NEW x \in Seq(S) PROVE FlattenSeq(<<x>>) = x
<1>1. << >> \in Seq(Seq(S)) /\ FlattenSeq(<< >>) = << >>
      /\ << >> \in Seq(S)
  BY EmptySeq DEF FlattenSeq
<1>2. Append(<< >>, x) = <<x>>
  OBVIOUS
<1>3. FlattenSeq(Append(<< >>, x)) = FlattenSeq(<< >>) \o x
  BY <1>1, FlatAppend
<1>4. << >> \o x = x
  BY ConcatEmptySeq
<1> QED
  BY <1>1, <1>2, <1>3, <1>4

-------------------------------------------------------------------------
(* Ends of line.                                                          *)

Bytes == Seq(STRING)

(* Concatenation of bytes associates.                                     *)
LEMMA BytesAssoc ==
    ASSUME NEW a \in Bytes, NEW b \in Bytes, NEW c \in Bytes
    PROVE  (a \o b) \o c = a \o (b \o c)
<1>1. a \in Seq(STRING) /\ b \in Seq(STRING) /\ c \in Seq(STRING)
  BY DEF Bytes
<1> QED
  BY <1>1, ConcatAssociative

(* There is an end of line in two parts if there is one in either.        *)
LEMMA EolConcat ==
    ASSUME NEW a \in Bytes, NEW b \in Bytes
    PROVE  HasEol(a \o b) <=> HasEol(a) \/ HasEol(b)
<1>1. /\ Len(a) \in Nat /\ Len(b) \in Nat /\ Len(a \o b) = Len(a) + Len(b)
      /\ DOMAIN a = 1 .. Len(a) /\ DOMAIN b = 1 .. Len(b)
      /\ DOMAIN (a \o b) = 1 .. Len(a) + Len(b)
      /\ \A i \in 1 .. Len(a) + Len(b) :
            (a \o b)[i] = IF i <= Len(a) THEN a[i] ELSE b[i - Len(a)]
  BY ConcatProperties, LenProperties DEF Bytes
<1> DEFINE c == a \o b
<1> HIDE DEF c
<1>2. /\ DOMAIN c = 1 .. Len(a) + Len(b)
      /\ \A i \in 1 .. Len(a) + Len(b) :
            c[i] = IF i <= Len(a) THEN a[i] ELSE b[i - Len(a)]
  BY <1>1 DEF c
<1>3. ASSUME HasEol(c) PROVE HasEol(a) \/ HasEol(b)
  <2>1. PICK i \in 1 .. Len(a) + Len(b) : c[i] = EOL
    BY <1>2, <1>3 DEF HasEol
  <2>2. CASE i <= Len(a)
    BY <1>1, <1>2, <2>1, <2>2 DEF HasEol
  <2>3. CASE i > Len(a)
    <3>1. i - Len(a) \in DOMAIN b /\ b[i - Len(a)] = EOL
      BY <1>1, <1>2, <2>1, <2>3
    <3> QED
      BY <3>1 DEF HasEol
  <2> QED
    BY <1>1, <2>1, <2>2, <2>3
<1>4. ASSUME HasEol(a) PROVE HasEol(c)
  <2>1. PICK i \in 1 .. Len(a) : a[i] = EOL
    BY <1>1, <1>4 DEF HasEol
  <2>2. i \in DOMAIN c /\ c[i] = EOL
    BY <1>1, <1>2, <2>1
  <2> QED
    BY <2>2 DEF HasEol
<1>5. ASSUME HasEol(b) PROVE HasEol(c)
  <2>1. PICK i \in 1 .. Len(b) : b[i] = EOL
    BY <1>1, <1>5 DEF HasEol
  <2>2. i + Len(a) \in DOMAIN c /\ c[i + Len(a)] = EOL
    BY <1>1, <1>2, <2>1
  <2> QED
    BY <2>2 DEF HasEol
<1> QED
  BY <1>3, <1>4, <1>5 DEF c

(* Blocks without an end of line put together have none.                  *)
LEMMA EolFlat ==
    ASSUME NEW s \in Seq(Bytes), \A i \in DOMAIN s : ~HasEol(s[i])
    PROVE  ~HasEol(FlattenSeq(s))
<1> DEFINE T == {t \in Seq(Bytes) : (\A i \in DOMAIN t : ~HasEol(t[i]))
                                        => ~HasEol(FlattenSeq(t))}
<1>1. << >> \in T
  <2>1. << >> \in Seq(Bytes) /\ FlattenSeq(<< >>) = << >>
    BY EmptySeq DEF FlattenSeq
  <2>2. ~HasEol(<< >>)
    BY DEF HasEol
  <2> QED
    BY <2>1, <2>2
<1>2. ASSUME NEW t \in Seq(Bytes), NEW x \in Bytes, t \in T
      PROVE  Append(t, x) \in T
  <2> DEFINE u == Append(t, x)
  <2>1. /\ u \in Seq(Bytes) /\ Len(u) = Len(t) + 1 /\ Len(t) \in Nat
        /\ u[Len(t) + 1] = x /\ \A i \in 1 .. Len(t) : u[i] = t[i]
        /\ DOMAIN u = 1 .. Len(t) + 1 /\ DOMAIN t = 1 .. Len(t)
    BY AppendProperties, LenProperties
  <2>2. FlattenSeq(t) \in Bytes /\ FlattenSeq(u) = FlattenSeq(t) \o x
    BY FlatType, FlatAppend DEF Bytes
  <2> HIDE DEF u
  <2>3. ASSUME \A i \in DOMAIN u : ~HasEol(u[i])
        PROVE  ~HasEol(FlattenSeq(u))
    <3>1. \A i \in DOMAIN t : ~HasEol(t[i])
      BY <2>1, <2>3
    <3>2. ~HasEol(FlattenSeq(t))
      BY <1>2, <3>1
    <3>3. ~HasEol(x)
      <4>1. Len(t) + 1 \in DOMAIN u
        BY <2>1
      <4> QED
        BY <2>1, <2>3, <4>1
    <3> QED
      BY <2>2, <3>2, <3>3, EolConcat
  <2> QED
    BY <2>1, <2>3 DEF u
<1> HIDE DEF T
<1>3. s \in T
  BY <1>1, <1>2, SeqInduction
<1> QED
  BY <1>3 DEF T

(* The end of line as bytes.                                              *)
LEMMA EolByte ==
    <<EOL>> \in Bytes /\ Len(<<EOL>>) = 1 /\ <<EOL>>[1] = EOL
<1> DEFINE S == STRING
<1>1. EOL \in S
  BY FileAssumption
<1> HIDE DEF S
<1>2. <<EOL>> \in Seq(S)
  BY <1>1
<1> QED
  BY <1>2 DEF Bytes, S

(* A text is cut at its first end of line in one way only.                *)
LEMMA EolCut ==
    ASSUME NEW a \in Bytes, NEW b \in Bytes, NEW x \in Bytes, NEW y \in Bytes,
           ~HasEol(a), ~HasEol(b), a \o (<<EOL>> \o x) = b \o (<<EOL>> \o y)
    PROVE  a = b /\ x = y
<1>1. <<EOL>> \in Bytes /\ Len(<<EOL>>) = 1 /\ <<EOL>>[1] = EOL
  BY EolByte
<1> DEFINE e == <<EOL>>
<1>2. e \in Bytes /\ Len(e) = 1 /\ e[1] = EOL
  BY <1>1
<1> HIDE DEF e
<1>3. ASSUME NEW c \in Bytes, NEW d \in Bytes, NEW u \in Bytes, NEW v \in Bytes,
             c \o (e \o u) = d \o (e \o v), ~HasEol(d)
      PROVE  ~(Len(c) < Len(d))
  <2> SUFFICES ASSUME Len(c) < Len(d) PROVE FALSE
    OBVIOUS
  <2>1. /\ e \o u \in Bytes /\ Len(e \o u) = 1 + Len(u) /\ (e \o u)[1] = EOL
        /\ e \o v \in Bytes /\ Len(e \o v) = 1 + Len(v)
        /\ Len(u) \in Nat /\ Len(v) \in Nat /\ Len(c) \in Nat /\ Len(d) \in Nat
        /\ DOMAIN d = 1 .. Len(d)
    <3>1. /\ Len(u) \in Nat /\ Len(v) \in Nat /\ Len(c) \in Nat
          /\ Len(d) \in Nat /\ DOMAIN d = 1 .. Len(d)
      BY LenProperties DEF Bytes
    <3>2. ASSUME NEW w \in Bytes
          PROVE  /\ e \o w \in Bytes /\ Len(e \o w) = 1 + Len(w)
                 /\ (e \o w)[1] = EOL
      <4>1. /\ e \o w \in Bytes /\ Len(e \o w) = Len(e) + Len(w)
            /\ Len(w) \in Nat
            /\ \A i \in 1 .. Len(e) + Len(w) :
                  (e \o w)[i] = IF i <= Len(e) THEN e[i] ELSE w[i - Len(e)]
        BY <1>2, ConcatProperties, LenProperties DEF Bytes
      <4> QED
        BY <1>2, <4>1
    <3> QED
      BY <3>1, <3>2
  <2> DEFINE eu == e \o u
             ev == e \o v
             n == Len(c) + 1
  <2>2. eu \in Bytes /\ eu[1] = EOL /\ Len(eu) = 1 + Len(u)
        /\ ev \in Bytes /\ Len(ev) = 1 + Len(v) /\ c \o eu = d \o ev
    BY <1>3, <2>1
  <2> HIDE DEF eu, ev
  <2>3. (c \o eu)[n] = EOL
    <3>1. \A i \in 1 .. Len(c) + Len(eu) :
              (c \o eu)[i] = IF i <= Len(c) THEN c[i] ELSE eu[i - Len(c)]
      <4>1. c \in Seq(STRING) /\ eu \in Seq(STRING)
        BY <2>2 DEF Bytes
      <4> QED
        BY <4>1, ConcatProperties
    <3>2. n \in 1 .. Len(c) + Len(eu) /\ ~(n <= Len(c)) /\ n - Len(c) = 1
      BY <2>1, <2>2
    <3> QED
      BY <2>2, <3>1, <3>2
  <2>4. (d \o ev)[n] = d[n] /\ n \in DOMAIN d
    <3>1. \A i \in 1 .. Len(d) + Len(ev) :
              (d \o ev)[i] = IF i <= Len(d) THEN d[i] ELSE ev[i - Len(d)]
      BY <2>2, ConcatProperties DEF Bytes
    <3>2. n \in 1 .. Len(d) + Len(ev) /\ n <= Len(d) /\ n \in DOMAIN d
      BY <2>1, <2>2
    <3> QED
      BY <3>1, <3>2
  <2> QED
    BY <1>3, <2>2, <2>3, <2>4 DEF HasEol
<1>4. a \o (e \o x) = b \o (e \o y)
  BY DEF e
<1>5. Len(a) = Len(b)
  <2>1. ~(Len(a) < Len(b)) /\ ~(Len(b) < Len(a))
    BY <1>3, <1>4
  <2>2. Len(a) \in Nat /\ Len(b) \in Nat
    BY DEF Bytes
  <2> QED
    BY <2>1, <2>2
<1> DEFINE ex == e \o x
           ey == e \o y
<1>6. ex \in Bytes /\ ey \in Bytes
  BY <1>2, ConcatProperties DEF Bytes
<1>7. a \o ex = b \o ey
  BY <1>4
<1> HIDE DEF ex, ey
<1>8. a = b
  <2>1. /\ \A i \in 1 .. Len(a) + Len(ex) :
              (a \o ex)[i] = IF i <= Len(a) THEN a[i] ELSE ex[i - Len(a)]
        /\ \A i \in 1 .. Len(b) + Len(ey) :
              (b \o ey)[i] = IF i <= Len(b) THEN b[i] ELSE ey[i - Len(b)]
        /\ Len(a) \in Nat /\ Len(ex) \in Nat /\ Len(ey) \in Nat
    BY <1>6, ConcatProperties, LenProperties DEF Bytes
  <2>2. ASSUME NEW i \in 1 .. Len(a) PROVE a[i] = b[i]
    <3>1. /\ i \in 1 .. Len(a) + Len(ex) /\ i <= Len(a)
          /\ i \in 1 .. Len(b) + Len(ey) /\ i <= Len(b)
      BY <1>5, <2>1
    <3>2. (a \o ex)[i] = a[i] /\ (b \o ey)[i] = b[i]
      BY <2>1, <3>1
    <3> QED
      BY <1>7, <3>2
  <2> QED
    BY <1>5, <2>2, SeqEqual DEF Bytes
<1>9. ex = ey
  BY <1>6, <1>7, <1>8, ConcatSimplifications DEF Bytes
<1>10. x = y
  BY <1>2, <1>9, ConcatSimplifications DEF Bytes, ex, ey
<1> QED
  BY <1>8, <1>10

-------------------------------------------------------------------------
(* The line reader.                                                       *)

(* The file's lines with their ends, and the text of all but the first k. *)
Ended == [i \in 1 .. Len(File) |-> Append(File[i], EOL)]
Behind(k) == FlattenSeq(SubSeq(Ended, k + 1, Len(File)))

(* The lines of the file, each with its end.                              *)
LEMMA EndedIs ==
    /\ Len(File) \in Nat /\ DOMAIN File = 1 .. Len(File)
    /\ Ended \in Seq(Bytes) /\ Len(Ended) = Len(File)
    /\ \A i \in 1 .. Len(File) :
          /\ File[i] \in Bytes /\ ~HasEol(File[i])
          /\ Ended[i] = File[i] \o <<EOL>>
<1>1. File \in Seq(Bytes)
  BY FileAssumption DEF Bytes
<1>2. Len(File) \in Nat /\ DOMAIN File = 1 .. Len(File)
      /\ \A i \in 1 .. Len(File) : File[i] \in Bytes
  BY <1>1, LenProperties, ElementOfSeq
<1>3. \A i \in 1 .. Len(File) : ~HasEol(File[i])
  BY <1>2, FileAssumption DEF HasEol
<1>4. ASSUME NEW i \in 1 .. Len(File)
      PROVE  Append(File[i], EOL) \in Bytes
             /\ Append(File[i], EOL) = File[i] \o <<EOL>>
  <2>1. EOL \in STRING
    BY FileAssumption
  <2>2. File[i] \in Seq(STRING)
    BY <1>2 DEF Bytes
  <2> QED
    BY <2>1, <2>2, AppendProperties, AppendIsConcat DEF Bytes
<1>5. Ended \in Seq(Bytes) /\ Len(Ended) = Len(File)
      /\ \A i \in 1 .. Len(File) : Ended[i] = Append(File[i], EOL)
  <2> DEFINE B == Bytes
  <2>1. \A i \in 1 .. Len(File) : Append(File[i], EOL) \in B
    BY <1>4
  <2> HIDE DEF B
  <2>2. Ended \in Seq(B) /\ Len(Ended) = Len(File)
    BY <1>2, <2>1 DEF Ended
  <2> QED
    BY <2>2 DEF B, Ended
<1> QED
  BY <1>2, <1>3, <1>4, <1>5

(* The next line is in front of the rest.                                 *)
LEMMA BehindIs ==
    /\ Text = Behind(0) /\ Behind(Len(File)) = << >>
    /\ \A k \in 0 .. Len(File) : Behind(k) \in Bytes
    /\ \A k \in 0 .. Len(File) - 1 :
          Behind(k) = File[k + 1] \o (<<EOL>> \o Behind(k + 1))
<1> USE EndedIs
<1>1. Text = Behind(0)
  <2>1. SubSeq(Ended, 0 + 1, Len(File)) = Ended
    BY SubSeqFull
  <2> QED
    BY <2>1 DEF Text, Behind, Ended
<1>2. Behind(Len(File)) = << >>
  <2>1. SubSeq(Ended, Len(File) + 1, Len(File)) = << >>
    BY SubSeqEmpty
  <2> QED
    BY <2>1 DEF Behind, FlattenSeq
<1>3. ASSUME NEW k \in 0 .. Len(File)
      PROVE  SubSeq(Ended, k + 1, Len(File)) \in Seq(Bytes)
  <2>1. k + 1 \in Int /\ Len(File) \in Int
    OBVIOUS
  <2>2. \A i \in k + 1 .. Len(File) : Ended[i] \in Bytes
    <3>1. \A i \in k + 1 .. Len(File) : i \in 1 .. Len(Ended)
      OBVIOUS
    <3> QED
      BY <3>1, ElementOfSeq
  <2> QED
    BY <2>1, <2>2, SubSeqProperties
<1>4. \A k \in 0 .. Len(File) : Behind(k) \in Bytes
  BY <1>3, FlatType DEF Behind, Bytes
<1>5. ASSUME NEW k \in 0 .. Len(File) - 1
      PROVE  Behind(k) = File[k + 1] \o (<<EOL>> \o Behind(k + 1))
  <2>1. k + 1 \in 1 .. Len(Ended) /\ Len(File) \in k + 1 .. Len(Ended)
        /\ k + 1 \in 0 .. Len(File) /\ k + 1 \in 1 .. Len(File)
    OBVIOUS
  <2> DEFINE a == Ended[k + 1]
             r == SubSeq(Ended, k + 1 + 1, Len(File))
  <2>2. a \in Bytes /\ a = File[k + 1] \o <<EOL>> /\ r \in Seq(Bytes)
    BY <1>3, <2>1, ElementOfSeq
  <2>3. SubSeq(Ended, k + 1, Len(File)) = <<a>> \o r
    BY <2>1, SubSeqRecursiveFirst
  <2> HIDE DEF a, r
  <2>4. <<a>> \in Seq(Bytes)
    BY <2>2
  <2>5. FlattenSeq(<<a>> \o r) = FlattenSeq(<<a>>) \o FlattenSeq(r)
    BY <2>2, <2>4, FlatConcat DEF Bytes
  <2>6. FlattenSeq(<<a>>) = a
    BY <2>2, FlatOne DEF Bytes
  <2>7. FlattenSeq(r) = Behind(k + 1)
    BY DEF Behind, r
  <2>8. Behind(k) = (File[k + 1] \o <<EOL>>) \o Behind(k + 1)
    BY <2>2, <2>3, <2>5, <2>6, <2>7 DEF Behind
  <2> DEFINE l == File[k + 1]
             e == <<EOL>>
             b == Behind(k + 1)
  <2>9. l \in Bytes /\ e \in Bytes /\ b \in Bytes
    BY <1>4, <2>1, EolByte
  <2> HIDE DEF l, e, b
  <2>10. (l \o e) \o b = l \o (e \o b)
    BY <2>9, BytesAssoc
  <2> QED
    BY <2>8, <2>10 DEF l, e, b
<1> QED
  BY <1>1, <1>2, <1>4, <1>5

(* The blocks and what is not read yet are the text behind the lines that *)
(* were returned, and a line with the tag of the pid gave the pid.        *)
Tagged(i) == File[i] # << >> /\ File[i][1] = PidTag
ReadInv ==
    /\ rest \in Bytes /\ blocks \in Seq(Bytes)
    /\ Len(lines) \in 0 .. Len(File) /\ lines = SubSeq(File, 1, Len(lines))
    /\ FlattenSeq(blocks) \o rest = Behind(Len(lines))
    /\ (\E i \in 1 .. Len(lines) : Tagged(i)) =>
          \E i \in 1 .. Len(lines) : File[i] = <<PidTag>> \o pid

(* At the start the whole file is to be read.                             *)
LEMMA ReadInit == Init => ReadInv
<1> SUFFICES ASSUME Init PROVE ReadInv
  OBVIOUS
<1>1. rest = Text /\ blocks = << >> /\ lines = << >>
  BY DEF Init, ReaderInit
<1>2. Len(lines) = 0 /\ 0 \in 0 .. Len(File)
  BY <1>1, EndedIs
<1>3. rest \in Bytes /\ rest = Behind(0)
  BY <1>1, <1>2, BehindIs
<1>4. blocks \in Seq(Bytes) /\ FlattenSeq(blocks) = << >>
  BY <1>1, EmptySeq DEF FlattenSeq
<1>5. << >> \o rest = rest
  BY <1>3, ConcatEmptySeq DEF Bytes
<1>6. lines = SubSeq(File, 1, 0)
  BY <1>1, SubSeqEmpty
<1>7. ~(\E i \in 1 .. Len(lines) : Tagged(i))
  BY <1>2
<1> QED
  BY <1>2, <1>3, <1>4, <1>5, <1>6, <1>7 DEF ReadInv

(* A part of a sequence of bytes, or of blocks.                           *)
LEMMA Parts ==
    ASSUME NEW S, NEW s \in Seq(S), NEW n \in 0 .. Len(s)
    PROVE  /\ SubSeq(s, 1, n) \in Seq(S) /\ SubSeq(s, n + 1, Len(s)) \in Seq(S)
           /\ s = SubSeq(s, 1, n) \o SubSeq(s, n + 1, Len(s))
           /\ DOMAIN SubSeq(s, 1, n) = 1 .. n
           /\ \A i \in 1 .. n : SubSeq(s, 1, n)[i] = s[i]
<1>1. Len(s) \in Nat /\ n \in Nat /\ \A i \in 1 .. Len(s) : s[i] \in S
  BY LenProperties, ElementOfSeq
<1>2. 1 \in Int /\ n \in Int /\ n + 1 \in Int /\ Len(s) \in Int
  BY <1>1
<1>3. (\A i \in 1 .. n : s[i] \in S) /\ \A i \in n + 1 .. Len(s) : s[i] \in S
  BY <1>1
<1> DEFINE l == SubSeq(s, 1, n)
           r == SubSeq(s, n + 1, Len(s))
<1>4. /\ l \in Seq(S) /\ Len(l) = IF 1 <= n THEN n - 1 + 1 ELSE 0
      /\ \A i \in 1 .. n - 1 + 1 : l[i] = s[1 + i - 1]
  BY <1>2, <1>3, SubSeqProperties
<1>5. r \in Seq(S)
  BY <1>2, <1>3, SubSeqProperties
<1>6. l \o r = SubSeq(s, 1, Len(s)) /\ SubSeq(s, 1, Len(s)) = s
  <2>1. 1 \in 1 .. Len(s) + 1 /\ n \in 1 - 1 .. Len(s)
        /\ Len(s) \in n .. Len(s)
    BY <1>1
  <2> QED
    BY <2>1, ConcatAdjacentSubSeq, SubSeqFull
<1> HIDE DEF l, r
<1>7. Len(l) = n /\ \A i \in 1 .. n : l[i] = s[i]
  BY <1>1, <1>4
<1>8. DOMAIN l = 1 .. n
  BY <1>4, <1>7, LenProperties
<1> QED
  BY <1>4, <1>5, <1>6, <1>7, <1>8 DEF l, r

(* Bytes cut in two.                                                      *)
LEMMA ByteParts ==
    ASSUME NEW s \in Bytes, NEW n \in 0 .. Len(s)
    PROVE  /\ SubSeq(s, 1, n) \in Bytes /\ SubSeq(s, n + 1, Len(s)) \in Bytes
           /\ s = SubSeq(s, 1, n) \o SubSeq(s, n + 1, Len(s))
           /\ DOMAIN SubSeq(s, 1, n) = 1 .. n
           /\ \A i \in 1 .. n : SubSeq(s, 1, n)[i] = s[i]
  BY Parts DEF Bytes

(* A read moves bytes to the end of the blocks.                           *)
LEMMA ReadAgainKeeps == ReadInv /\ ReadAgain => ReadInv'
<1> SUFFICES ASSUME ReadInv, ReadAgain PROVE ReadInv'
  OBVIOUS
<1>1. PICK n \in 1 .. ReadLen :
          /\ n <= Len(rest)
          /\ blocks' = Append(blocks, SubSeq(rest, 1, n))
          /\ rest' = SubSeq(rest, n + 1, Len(rest))
  BY DEF ReadAgain
<1>2. pid' = pid /\ lines' = lines
  BY DEF ReadAgain
<1>3. /\ rest \in Bytes /\ blocks \in Seq(Bytes)
      /\ FlattenSeq(blocks) \o rest = Behind(Len(lines))
  BY DEF ReadInv
<1> DEFINE a == SubSeq(rest, 1, n)
           b == SubSeq(rest, n + 1, Len(rest))
           f == FlattenSeq(blocks)
<1>4. a \in Bytes /\ b \in Bytes /\ rest = a \o b
  <2>1. n \in 0 .. Len(rest)
    BY <1>1, <1>3, FileAssumption, LenProperties DEF Bytes
  <2> QED
    BY <1>3, <2>1, ByteParts
<1>5. f \in Bytes
  BY <1>3, FlatType DEF Bytes
<1> HIDE DEF a, b
<1>6. blocks' = Append(blocks, a) /\ rest' = b
  BY <1>1 DEF a, b
<1>7. FlattenSeq(blocks') = f \o a /\ blocks' \in Seq(Bytes)
  <2>1. FlattenSeq(Append(blocks, a)) = f \o a
    BY <1>3, <1>4, <1>5, FlatAppend DEF Bytes
  <2> QED
    BY <1>3, <1>4, <1>6, <2>1, AppendProperties
<1> HIDE DEF f
<1>8. (f \o a) \o b = f \o (a \o b)
  BY <1>4, <1>5, BytesAssoc
<1>9. FlattenSeq(blocks') \o rest' = Behind(Len(lines))
  BY <1>3, <1>4, <1>6, <1>7, <1>8 DEF f
<1> QED
  BY <1>2, <1>4, <1>6, <1>7, <1>9 DEF ReadInv

(* get_next_line takes the line out and leaves the rest: the blocks have  *)
(* their first end of line where EolBlock and EolOffset say.              *)
LEMMA TakesLine ==
    ASSUME blocks \in Seq(Bytes), Found
    PROVE  /\ Line \in Bytes /\ ~HasEol(Line) /\ After \in Seq(Bytes)
           /\ FlattenSeq(blocks)
                = Line \o (<<EOL>> \o FlattenSeq(After))
<1> DEFINE k == EolBlock
           b == blocks[k]
           off == EolOffset
           pre == SubSeq(blocks, 1, k - 1)
           post == SubSeq(blocks, k + 1, Len(blocks))
           head == SubSeq(b, 1, off - 1)
           tail == SubSeq(b, off + 1, Len(b))
           e == <<EOL>>
<1>1. Len(blocks) \in Nat /\ DOMAIN blocks = 1 .. Len(blocks)
  BY LenProperties
<1>2. /\ k \in 1 .. Len(blocks) /\ HasEol(b)
      /\ \A i \in 1 .. k - 1 : ~HasEol(blocks[i])
  <2> DEFINE T == {i \in 1 .. Len(blocks) : HasEol(blocks[i])}
  <2>1. k = FirstOf(T)
    BY DEF EolBlock, SelectInSeq, FirstOf
  <2>2. T \in SUBSET (1 .. Len(blocks)) /\ T # {}
    BY <1>1 DEF Found
  <2>3. \A i : i \in T <=> i \in 1 .. Len(blocks) /\ HasEol(blocks[i])
    OBVIOUS
  <2> HIDE DEF T, k
  <2>4. k \in T /\ \A i \in T : k <= i
    BY <1>1, <2>1, <2>2, FirstOfIs
  <2>5. \A i \in 1 .. k - 1 : i \in 1 .. Len(blocks) /\ ~(k <= i)
    BY <1>1, <2>3, <2>4
  <2> QED
    BY <2>3, <2>4, <2>5
<1>3. b \in Bytes
  BY <1>1, <1>2, ElementOfSeq
<1> HIDE DEF k
<1>4. Len(b) \in Nat /\ DOMAIN b = 1 .. Len(b)
  BY <1>3, LenProperties DEF Bytes
<1>5. /\ off \in 1 .. Len(b) /\ b[off] = EOL
      /\ \A i \in 1 .. off - 1 : b[i] # EOL
  <2> DEFINE T == {i \in 1 .. Len(b) : b[i] = EOL}
  <2>1. off = FirstOf(T)
    BY DEF EolOffset, SelectInSeq, FirstOf, k
  <2>2. T \in SUBSET (1 .. Len(b)) /\ T # {}
    BY <1>2, <1>4 DEF HasEol
  <2>3. \A i : i \in T <=> i \in 1 .. Len(b) /\ b[i] = EOL
    OBVIOUS
  <2> HIDE DEF T, off
  <2>4. off \in T /\ \A i \in T : off <= i
    BY <1>4, <2>1, <2>2, FirstOfIs
  <2>5. \A i \in 1 .. off - 1 : i \in 1 .. Len(b) /\ ~(off <= i)
    BY <1>4, <2>3, <2>4
  <2> QED
    BY <2>3, <2>4, <2>5
<1> HIDE DEF off
(* The blocks, cut at the block, and the block, cut at the end of line.   *)
<1>6. /\ pre \in Seq(Bytes) /\ post \in Seq(Bytes)
      /\ blocks = pre \o (<<b>> \o post)
      /\ \A i \in DOMAIN pre : ~HasEol(pre[i])
  <2>1. k - 1 \in 0 .. Len(blocks) /\ k - 1 + 1 = k
    BY <1>1, <1>2
  <2>2. /\ pre \in Seq(Bytes) /\ DOMAIN pre = 1 .. k - 1
        /\ blocks = pre \o SubSeq(blocks, k, Len(blocks))
        /\ \A i \in 1 .. k - 1 : pre[i] = blocks[i]
    BY <2>1, Parts
  <2>3. k \in 1 .. Len(blocks) /\ Len(blocks) \in k .. Len(blocks)
    BY <1>1, <1>2
  <2>4. SubSeq(blocks, k, Len(blocks)) = <<b>> \o post
    BY <2>3, SubSeqRecursiveFirst
  <2>5. post \in Seq(Bytes)
    <3>1. k \in 0 .. Len(blocks)
      BY <1>1, <1>2
    <3> QED
      BY <3>1, Parts
  <2> QED
    BY <1>2, <2>2, <2>4, <2>5
<1>7. /\ head \in Bytes /\ tail \in Bytes /\ b = head \o (e \o tail)
      /\ ~HasEol(head)
  <2>1. off - 1 \in 0 .. Len(b) /\ off - 1 + 1 = off
    BY <1>4, <1>5
  <2>2. /\ head \in Bytes /\ DOMAIN head = 1 .. off - 1
        /\ b = head \o SubSeq(b, off, Len(b))
        /\ \A i \in 1 .. off - 1 : head[i] = b[i]
    BY <1>3, <2>1, ByteParts
  <2>3. off \in 1 .. Len(b) /\ Len(b) \in off .. Len(b)
    BY <1>4, <1>5
  <2>4. SubSeq(b, off, Len(b)) = e \o tail
    BY <1>3, <1>5, <2>3, SubSeqRecursiveFirst DEF Bytes
  <2>5. tail \in Bytes
    <3>1. off \in 0 .. Len(b)
      BY <1>4, <1>5
    <3> QED
      BY <1>3, <3>1, ByteParts
  <2>6. ~HasEol(head)
    BY <1>5, <2>2 DEF HasEol
  <2> QED
    BY <2>2, <2>4, <2>5, <2>6
<1>8. Line = FlattenSeq(pre) \o head
  BY DEF Line, k, off
<1>9. After = IF tail = << >> THEN post ELSE <<tail>> \o post
  BY DEF After, CopyEnd, k, off
<1> HIDE DEF pre, post, head, tail, b
<1> DEFINE fp == FlattenSeq(pre)
           fq == FlattenSeq(post)
<1>10. fp \in Bytes /\ fq \in Bytes /\ e \in Bytes
  BY <1>6, FlatType, EolByte DEF Bytes
<1>11. After \in Seq(Bytes) /\ FlattenSeq(After) = tail \o fq
  <2>1. CASE tail = << >>
    <3>1. << >> \o fq = fq
      BY <1>10, ConcatEmptySeq DEF Bytes
    <3> QED
      BY <1>6, <1>9, <2>1, <3>1
  <2>2. CASE tail # << >>
    <3>1. <<tail>> \in Seq(Bytes)
      BY <1>7
    <3>2. <<tail>> \o post \in Seq(Bytes)
      BY <1>6, <3>1, ConcatProperties
    <3>3. FlattenSeq(<<tail>> \o post) = FlattenSeq(<<tail>>) \o fq
      BY <1>6, <3>1, FlatConcat DEF Bytes
    <3>4. FlattenSeq(<<tail>>) = tail
      BY <1>7, FlatOne DEF Bytes
    <3> QED
      BY <1>9, <2>2, <3>2, <3>3, <3>4
  <2> QED
    BY <2>1, <2>2
<1>12. FlattenSeq(blocks) = fp \o (b \o fq)
  <2>1. <<b>> \in Seq(Bytes)
    BY <1>3
  <2> DEFINE r == <<b>> \o post
  <2>2. r \in Seq(Bytes)
    BY <1>6, <2>1, ConcatProperties
  <2>3. FlattenSeq(r) = FlattenSeq(<<b>>) \o fq
    BY <1>6, <2>1, FlatConcat DEF Bytes
  <2>4. FlattenSeq(<<b>>) = b
    BY <1>3, FlatOne DEF Bytes
  <2>5. blocks = pre \o r
    BY <1>6
  <2> HIDE DEF r
  <2>6. FlattenSeq(pre \o r) = fp \o FlattenSeq(r)
    BY <1>6, <2>2, FlatConcat DEF Bytes
  <2> QED
    BY <2>3, <2>4, <2>5, <2>6
<1> HIDE DEF fp, fq, e
<1>13. fp \o (b \o fq) = (fp \o head) \o (e \o (tail \o fq))
  <2> DEFINE et == e \o tail
             t == tail \o fq
             et2 == e \o t
  <2>1. et \in Bytes /\ t \in Bytes
    BY <1>7, <1>10, ConcatProperties DEF Bytes
  <2>2. et \o fq = e \o t
    BY <1>7, <1>10, BytesAssoc
  <2>3. e \o t \in Bytes
    <3> HIDE DEF t
    <3> QED
      BY <1>10, <2>1, ConcatProperties DEF Bytes
  <2>4. b = head \o et
    BY <1>7
  <2> HIDE DEF et, t
  <2>5. (head \o et) \o fq = head \o (et \o fq)
    BY <1>7, <1>10, <2>1, BytesAssoc
  <2>6. b \o fq = head \o et2
    BY <2>2, <2>4, <2>5
  <2>7. fp \in Bytes /\ head \in Bytes /\ et2 \in Bytes
    BY <1>7, <1>10, <2>3
  <2> HIDE DEF et2
  <2>8. (fp \o head) \o et2 = fp \o (head \o et2)
    BY <2>7, BytesAssoc
  <2> QED
    BY <2>6, <2>8 DEF et2, t
<1>14. Line \in Bytes
  BY <1>7, <1>8, <1>10, ConcatProperties DEF Bytes, fp
<1>15. ~HasEol(Line)
  <2>1. ~HasEol(fp)
    BY <1>6, EolFlat DEF fp
  <2> QED
    BY <1>7, <1>8, <1>10, <2>1, EolConcat DEF fp
<1> QED
  BY <1>8, <1>11, <1>12, <1>13, <1>14, <1>15 DEF fp, e

(* A number of lines that is not all of them leaves a next line.          *)
LEMMA OneMore ==
    ASSUME NEW n \in Nat, NEW i \in 0 .. n, i # n
    PROVE  i \in 0 .. n - 1 /\ i + 1 \in 1 .. n /\ i + 1 \in 0 .. n
  OBVIOUS

(* A line that is taken out is the next of the file.                      *)
LEMMA GetNextLineKeeps == ReadInv /\ GetNextLine => ReadInv'
<1> SUFFICES ASSUME ReadInv, GetNextLine PROVE ReadInv'
  OBVIOUS
<1> DEFINE k == Len(lines)
           f == FlattenSeq(After)
<1>1. /\ Found /\ blocks' = After /\ lines' = Append(lines, Line)
      /\ pid' = IF Line # << >> /\ Line[1] = PidTag THEN Tail(Line) ELSE pid
      /\ rest' = rest
  BY DEF GetNextLine
<1>2. /\ rest \in Bytes /\ blocks \in Seq(Bytes)
      /\ k \in 0 .. Len(File) /\ lines = SubSeq(File, 1, k)
      /\ FlattenSeq(blocks) \o rest = Behind(k)
      /\ (\E i \in 1 .. k : Tagged(i)) =>
            \E i \in 1 .. k : File[i] = <<PidTag>> \o pid
  BY DEF ReadInv
<1>3. /\ Line \in Bytes /\ ~HasEol(Line) /\ After \in Seq(Bytes)
      /\ FlattenSeq(blocks) = Line \o (<<EOL>> \o f)
  BY <1>1, <1>2, TakesLine
<1>4. f \in Bytes /\ <<EOL>> \in Bytes
  BY <1>3, FlatType, EolByte DEF Bytes
<1> HIDE DEF k, f
<1> DEFINE e == <<EOL>>
           l == Line
           fr == f \o rest
<1>5. Behind(k) = l \o (e \o fr) /\ fr \in Bytes
  <2>1. e \in Bytes /\ l \in Bytes
    BY <1>3, <1>4
  <2> HIDE DEF e, l
  <2> DEFINE ef == e \o f
  <2>2. ef \in Bytes /\ fr \in Bytes
    BY <1>2, <1>4, <2>1, ConcatProperties DEF Bytes
  <2>3. ef \o rest = e \o fr
    BY <1>2, <1>4, <2>1, BytesAssoc
  <2>4. FlattenSeq(blocks) = l \o ef
    BY <1>3 DEF e, l
  <2> HIDE DEF ef, fr
  <2>5. (l \o ef) \o rest = l \o (ef \o rest)
    BY <1>2, <2>1, <2>2, BytesAssoc
  <2> QED
    BY <1>2, <2>2, <2>3, <2>4, <2>5
<1>6. k \in 0 .. Len(File) - 1
  <2>1. Behind(k) # << >>
    <3>1. HasEol(<<EOL>>)
      BY EolByte DEF HasEol
    <3>2. e \o fr \in Bytes
      BY <1>4, <1>5, ConcatProperties DEF Bytes
    <3>3. HasEol(e \o fr)
      BY <1>4, <1>5, <3>1, EolConcat
    <3>4. HasEol(Behind(k))
      BY <1>3, <1>5, <3>2, <3>3, EolConcat
    <3>5. ~HasEol(<< >>)
      BY DEF HasEol
    <3> QED
      BY <3>4, <3>5
  <2>2. k # Len(File)
    BY <2>1, BehindIs
  <2>3. Len(File) \in Nat
    BY EndedIs
  <2> QED
    BY <1>2, <2>2, <2>3, OneMore
<1>7. k + 1 \in 1 .. Len(File) /\ k + 1 \in 0 .. Len(File) /\ k \in Nat
  BY <1>6, EndedIs
<1>8. Line = File[k + 1] /\ fr = Behind(k + 1)
  <2>1. Behind(k) = File[k + 1] \o (<<EOL>> \o Behind(k + 1))
        /\ Behind(k + 1) \in Bytes
    BY <1>6, <1>7, BehindIs
  <2>2. File[k + 1] \in Bytes /\ ~HasEol(File[k + 1])
    BY <1>7, EndedIs
  <2> HIDE DEF fr
  <2>3. Line \o (<<EOL>> \o fr) = File[k + 1] \o (<<EOL>> \o Behind(k + 1))
    BY <1>5, <2>1
  <2> QED
    BY <1>3, <1>5, <2>1, <2>2, <2>3, EolCut
<1>9. lines' = SubSeq(File, 1, k + 1) /\ Len(lines') = k + 1
  <2>1. File \in Seq(Bytes)
    BY FileAssumption DEF Bytes
  <2>2. k + 1 \in 1 .. Len(File) /\ k + 1 \in 1 .. k + 1 /\ 1 \in 1 .. Len(File)
        /\ k + 1 \in 1 .. Len(File) /\ (k + 1) - 1 = k
    BY <1>7, EndedIs
  <2>3. SubSeq(File, 1, k + 1) = SubSeq(File, 1, k) \o <<File[k + 1]>>
    BY <2>1, <2>2, SubSeqRecursiveSecond
  <2>4. lines \in Seq(Bytes)
    BY <1>2, <2>1, Parts
  <2>5. lines' = lines \o <<Line>> /\ Len(lines') = Len(lines) + 1
    BY <1>1, <1>3, <2>4, AppendIsConcat, AppendProperties
  <2> QED
    BY <1>2, <1>8, <2>3, <2>5 DEF k
<1>10. (\E i \in 1 .. k + 1 : Tagged(i)) =>
          \E i \in 1 .. k + 1 : File[i] = <<PidTag>> \o pid'
  <2>1. CASE Line # << >> /\ Line[1] = PidTag
    <3>1. Line \in Seq(STRING) /\ Len(Line) \in Nat /\ Len(Line) # 0
      BY <1>3, <2>1, EmptySeq DEF Bytes
    <3>2. 1 \in 1 .. Len(Line) /\ Len(Line) \in 1 .. Len(Line)
      BY <3>1
    <3>3. SubSeq(Line, 1, Len(Line)) = <<Line[1]>> \o SubSeq(Line, 2, Len(Line))
      <4>1. 1 + 1 = 2
        OBVIOUS
      <4> QED
        BY <3>1, <3>2, <4>1, SubSeqRecursiveFirst
    <3>4. SubSeq(Line, 1, Len(Line)) = Line
          /\ Tail(Line) = SubSeq(Line, 2, Len(Line))
      BY <2>1, <3>1, SubSeqFull, TailIsSubSeq
    <3>5. File[k + 1] = <<PidTag>> \o pid'
      BY <1>1, <1>8, <2>1, <3>3, <3>4
    <3>6. k + 1 \in 1 .. k + 1
      BY <1>7
    <3> QED
      BY <3>5, <3>6
  <2>2. CASE ~(Line # << >> /\ Line[1] = PidTag)
    <3>1. ~Tagged(k + 1)
      BY <1>8, <2>2 DEF Tagged
    <3>2. \A i \in 1 .. k + 1 : i \in 1 .. k \/ i = k + 1
      BY <1>7
    <3>3. \A i \in 1 .. k : i \in 1 .. k + 1
      BY <1>7
    <3>4. pid' = pid
      BY <1>1, <2>2
    <3> QED
      BY <1>2, <3>1, <3>2, <3>3, <3>4
  <2> QED
    BY <2>1, <2>2
<1>11. FlattenSeq(blocks') \o rest' = Behind(k + 1)
  BY <1>1, <1>8 DEF f
<1>12. rest' \in Bytes /\ blocks' \in Seq(Bytes)
  BY <1>1, <1>2, <1>3
<1>13. Len(lines') \in 0 .. Len(File) /\ lines' = SubSeq(File, 1, Len(lines'))
  BY <1>7, <1>9
<1> QED
  BY <1>9, <1>10, <1>11, <1>12, <1>13 DEF ReadInv

(* Reading blocks and returning lines leaves the rest of the file.        *)
LEMMA ReadStep == ReadInv /\ [Next]_vars => ReadInv'
<1> SUFFICES ASSUME ReadInv, [Next]_vars PROVE ReadInv'
  OBVIOUS
<1>1. ASSUME UNCHANGED readerVars PROVE ReadInv'
  BY <1>1 DEF ReadInv, readerVars, Tagged
<1>2. CASE Getpid
  BY <1>2, ReadAgainKeeps, GetNextLineKeeps DEF Getpid
<1>3. CASE UNCHANGED vars
  BY <1>1, <1>3 DEF vars
<1>4. CASE \/ GotPid \/ OpenDir \/ (\E w \in Words : AddProg(w))
           \/ AddBuiltins \/ ReadEof \/ Waitpid \/ NoStatus \/ Heirs
  BY <1>1, <1>4 DEF GotPid, OpenDir, AddProg, AddBuiltins, ReadEof, Waitpid,
                    NoStatus, Heirs
<1>5. ASSUME NEW w \in Words, Command(w) PROVE ReadInv'
  <2>1. UNCHANGED readerVars
    BY <1>5 DEF Command, Setenv, Unsetenv, Env, Cd, Declined, Exit, Debug,
                NotFound, NoPipe, NoFork, Fork, External, Builtin, Prompted
  <2> QED
    BY <1>1, <2>1
<1> QED
  BY <1>2, <1>3, <1>4, <1>5, Zenon DEF Next, ShellStep

(* At the end of the file every line was returned.                        *)
LEMMA ReadImplies == ReadInv => PidIsOwn
<1> SUFFICES ASSUME ReadInv PROVE PidIsOwn
  OBVIOUS
<1> DEFINE k == Len(lines)
<1>1. lines = SubSeq(File, 1, k) /\ k \in 0 .. Len(File)
  BY DEF ReadInv
<1>2. ASSUME AtEof
      PROVE  k = Len(File) /\ \E i \in DOMAIN File : File[i] = <<PidTag>> \o pid
  <2>1. rest = << >> /\ ~Found
    BY <1>2 DEF AtEof
  <2>2. ~HasEol(FlattenSeq(blocks)) /\ FlattenSeq(blocks) \in Bytes
    BY <2>1, EolFlat, FlatType DEF ReadInv, Found, Bytes
  <2>3. Behind(k) = FlattenSeq(blocks)
    <3>1. FlattenSeq(blocks) \o << >> = FlattenSeq(blocks)
      BY <2>2, ConcatEmptySeq DEF Bytes
    <3> QED
      BY <2>1, <3>1 DEF ReadInv
  <2> HIDE DEF k
  <2>4. k = Len(File)
    <3> SUFFICES ASSUME k # Len(File) PROVE FALSE
      OBVIOUS
    <3>1. k \in 0 .. Len(File) - 1 /\ k + 1 \in 1 .. Len(File)
          /\ k + 1 \in 0 .. Len(File)
      <4>1. Len(File) \in Nat
        BY EndedIs
      <4> QED
        BY <1>1, <4>1, OneMore DEF k
    <3>2. /\ Behind(k) = File[k + 1] \o (<<EOL>> \o Behind(k + 1))
          /\ File[k + 1] \in Bytes /\ Behind(k + 1) \in Bytes
          /\ <<EOL>> \in Bytes
      BY <3>1, BehindIs, EndedIs, EolByte
    <3>3. HasEol(<<EOL>>)
      BY EolByte DEF HasEol
    <3> DEFINE eb == <<EOL>> \o Behind(k + 1)
    <3>4. HasEol(eb) /\ eb \in Bytes
      BY <3>2, <3>3, EolConcat, ConcatProperties DEF Bytes
    <3> HIDE DEF eb
    <3>5. HasEol(File[k + 1] \o eb)
      BY <3>2, <3>4, EolConcat
    <3> QED
      BY <2>2, <2>3, <3>2, <3>5 DEF eb
  <2>5. \E i \in 1 .. k : Tagged(i)
    BY <2>4, EndedIs, FileAssumption DEF Tagged
  <2>6. \E i \in 1 .. k : File[i] = <<PidTag>> \o pid
    BY <2>5 DEF ReadInv, k
  <2> QED
    BY <2>4, <2>6, EndedIs
<1> QED
  BY <1>1, <1>2 DEF PidIsOwn

(* get_next_line returns the lines of the status file whole, once each    *)
(* and in order, and my_getpid finds the pid in it, for every file with a *)
(* line for it and every number of bytes a read may give.                 *)
THEOREM OwnPid == Spec => []PidIsOwn
  BY ReadInit, ReadStep, ReadImplies, PTL DEF Spec
=========================================================================
