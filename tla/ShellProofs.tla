--------------------------- MODULE ShellProofs ---------------------------
(* Proofs about LineEdit and Shell, for every number of cells, line, key  *)
(* and window: the cells of the line stay one chain without a loop, the   *)
(* row shows the characters in it, and the windows leave no byte behind.  *)
EXTENDS Shell, FiniteSetTheorems, SequenceTheorems, TLAPS

-------------------------------------------------------------------------
(* The chain as a sequence.                                               *)

Links == [Cells -> Cells \cup {Nil}]
Marks == [Cells -> Chars \cup {Nul}]

(* s names the n cells of the chain from h on, each linked to the next    *)
(* and back; only the first may be empty, and a cell off the chain is     *)
(* blank, which cu_left relies on when it takes one.                      *)
Linked(n, s, h, nx, pv, c) ==
    /\ n \in 1 .. MaxCells /\ s \in [1 .. n -> Cells]
    /\ \A i, j \in 1 .. n : s[i] = s[j] => i = j
    /\ h = s[1]
    /\ nx \in Links /\ pv \in Links /\ c \in Marks
    /\ \A i \in 1 .. n : nx[s[i]] = IF i = n THEN Nil ELSE s[i + 1]
    /\ \A i \in 1 .. n : pv[s[i]] = IF i = 1 THEN Nil ELSE s[i - 1]
    /\ \A i \in 2 .. n : c[s[i]] # Nul
    /\ \A b \in Cells :
        (\A i \in 1 .. n : s[i] # b) => pv[b] = Nil /\ c[b] = Nul

(* How many cells before the first character: one if the first is empty.  *)
Blank(s, c) == IF c[s[1]] = Nul THEN 1 ELSE 0

(* Cells are numbers, and none of them is Nil.                            *)
LEMMA CellType ==
    /\ MaxCells \in Nat /\ MaxCells >= 1 /\ Nil \notin Cells
    /\ 1 \in Cells /\ Nul \notin Chars
<1>1. Nul \notin Chars
  BY CharAssumption, Zenon
<1> QED
  BY <1>1, CellAssumption DEF Cells, Nil

-------------------------------------------------------------------------
(* The edits.                                                             *)

(* The chain with the cell b behind its p-th, and without its p-th.       *)
Inserted(n, s, p, b) ==
    [i \in 1 .. n + 1 |-> IF i <= p THEN s[i] ELSE IF i = p + 1 THEN b
                          ELSE s[i - 1]]
Removed(n, s, p) == [i \in 1 .. n - 1 |-> IF i < p THEN s[i] ELSE s[i + 1]]

(* An insertion moves what follows, and puts no cell twice.               *)
LEMMA InsertedIs ==
    ASSUME NEW n \in 1 .. MaxCells, NEW s \in [1 .. n -> Cells],
           \A i, j \in 1 .. n : s[i] = s[j] => i = j,
           NEW p \in 0 .. n, NEW b \in Cells, \A i \in 1 .. n : s[i] # b
    PROVE  LET t == Inserted(n, s, p, b) IN
           /\ t \in [1 .. n + 1 -> Cells]
           /\ \A i, j \in 1 .. n + 1 : t[i] = t[j] => i = j
           /\ t[p + 1] = b
           /\ \A i \in 1 .. p : t[i] = s[i]
           /\ \A i \in p + 1 .. n : t[i + 1] = s[i]
<1> DEFINE t == Inserted(n, s, p, b)
           at(i) == IF i < p + 1 THEN i ELSE i - 1
<1>1. n \in Nat /\ p \in Nat /\ p <= n /\ n >= 1
  BY CellType
<1>2. \A i \in 1 .. n + 1 :
        t[i] = IF i <= p THEN s[i] ELSE IF i = p + 1 THEN b ELSE s[i - 1]
  BY DEF Inserted
<1>3. \A i \in 1 .. n + 1 : i # p + 1 => at(i) \in 1 .. n /\ t[i] = s[at(i)]
  BY <1>1, <1>2
<1>4. \A i \in 1 .. n + 1 : i = p + 1 => t[i] = b
  BY <1>1, <1>2
<1>5. \A i \in 1 .. n + 1 : t[i] \in Cells
  BY <1>3, <1>4
<1>6. t \in [1 .. n + 1 -> Cells]
  BY <1>5 DEF Inserted
<1>7. p + 1 \in 1 .. n + 1
  BY <1>1
<1>8. \A i \in 1 .. p : i \in 1 .. n + 1 /\ at(i) = i /\ i # p + 1
  BY <1>1
<1>9. \A i \in p + 1 .. n :
        i + 1 \in 1 .. n + 1 /\ at(i + 1) = i /\ i + 1 # p + 1
  BY <1>1
<1>10. \A i, j \in 1 .. n + 1 :
        i # p + 1 /\ j # p + 1 /\ at(i) = at(j) => i = j
  BY <1>1
<1>11. ASSUME NEW i \in 1 .. n + 1, NEW j \in 1 .. n + 1, t[i] = t[j]
       PROVE  i = j
  <2>1. CASE i # p + 1 /\ j # p + 1
    BY <1>3, <1>10, <1>11, <2>1
  <2>2. CASE i = p + 1 \/ j = p + 1
    BY <1>3, <1>4, <1>11, <2>2
  <2> QED
    BY <2>1, <2>2
<1> HIDE DEF t, at
<1>12. \A i \in 1 .. p : t[i] = s[i]
  BY <1>3, <1>8
<1>13. \A i \in p + 1 .. n : t[i + 1] = s[i]
  BY <1>3, <1>9
<1>14. t[p + 1] = b
  BY <1>4, <1>7
<1> QED
  BY <1>6, <1>11, <1>12, <1>13, <1>14 DEF t

(* A removal leaves the others in their order.                            *)
LEMMA RemovedIs ==
    ASSUME NEW n \in 2 .. MaxCells, NEW s \in [1 .. n -> Cells],
           \A i, j \in 1 .. n : s[i] = s[j] => i = j, NEW p \in 1 .. n
    PROVE  LET t == Removed(n, s, p) IN
           /\ t \in [1 .. n - 1 -> Cells]
           /\ \A i, j \in 1 .. n - 1 : t[i] = t[j] => i = j
           /\ \A i \in 1 .. p - 1 : t[i] = s[i]
           /\ \A i \in p .. n - 1 : t[i] = s[i + 1]
           /\ \A i \in 1 .. n - 1 : t[i] # s[p]
<1> DEFINE t == Removed(n, s, p)
           at(i) == IF i < p THEN i ELSE i + 1
<1>1. n \in Nat /\ p \in Nat /\ p <= n /\ p >= 1 /\ n >= 2
  BY CellType
<1>2. \A i \in 1 .. n - 1 : t[i] = IF i < p THEN s[i] ELSE s[i + 1]
  BY DEF Removed
<1>3. \A i \in 1 .. n - 1 : /\ at(i) \in 1 .. n /\ t[i] = s[at(i)] /\ at(i) # p
  BY <1>1, <1>2
<1>4. t \in [1 .. n - 1 -> Cells]
  <2>1. \A i \in 1 .. n - 1 : t[i] \in Cells
    BY <1>3
  <2> QED
    BY <2>1 DEF Removed
<1>5. \A i, j \in 1 .. n - 1 : at(i) = at(j) => i = j
  BY <1>1
<1>6. \A i \in 1 .. p - 1 : i \in 1 .. n - 1 /\ at(i) = i
  BY <1>1
<1>7. \A i \in p .. n - 1 : i \in 1 .. n - 1 /\ at(i) = i + 1
  BY <1>1
<1> HIDE DEF t, at
<1>8. \A i \in 1 .. p - 1 : t[i] = s[i]
  BY <1>3, <1>6
<1>9. \A i \in p .. n - 1 : t[i] = s[i + 1]
  BY <1>3, <1>7
<1>10. \A i, j \in 1 .. n - 1 : t[i] = t[j] => i = j
  BY <1>3, <1>5
<1>11. \A i \in 1 .. n - 1 : t[i] # s[p]
  BY <1>3
<1> QED
  BY <1>4, <1>8, <1>9, <1>10, <1>11 DEF t

(* The parts of Linked that a proof cites, and the range of an index.     *)
LEMMA LinkedIs ==
    ASSUME NEW n, NEW s, NEW h, NEW nx, NEW pv, NEW c,
           Linked(n, s, h, nx, pv, c)
    PROVE  /\ n \in 1 .. MaxCells /\ s \in [1 .. n -> Cells]
           /\ \A i, j \in 1 .. n : s[i] = s[j] => i = j
           /\ nx \in Links /\ pv \in Links /\ c \in Marks
           /\ n \in Nat /\ 1 \in 1 .. n /\ n \in 1 .. n
           /\ \A i \in 1 .. n : s[i] \in Cells /\ s[i] # Nil
  BY CellType DEF Linked

(* add_char links a new cell in behind the cursor.                        *)
LEMMA LinkBehind ==
    ASSUME NEW n, NEW s, NEW h, NEW nx, NEW pv, NEW c,
           Linked(n, s, h, nx, pv, c), n + 1 \in 1 .. MaxCells,
           NEW p \in 1 .. n, NEW b \in Cells, \A i \in 1 .. n : s[i] # b,
           NEW x \in Chars
    PROVE  Linked(n + 1, Inserted(n, s, p, b), h,
                  [nx EXCEPT ![s[p]] = b, ![b] = nx[s[p]]],
                  [q \in Cells |-> IF q = b THEN s[p]
                                   ELSE IF q = nx[s[p]] THEN b ELSE pv[q]],
                  [c EXCEPT ![b] = x])
<1> DEFINE t == Inserted(n, s, p, b)
           X == [nx EXCEPT ![s[p]] = b, ![b] = nx[s[p]]]
           P == [q \in Cells |-> IF q = b THEN s[p]
                                 ELSE IF q = nx[s[p]] THEN b ELSE pv[q]]
           C == [c EXCEPT ![b] = x]
<1>1. /\ n \in 1 .. MaxCells /\ s \in [1 .. n -> Cells]
      /\ \A i, j \in 1 .. n : s[i] = s[j] => i = j
      /\ nx \in Links /\ pv \in Links /\ c \in Marks
      /\ n \in Nat /\ 1 \in 1 .. n
      /\ \A i \in 1 .. n : s[i] \in Cells /\ s[i] # Nil
  BY LinkedIs
<1>2. /\ t \in [1 .. n + 1 -> Cells]
      /\ \A i, j \in 1 .. n + 1 : t[i] = t[j] => i = j
      /\ t[p + 1] = b
      /\ \A i \in 1 .. p : t[i] = s[i]
      /\ \A i \in p + 1 .. n : t[i + 1] = s[i]
  <2>1. p \in 0 .. n
    BY <1>1
  <2>2. /\ n \in 1 .. MaxCells /\ s \in [1 .. n -> Cells]
        /\ \A i, j \in 1 .. n : s[i] = s[j] => i = j
    BY <1>1
  <2> QED
    BY <2>1, <2>2, InsertedIs
<1>3. /\ h = s[1]
      /\ \A i \in 1 .. n : nx[s[i]] = IF i = n THEN Nil ELSE s[i + 1]
      /\ \A i \in 1 .. n : pv[s[i]] = IF i = 1 THEN Nil ELSE s[i - 1]
      /\ \A i \in 2 .. n : c[s[i]] # Nul
      /\ \A a \in Cells :
            (\A i \in 1 .. n : s[i] # a) => pv[a] = Nil /\ c[a] = Nul
  BY DEF Linked
<1>4. X \in Links /\ P \in Links /\ C \in Marks
  BY <1>1 DEF Links, Marks
<1>5. \A q \in Cells :
        /\ X[q] = IF q = b THEN nx[s[p]] ELSE IF q = s[p] THEN b ELSE nx[q]
        /\ P[q] = IF q = b THEN s[p] ELSE IF q = nx[s[p]] THEN b ELSE pv[q]
        /\ C[q] = IF q = b THEN x ELSE c[q]
  BY <1>1 DEF Links, Marks
<1> HIDE DEF t, X, P, C
(* A place behind or before the new cell.                                 *)
<1>6. \A i \in 1 .. n + 1 : i \in 1 .. p \/ i = p + 1 \/ i - 1 \in p + 1 .. n
  BY <1>1
<1>7. \A i \in p + 1 .. n : i \in 1 .. n /\ i # p /\ i + 1 \in 1 .. n + 1
  BY <1>1
<1>8. \A i \in 1 .. p : i \in 1 .. n
  BY <1>1
<1>9. \A i \in 1 .. n + 1 : X[t[i]] = IF i = n + 1 THEN Nil ELSE t[i + 1]
  <2> TAKE i \in 1 .. n + 1
  <2>1. CASE i \in 1 .. p /\ i # p
    <3>1. i \in 1 .. n /\ t[i] = s[i] /\ i # n /\ i # n + 1 /\ i + 1 \in 1 .. p
      BY <1>1, <1>2, <1>8, <2>1
    <3>2. X[s[i]] = nx[s[i]] /\ t[i + 1] = s[i + 1]
      BY <1>1, <1>2, <1>5, <2>1, <3>1
    <3> QED
      BY <1>3, <3>1, <3>2
  <2>2. CASE i = p
    <3>1. t[i] = s[p] /\ p # n + 1 /\ t[i + 1] = b
      BY <1>1, <1>2, <2>2
    <3>2. X[s[p]] = b
      BY <1>1, <1>5
    <3> QED
      BY <2>2, <3>1, <3>2
  <2>3. CASE i = p + 1
    <3>1. X[t[i]] = nx[s[p]]
      BY <1>2, <1>5, <2>3
    <3>2. p # n => t[i + 1] = s[p + 1]
      <4>1. p # n => p + 1 \in p + 1 .. n
        BY <1>1
      <4> QED
        BY <1>2, <2>3, <4>1
    <3>3. i = n + 1 <=> p = n
      BY <1>1, <2>3
    <3> QED
      BY <1>3, <3>1, <3>2, <3>3
  <2>4. CASE i - 1 \in p + 1 .. n
    <3> DEFINE j == i - 1
    <3>1. j \in 1 .. n /\ j # p /\ j + 1 = i /\ j \in p + 1 .. n
      BY <1>7, <2>4
    <3>2. t[i] = s[j]
      BY <1>2, <3>1
    <3>3. X[s[j]] = nx[s[j]]
      BY <1>1, <1>5, <3>1
    <3>4. j # n => t[i + 1] = s[j + 1]
      <4>1. j # n => j + 1 \in p + 1 .. n
        BY <1>1, <3>1
      <4> QED
        BY <1>2, <3>1, <4>1
    <3>5. i = n + 1 <=> j = n
      BY <1>1, <3>1
    <3> HIDE DEF j
    <3> QED
      BY <1>3, <3>1, <3>2, <3>3, <3>4, <3>5
  <2> QED
    BY <1>6, <2>1, <2>2, <2>3, <2>4
<1>10. \A i \in 1 .. n + 1 : P[t[i]] = IF i = 1 THEN Nil ELSE t[i - 1]
  <2>1. nx[s[p]] # Nil => nx[s[p]] = s[p + 1] /\ p + 1 \in 1 .. n
    BY <1>1, <1>3
  <2>2. nx[s[p]] = Nil => p = n
    BY <1>1, <1>3
  <2> TAKE i \in 1 .. n + 1
  <2>3. CASE i \in 1 .. p
    <3>1. i \in 1 .. n /\ t[i] = s[i] /\ i # p + 1
      BY <1>1, <1>2, <1>8, <2>3
    <3>2. s[i] # nx[s[p]]
      BY <1>1, <2>1, <3>1
    <3>3. P[s[i]] = pv[s[i]]
      BY <1>1, <1>5, <3>1, <3>2
    <3>4. i # 1 => i - 1 \in 1 .. p
      BY <1>1, <2>3
    <3> QED
      BY <1>2, <1>3, <3>1, <3>3, <3>4
  <2>4. CASE i = p + 1
    <3>1. P[t[i]] = s[p]
      BY <1>2, <1>5, <2>4
    <3>2. i - 1 = p /\ i # 1 /\ p \in 1 .. p
      BY <1>1, <2>4
    <3> QED
      BY <1>2, <3>1, <3>2
  <2>5. CASE i - 1 \in p + 1 .. n
    <3> DEFINE j == i - 1
    <3>1. j \in 1 .. n /\ j # p /\ j + 1 = i /\ j \in p + 1 .. n /\ i # 1
      BY <1>1, <1>7, <2>5
    <3>2. t[i] = s[j]
      BY <1>2, <3>1
    <3> HIDE DEF j
    <3>3. CASE j = p + 1
      <4>1. p # n
        BY <1>1, <3>1, <3>3
      <4>2. nx[s[p]] = s[j]
        BY <1>3, <3>3, <4>1
      <4>3. P[s[j]] = b
        BY <1>1, <1>5, <3>1, <4>2
      <4>4. t[i - 1] = b
        BY <1>2, <3>1, <3>3
      <4> QED
        BY <3>1, <3>2, <4>3, <4>4
    <3>4. CASE j # p + 1
      <4>1. s[j] # nx[s[p]]
        BY <1>1, <2>1, <3>1, <3>4
      <4>2. P[s[j]] = pv[s[j]]
        BY <1>1, <1>5, <3>1, <4>1
      <4>3. j - 1 \in p + 1 .. n /\ j # 1 /\ (j - 1) + 1 = j /\ i - 1 = j
        BY <1>1, <3>1, <3>4
      <4>4. t[j] = s[j - 1]
        BY <1>2, <4>3
      <4> QED
        BY <1>3, <3>1, <3>2, <4>2, <4>3, <4>4
    <3> QED
      BY <3>3, <3>4
  <2> QED
    BY <1>6, <2>3, <2>4, <2>5
<1>11. \A i \in 2 .. n + 1 : C[t[i]] # Nul
  <2> TAKE i \in 2 .. n + 1
  <2>1. CASE i \in 1 .. p
    <3>1. i \in 2 .. n /\ i \in 1 .. n /\ t[i] = s[i]
      BY <1>1, <1>2, <2>1
    <3> QED
      BY <1>1, <1>3, <1>5, <3>1
  <2>2. CASE i = p + 1
    BY <1>2, <1>5, <2>2, CellType
  <2>3. CASE i - 1 \in p + 1 .. n
    <3>1. /\ i - 1 \in 2 .. n /\ i - 1 \in 1 .. n /\ (i - 1) + 1 = i
      BY <1>1, <2>3
    <3>2. t[i] = s[i - 1]
      BY <1>2, <2>3, <3>1
    <3> QED
      BY <1>1, <1>3, <1>5, <3>1, <3>2
  <2>4. i \in 1 .. n + 1
    OBVIOUS
  <2> QED
    BY <1>6, <2>1, <2>2, <2>3, <2>4
<1>12. ASSUME NEW a \in Cells, \A i \in 1 .. n + 1 : t[i] # a
       PROVE  P[a] = Nil /\ C[a] = Nul
  <2>1. \A i \in 1 .. n : \E j \in 1 .. n + 1 : t[j] = s[i]
    <3> TAKE i \in 1 .. n
    <3>1. CASE i \in 1 .. p
      <4>1. i \in 1 .. n + 1
        BY <1>1
      <4> QED
        BY <1>2, <3>1, <4>1
    <3>2. CASE i \in p + 1 .. n
      BY <1>2, <1>7, <3>2
    <3> QED
      BY <1>1, <3>1, <3>2
  <2>2. a # b
    <3>1. p + 1 \in 1 .. n + 1
      BY <1>1
    <3> QED
      BY <1>2, <1>12, <3>1
  <2>3. \A i \in 1 .. n : s[i] # a
    BY <1>12, <2>1
  <2>4. a # nx[s[p]]
    <3>1. nx[s[p]] # Nil => nx[s[p]] = s[p + 1] /\ p + 1 \in 1 .. n
      BY <1>1, <1>3
    <3>2. a # Nil
      BY CellType
    <3> QED
      BY <2>3, <3>1, <3>2
  <2> QED
    BY <1>3, <1>5, <2>2, <2>3, <2>4
<1>13. h = t[1]
  <2>1. 1 \in 1 .. p
    BY <1>1
  <2> QED
    BY <1>2, <1>3, <2>1
<1>14. Linked(n + 1, t, h, X, P, C)
  BY <1>2, <1>4, <1>9, <1>10, <1>11, <1>12, <1>13 DEF Linked
<1> QED
  BY <1>14 DEF t, X, P, C

(* cu_left puts a blank cell in front.                                    *)
LEMMA LinkBefore ==
    ASSUME NEW n, NEW s, NEW h, NEW nx, NEW pv, NEW c,
           Linked(n, s, h, nx, pv, c), n + 1 \in 1 .. MaxCells,
           NEW b \in Cells, \A i \in 1 .. n : s[i] # b, c[s[1]] # Nul
    PROVE  /\ Linked(n + 1, Inserted(n, s, 0, b), b, [nx EXCEPT ![b] = s[1]],
                     [pv EXCEPT ![s[1]] = b], c)
           /\ c[b] = Nul
<1> DEFINE t == Inserted(n, s, 0, b)
           X == [nx EXCEPT ![b] = s[1]]
           P == [pv EXCEPT ![s[1]] = b]
<1>1. /\ n \in 1 .. MaxCells /\ s \in [1 .. n -> Cells]
      /\ \A i, j \in 1 .. n : s[i] = s[j] => i = j
      /\ nx \in Links /\ pv \in Links /\ c \in Marks
      /\ n \in Nat /\ 1 \in 1 .. n
      /\ \A i \in 1 .. n : s[i] \in Cells /\ s[i] # Nil
  BY LinkedIs
<1>2. /\ t \in [1 .. n + 1 -> Cells]
      /\ \A i, j \in 1 .. n + 1 : t[i] = t[j] => i = j
      /\ t[1] = b
      /\ \A i \in 1 .. n : t[i + 1] = s[i]
  <2>1. 0 \in 0 .. n /\ 0 + 1 = 1
    BY <1>1
  <2> QED
    BY <1>1, <2>1, InsertedIs
<1>3. /\ \A i \in 1 .. n : nx[s[i]] = IF i = n THEN Nil ELSE s[i + 1]
      /\ \A i \in 1 .. n : pv[s[i]] = IF i = 1 THEN Nil ELSE s[i - 1]
      /\ \A i \in 2 .. n : c[s[i]] # Nul
      /\ \A a \in Cells :
            (\A i \in 1 .. n : s[i] # a) => pv[a] = Nil /\ c[a] = Nul
  BY DEF Linked
<1>4. X \in Links /\ P \in Links
  BY <1>1 DEF Links
<1>5. \A q \in Cells : /\ X[q] = IF q = b THEN s[1] ELSE nx[q]
                       /\ P[q] = IF q = s[1] THEN b ELSE pv[q]
  BY <1>1 DEF Links
<1> HIDE DEF t, X, P
<1>6. \A i \in 1 .. n + 1 : i # 1 => i - 1 \in 1 .. n /\ (i - 1) + 1 = i
  BY <1>1
<1>7. \A i \in 1 .. n + 1 : X[t[i]] = IF i = n + 1 THEN Nil ELSE t[i + 1]
  <2> TAKE i \in 1 .. n + 1
  <2>1. CASE i = 1
    <3>1. t[i + 1] = s[1] /\ i # n + 1
      BY <1>1, <1>2, <2>1
    <3> QED
      BY <1>2, <1>5, <2>1, <3>1
  <2>2. CASE i # 1
    <3> DEFINE j == i - 1
    <3>1. j \in 1 .. n /\ j + 1 = i /\ t[i] = s[j]
      BY <1>2, <1>6, <2>2
    <3>2. X[s[j]] = nx[s[j]]
      BY <1>1, <1>5, <3>1
    <3>3. (i = n + 1 <=> j = n) /\ (j # n => i \in 1 .. n)
      BY <1>1, <3>1
    <3> HIDE DEF j
    <3> QED
      BY <1>2, <1>3, <3>1, <3>2, <3>3
  <2> QED
    BY <2>1, <2>2
<1>8. \A i \in 1 .. n + 1 : P[t[i]] = IF i = 1 THEN Nil ELSE t[i - 1]
  <2> TAKE i \in 1 .. n + 1
  <2>1. CASE i = 1
    BY <1>1, <1>2, <1>3, <1>5, <2>1
  <2>2. CASE i # 1
    <3> DEFINE j == i - 1
    <3>1. j \in 1 .. n /\ j + 1 = i /\ t[i] = s[j] /\ i - 1 = j
      BY <1>2, <1>6, <2>2
    <3> HIDE DEF j
    <3>2. CASE j = 1
      BY <1>1, <1>2, <1>5, <2>2, <3>1, <3>2
    <3>3. CASE j # 1
      <4>1. P[s[j]] = pv[s[j]]
        BY <1>1, <1>5, <3>1, <3>3
      <4>2. j - 1 \in 1 .. n /\ (j - 1) + 1 = j
        BY <1>1, <3>1, <3>3
      <4> QED
        BY <1>2, <1>3, <2>2, <3>1, <3>3, <4>1, <4>2
    <3> QED
      BY <3>2, <3>3
  <2> QED
    BY <2>1, <2>2
<1>9. \A i \in 2 .. n + 1 : c[t[i]] # Nul
  <2> TAKE i \in 2 .. n + 1
  <2>1. i - 1 \in 1 .. n /\ (i - 1) + 1 = i /\ (i - 1 = 1 \/ i - 1 \in 2 .. n)
    BY <1>1
  <2> QED
    BY <1>2, <1>3, <2>1
<1>10. \A a \in Cells :
          (\A i \in 1 .. n + 1 : t[i] # a) => P[a] = Nil /\ c[a] = Nul
  <2> SUFFICES ASSUME NEW a \in Cells, \A i \in 1 .. n + 1 : t[i] # a
               PROVE  P[a] = Nil /\ c[a] = Nul
    OBVIOUS
  <2>1. \A i \in 1 .. n : i + 1 \in 1 .. n + 1
    BY <1>1
  <2>2. \A i \in 1 .. n : s[i] # a
    BY <1>2, <2>1
  <2> QED
    BY <1>1, <1>3, <1>5, <2>2
<1>11. c[b] = Nul
  BY <1>3
<1>12. n + 1 \in 1 .. MaxCells
  OBVIOUS
<1>13. Linked(n + 1, t, b, X, P, c)
  BY <1>1, <1>2, <1>4, <1>7, <1>8, <1>9, <1>10, <1>12 DEF Linked
<1> QED
  BY <1>11, <1>13 DEF t, X, P

(* cu_del takes a cell out that is not the first, and blanks it.          *)
LEMMA LinkWithout ==
    ASSUME NEW n, NEW s, NEW h, NEW nx, NEW pv, NEW c,
           Linked(n, s, h, nx, pv, c), NEW p \in 2 .. n
    PROVE  Linked(n - 1, Removed(n, s, p), h,
                  [nx EXCEPT ![pv[s[p]]] = nx[s[p]], ![s[p]] = Nil],
                  [q \in Cells |-> IF q = s[p] THEN Nil
                                   ELSE IF q = nx[s[p]] THEN pv[s[p]]
                                   ELSE pv[q]],
                  [c EXCEPT ![s[p]] = Nul])
<1> DEFINE t == Removed(n, s, p)
           X == [nx EXCEPT ![pv[s[p]]] = nx[s[p]], ![s[p]] = Nil]
           P == [q \in Cells |-> IF q = s[p] THEN Nil
                                 ELSE IF q = nx[s[p]] THEN pv[s[p]] ELSE pv[q]]
           C == [c EXCEPT ![s[p]] = Nul]
<1>1. /\ n \in 1 .. MaxCells /\ s \in [1 .. n -> Cells]
      /\ \A i, j \in 1 .. n : s[i] = s[j] => i = j
      /\ nx \in Links /\ pv \in Links /\ c \in Marks
      /\ n \in Nat /\ 1 \in 1 .. n
      /\ \A i \in 1 .. n : s[i] \in Cells /\ s[i] # Nil
  BY LinkedIs
<1>2. /\ n \in 2 .. MaxCells /\ p \in 1 .. n /\ p - 1 \in 1 .. n /\ p # 1
      /\ p - 1 # p /\ p - 1 # n /\ MaxCells \in Nat
  BY <1>1, CellType
<1>3. /\ t \in [1 .. n - 1 -> Cells]
      /\ \A i, j \in 1 .. n - 1 : t[i] = t[j] => i = j
      /\ \A i \in 1 .. p - 1 : t[i] = s[i]
      /\ \A i \in p .. n - 1 : t[i] = s[i + 1]
      /\ \A i \in 1 .. n - 1 : t[i] # s[p]
  BY <1>1, <1>2, RemovedIs
<1>4. /\ h = s[1]
      /\ \A i \in 1 .. n : nx[s[i]] = IF i = n THEN Nil ELSE s[i + 1]
      /\ \A i \in 1 .. n : pv[s[i]] = IF i = 1 THEN Nil ELSE s[i - 1]
      /\ \A i \in 2 .. n : c[s[i]] # Nul
      /\ \A a \in Cells :
            (\A i \in 1 .. n : s[i] # a) => pv[a] = Nil /\ c[a] = Nul
  BY DEF Linked
<1>5. pv[s[p]] = s[p - 1] /\ s[p - 1] # s[p]
  BY <1>1, <1>2, <1>4
<1>6. X \in Links /\ P \in Links /\ C \in Marks
  BY <1>1, <1>2, <1>5 DEF Links, Marks
<1>7. \A q \in Cells :
        /\ X[q] = IF q = s[p] THEN Nil ELSE IF q = s[p - 1] THEN nx[s[p]]
                  ELSE nx[q]
        /\ P[q] = IF q = s[p] THEN Nil ELSE IF q = nx[s[p]] THEN s[p - 1]
                  ELSE pv[q]
        /\ C[q] = IF q = s[p] THEN Nul ELSE c[q]
  BY <1>1, <1>2, <1>5 DEF Links, Marks
<1> HIDE DEF t, X, P, C
<1>8. nx[s[p]] = IF p = n THEN Nil ELSE s[p + 1]
  BY <1>2, <1>4
<1>9. \A i \in 1 .. n - 1 : i \in 1 .. p - 1 \/ i \in p .. n - 1
  BY <1>2
<1>10. \A i \in 1 .. p - 1 : i \in 1 .. n /\ i # p /\ i # n
  BY <1>2
<1>11. \A i \in p .. n - 1 : i + 1 \in 1 .. n /\ i + 1 # p /\ i + 1 # 1
                             /\ i + 1 # p - 1
  BY <1>2
<1>12. \A i \in 1 .. n - 1 : X[t[i]] = IF i = n - 1 THEN Nil ELSE t[i + 1]
  <2> TAKE i \in 1 .. n - 1
  <2>1. CASE i \in 1 .. p - 1 /\ i # p - 1
    <3>1. i \in 1 .. n /\ i # n /\ i # n - 1 /\ i + 1 \in 1 .. p - 1
      BY <1>2, <2>1
    <3>2. X[s[i]] = nx[s[i]]
      BY <1>1, <1>2, <1>7, <1>10, <2>1, <3>1
    <3> QED
      BY <1>3, <1>4, <2>1, <3>1, <3>2
  <2>2. CASE i = p - 1
    <3>1. i \in 1 .. p - 1 /\ i + 1 = p
      BY <1>2, <2>2
    <3>2. X[t[i]] = nx[s[p]]
      BY <1>1, <1>2, <1>3, <1>5, <1>7, <2>2, <3>1
    <3>3. p # n => p \in p .. n - 1
      BY <1>2
    <3>4. i = n - 1 <=> p = n
      BY <1>2, <2>2
    <3> QED
      BY <1>3, <1>8, <3>1, <3>2, <3>3, <3>4
  <2>3. CASE i \in p .. n - 1
    <3>1. i + 1 \in 1 .. n /\ t[i] = s[i + 1]
      BY <1>3, <1>11, <2>3
    <3>2. X[s[i + 1]] = nx[s[i + 1]]
      BY <1>1, <1>2, <1>7, <1>11, <2>3, <3>1
    <3>3. i # n - 1 => i + 1 \in p .. n - 1
      BY <1>2, <2>3
    <3>4. i = n - 1 <=> i + 1 = n
      BY <1>2, <2>3
    <3>5. X[t[i]] = IF i = n - 1 THEN Nil ELSE s[(i + 1) + 1]
      BY <1>4, <3>1, <3>2, <3>4
    <3>6. i # n - 1 => t[i + 1] = s[(i + 1) + 1]
      BY <1>3, <3>3
    <3> QED
      BY <3>5, <3>6
  <2> QED
    BY <1>9, <2>1, <2>2, <2>3
<1>13. \A i \in 1 .. n - 1 : P[t[i]] = IF i = 1 THEN Nil ELSE t[i - 1]
  <2>1. nx[s[p]] # Nil => nx[s[p]] = s[p + 1] /\ p + 1 \in 1 .. n
    BY <1>2, <1>8
  <2> TAKE i \in 1 .. n - 1
  <2>2. CASE i \in 1 .. p - 1
    <3>1. i \in 1 .. n /\ i # p /\ i # p + 1 /\ (i # 1 => i - 1 \in 1 .. p - 1)
      BY <1>2, <2>2
    <3>2. s[i] # nx[s[p]] /\ s[i] # s[p]
      BY <1>1, <1>2, <2>1, <3>1
    <3>3. P[s[i]] = pv[s[i]]
      BY <1>1, <1>7, <3>1, <3>2
    <3> QED
      BY <1>3, <1>4, <2>2, <3>1, <3>3
  <2>3. CASE i = p
    <3>1. i \in p .. n - 1 /\ p # n /\ p + 1 \in 1 .. n /\ p + 1 # p
      BY <1>2, <2>3
    <3>2. t[i] = nx[s[p]] /\ nx[s[p]] = s[p + 1]
      BY <1>3, <1>8, <2>3, <3>1
    <3>3. P[s[p + 1]] = s[p - 1]
      BY <1>1, <1>2, <1>7, <3>1, <3>2
    <3>4. i # 1 /\ i - 1 \in 1 .. p - 1 /\ i - 1 = p - 1
      BY <1>2, <2>3
    <3> QED
      BY <1>3, <3>2, <3>3, <3>4
  <2>4. CASE i \in p .. n - 1 /\ i # p
    <3>1. i + 1 \in 1 .. n /\ t[i] = s[i + 1] /\ i + 1 # p + 1
      BY <1>2, <1>3, <1>11, <2>4
    <3>2. s[i + 1] # nx[s[p]] /\ s[i + 1] # s[p]
      BY <1>1, <1>2, <1>11, <2>1, <2>4, <3>1
    <3>3. P[s[i + 1]] = pv[s[i + 1]]
      BY <1>1, <1>7, <3>1, <3>2
    <3>4. i - 1 \in p .. n - 1 /\ (i - 1) + 1 = i /\ (i + 1) - 1 = i
          /\ i + 1 # 1 /\ i # 1
      BY <1>2, <2>4
    <3>5. t[i - 1] = s[i]
      BY <1>3, <3>4
    <3> QED
      BY <1>4, <3>1, <3>3, <3>4, <3>5
  <2> QED
    BY <1>9, <2>2, <2>3, <2>4
<1>14. \A i \in 2 .. n - 1 : C[t[i]] # Nul
  <2> TAKE i \in 2 .. n - 1
  <2>1. i \in 1 .. n - 1 /\ (i \in 1 .. p - 1 => i \in 2 .. n)
        /\ (i \in p .. n - 1 => i + 1 \in 2 .. n)
    BY <1>2
  <2>2. c[t[i]] # Nul
    BY <1>3, <1>4, <1>9, <2>1
  <2> QED
    BY <1>3, <1>7, <2>1, <2>2
<1>15. ASSUME NEW a \in Cells, \A i \in 1 .. n - 1 : t[i] # a
       PROVE  P[a] = Nil /\ C[a] = Nul
  <2>1. CASE a = s[p]
    BY <1>7, <2>1
  <2>2. CASE a # s[p]
    <3>1. \A i \in 1 .. n : i = p \/ i \in 1 .. p - 1
                            \/ (i - 1 \in p .. n - 1 /\ (i - 1) + 1 = i)
      BY <1>2
    <3>2. \A i \in 1 .. p - 1 : i \in 1 .. n - 1
      BY <1>2
    <3>3. \A i \in p .. n - 1 : i \in 1 .. n - 1
      BY <1>2
    <3>4. \A i \in 1 .. n : s[i] # a
      BY <1>3, <1>15, <2>2, <3>1, <3>2, <3>3
    <3>5. a # nx[s[p]]
      <4>1. p # n => p + 1 \in 1 .. n
        BY <1>2
      <4> QED
        BY <1>8, <3>4, <4>1, CellType
    <3> QED
      BY <1>4, <1>7, <2>2, <3>4, <3>5
  <2> QED
    BY <2>1, <2>2
<1>16. h = t[1] /\ n - 1 \in 1 .. MaxCells
  <2>1. 1 \in 1 .. p - 1
    BY <1>2
  <2> QED
    BY <1>1, <1>2, <1>3, <1>4, <2>1
<1>17. Linked(n - 1, t, h, X, P, C)
  BY <1>3, <1>6, <1>12, <1>13, <1>14, <1>15, <1>16 DEF Linked
<1> QED
  BY <1>17 DEF t, X, P, C

(* What the first cell holds is nobody else's matter.                     *)
LEMMA LinkFirst ==
    ASSUME NEW n, NEW s, NEW h, NEW nx, NEW pv, NEW c,
           Linked(n, s, h, nx, pv, c), NEW x \in Chars \cup {Nul}
    PROVE  Linked(n, s, h, nx, pv, [c EXCEPT ![s[1]] = x])
<1>1. /\ n \in Nat /\ 1 \in 1 .. n /\ c \in Marks
      /\ \A i, j \in 1 .. n : s[i] = s[j] => i = j
      /\ \A i \in 1 .. n : s[i] \in Cells
  BY LinkedIs
<1> DEFINE C == [c EXCEPT ![s[1]] = x]
<1>2. C \in Marks /\ \A q \in Cells : C[q] = IF q = s[1] THEN x ELSE c[q]
  BY <1>1 DEF Marks
<1> HIDE DEF C
<1>3. \A i \in 2 .. n : i \in 1 .. n /\ i # 1
  BY <1>1
<1>4. \A i \in 2 .. n : C[s[i]] # Nul
  BY <1>1, <1>2, <1>3 DEF Linked
<1>5. \A b \in Cells :
        (\A i \in 1 .. n : s[i] # b) => pv[b] = Nil /\ C[b] = Nul
  BY <1>1, <1>2 DEF Linked
<1>6. Linked(n, s, h, nx, pv, C)
  BY <1>2, <1>4, <1>5 DEF Linked
<1> QED
  BY <1>6 DEF C

-------------------------------------------------------------------------
(* What Walk, Live and Fresh find.                                        *)

(* A set of numbers has a least one, since < is well founded.             *)
LEMMA LeastNumber ==
    ASSUME NEW T \in SUBSET Nat, T # {}
    PROVE  \E x \in T : \A y \in T : x <= y
<1> DEFINE R == OpToRel(<, Nat)
<1>1. PICK x \in T : \A y \in T : <<y, x>> \notin R
  <2>1. IsWellFoundedOn(R, Nat)
    BY NatLessThanWellFounded
  <2> HIDE DEF R
  <2> QED
    BY <2>1, WFMin
<1>2. ASSUME NEW y \in T, y < x PROVE FALSE
  <2>1. <<y, x>> \in Nat \X Nat
    OBVIOUS
  <2>2. <<y, x>>[1] < <<y, x>>[2]
    BY <1>2
  <2>3. <<y, x>> \in R
    BY <2>1, <2>2 DEF OpToRel
  <2> QED
    BY <2>3, <1>1
<1> HIDE DEF R
<1>3. \A y \in T : x <= y
  BY <1>2
<1> QED
  BY <1>3

(* Two functions that agree at 0 and, where they agree at a number, at    *)
(* the next one as well, agree up to any number.                          *)
LEMMA SameUpTo ==
    ASSUME NEW N \in Nat, NEW f, NEW g, f[0] = g[0],
           \A k \in 1 .. N : f[k - 1] = g[k - 1] => f[k] = g[k]
    PROVE  \A k \in 0 .. N : f[k] = g[k]
<1> DEFINE T == {k \in 0 .. N : f[k] # g[k]}
<1>1. ASSUME T # {} PROVE FALSE
  <2>1. T \in SUBSET Nat
    OBVIOUS
  <2>2. \A k : k \in T <=> k \in 0 .. N /\ f[k] # g[k]
    OBVIOUS
  <2> HIDE DEF T
  <2>3. PICK x \in T : \A y \in T : x <= y
    BY <1>1, <2>1, LeastNumber
  <2>4. x \in 1 .. N /\ x - 1 \in 0 .. N /\ ~(x <= x - 1)
    BY <2>2
  <2>5. f[x - 1] = g[x - 1]
    BY <2>2, <2>3, <2>4
  <2> QED
    BY <2>2, <2>4, <2>5
<1> QED
  BY <1>1

(* The two steps of Walk and Concat, and the functions that take them.    *)
WalkStep(f, k) ==
    IF k = 0 THEN head ELSE IF f[k - 1] = Nil THEN Nil ELSE nxt[f[k - 1]]
IsWalk(f) == f = [k \in 0 .. MaxCells |-> WalkStep(f, k)]

(* Walk is such a function.                                               *)
LEMMA WalkDef == Walk = CHOOSE f : IsWalk(f)
  BY DEF Walk, IsWalk, WalkStep

(* Walk visits the cells of the chain in their order, and then nothing.   *)
LEMMA WalkIs ==
    ASSUME NEW n, NEW s, Linked(n, s, head, nxt, prv, ch)
    PROVE  \A k \in 0 .. MaxCells : Walk[k] = IF k < n THEN s[k + 1] ELSE Nil
<1> DEFINE g == [k \in 0 .. MaxCells |-> IF k < n THEN s[k + 1] ELSE Nil]
<1>1. /\ n \in Nat /\ n >= 1 /\ MaxCells \in Nat
      /\ \A i \in 1 .. n : s[i] \in Cells /\ s[i] # Nil
  BY LinkedIs, CellType
<1>2. head = s[1] /\ \A i \in 1 .. n :
                        nxt[s[i]] = IF i = n THEN Nil ELSE s[i + 1]
  BY DEF Linked
<1>3. \A k \in 0 .. MaxCells : g[k] = IF k < n THEN s[k + 1] ELSE Nil
  OBVIOUS
<1>4. g[0] = head
  <2>1. 0 \in 0 .. MaxCells /\ 0 + 1 = 1 /\ 0 < n
    BY <1>1
  <2> QED
    BY <1>2, <1>3, <2>1
<1> HIDE DEF g
<1>5. ASSUME NEW k \in 1 .. MaxCells, NEW f, f[k - 1] = g[k - 1]
      PROVE  WalkStep(f, k) = g[k]
  <2>1. k \in 0 .. MaxCells /\ k - 1 \in 0 .. MaxCells /\ k # 0
        /\ (k - 1) + 1 = k
    BY <1>1
  <2>2. g[k - 1] = IF k - 1 < n THEN s[k] ELSE Nil
    BY <1>3, <2>1
  <2>3. CASE k - 1 < n
    <3>1. k \in 1 .. n /\ (k = n <=> ~(k < n))
      BY <1>1, <2>1, <2>3
    <3>2. f[k - 1] = s[k] /\ s[k] # Nil
      BY <1>1, <1>5, <2>2, <2>3, <3>1
    <3>3. WalkStep(f, k) = nxt[s[k]]
      BY <2>1, <3>2 DEF WalkStep
    <3> QED
      BY <1>2, <1>3, <2>1, <3>1, <3>3
  <2>4. CASE ~(k - 1 < n)
    <3>1. ~(k < n)
      BY <1>1, <2>1, <2>4
    <3> QED
      BY <1>3, <1>5, <2>1, <2>2, <2>4, <3>1 DEF WalkStep
  <2> QED
    BY <2>3, <2>4
<1>6. IsWalk(g)
  <2>1. \A k \in 0 .. MaxCells : WalkStep(g, k) = g[k]
    <3> TAKE k \in 0 .. MaxCells
    <3>1. CASE k = 0
      BY <1>4, <3>1 DEF WalkStep
    <3>2. CASE k # 0
      <4>1. k \in 1 .. MaxCells
        BY <1>1, <3>2
      <4> QED
        BY <1>5, <4>1
    <3> QED
      BY <3>1, <3>2
  <2>2. g = [k \in 0 .. MaxCells |-> g[k]]
    BY DEF g
  <2> QED
    BY <2>1, <2>2 DEF IsWalk
<1>7. IsWalk(Walk)
  BY <1>6, WalkDef, Zenon
<1>8. \A k \in 0 .. MaxCells : Walk[k] = WalkStep(Walk, k)
  <2> DEFINE w == Walk
  <2>1. w = [k \in 0 .. MaxCells |-> WalkStep(w, k)]
    BY <1>7 DEF IsWalk
  <2> HIDE DEF w
  <2>2. \A k \in 0 .. MaxCells : w[k] = WalkStep(w, k)
    BY <2>1, Zenon
  <2> QED
    BY <2>2 DEF w
<1>9. Walk[0] = g[0]
  <2>1. 0 \in 0 .. MaxCells
    BY <1>1
  <2> QED
    BY <1>4, <1>8, <2>1 DEF WalkStep
<1>10. \A k \in 1 .. MaxCells : Walk[k - 1] = g[k - 1] => Walk[k] = g[k]
  <2> TAKE k \in 1 .. MaxCells
  <2>1. k \in 0 .. MaxCells
    BY <1>1
  <2> QED
    BY <1>5, <1>8, <2>1
<1>11. \A k \in 0 .. MaxCells : Walk[k] = g[k]
  BY <1>1, <1>9, <1>10, SameUpTo
<1> QED
  BY <1>3, <1>11

(* The cells in use are those of the chain.                               *)
LEMMA LiveIs ==
    ASSUME NEW n, NEW s, Linked(n, s, head, nxt, prv, ch)
    PROVE  /\ \A c : c \in Live <=> \E i \in 1 .. n : s[i] = c
           /\ Live \subseteq Cells /\ Cardinality(Live) = n
<1>1. /\ n \in Nat /\ n \in 1 .. MaxCells /\ MaxCells \in Nat
      /\ s \in [1 .. n -> Cells]
      /\ \A i, j \in 1 .. n : s[i] = s[j] => i = j
      /\ \A i \in 1 .. n : s[i] \in Cells /\ s[i] # Nil
  BY LinkedIs, CellType
<1>2. \A k \in 0 .. MaxCells : Walk[k] = IF k < n THEN s[k + 1] ELSE Nil
  BY WalkIs
<1>3. \A c : c \in Live <=> c # Nil /\ \E k \in 0 .. MaxCells : Walk[k] = c
  BY DEF Live
<1>4. \A i \in 1 .. n : Walk[i - 1] = s[i] /\ i - 1 \in 0 .. MaxCells
  <2> TAKE i \in 1 .. n
  <2>1. i - 1 \in 0 .. MaxCells /\ i - 1 < n /\ (i - 1) + 1 = i
    BY <1>1
  <2> QED
    BY <1>2, <2>1
<1>5. \A k \in 0 .. MaxCells : k < n => k + 1 \in 1 .. n
  BY <1>1
<1>6. \A c : c \in Live <=> \E i \in 1 .. n : s[i] = c
  <2> TAKE c
  <2>1. ASSUME c \in Live PROVE \E i \in 1 .. n : s[i] = c
    <3>1. PICK k \in 0 .. MaxCells : Walk[k] = c /\ c # Nil
      BY <1>3, <2>1
    <3>2. k < n /\ s[k + 1] = c
      BY <1>2, <3>1
    <3> QED
      BY <1>5, <3>2
  <2>2. ASSUME NEW i \in 1 .. n, s[i] = c PROVE c \in Live
    BY <1>1, <1>3, <1>4, <2>2
  <2> QED
    BY <2>1, <2>2
<1>7. Live \subseteq Cells
  BY <1>1, <1>6
<1> HIDE DEF Live
<1>8. s \in Bijection(1 .. n, Live)
  <2>1. s \in [1 .. n -> Live]
    BY <1>1, <1>6
  <2>2. s \in Injection(1 .. n, Live)
    BY <1>1, <2>1 DEF Injection, IsInjective
  <2>3. s \in Surjection(1 .. n, Live)
    BY <1>6, <2>1 DEF Surjection
  <2> QED
    BY <2>2, <2>3 DEF Bijection
<1>9. IsFiniteSet(1 .. n) /\ Cardinality(1 .. n) = n
  <2>1. /\ IsFiniteSet(1 .. n)
        /\ Cardinality(1 .. n) = IF 1 > n THEN 0 ELSE n - 1 + 1
    BY <1>1, FS_Interval
  <2> QED
    BY <1>1, <2>1
<1>10. ExistsBijection(1 .. n, Live)
  BY <1>8 DEF ExistsBijection
<1>11. Cardinality(Live) = n
  BY <1>9, <1>10, FS_Bijection
<1> QED
  BY <1>6, <1>7, <1>11

(* my_memalloc gives a cell off the chain while one is left.              *)
LEMMA FreshIs ==
    ASSUME NEW n, NEW s, Linked(n, s, head, nxt, prv, ch), n < MaxCells
    PROVE  Fresh \in Cells /\ \A i \in 1 .. n : s[i] # Fresh
<1>1. /\ \A c : c \in Live <=> \E i \in 1 .. n : s[i] = c
      /\ Live \subseteq Cells /\ Cardinality(Live) = n
  BY LiveIs
<1>2. IsFiniteSet(Cells) /\ Cardinality(Cells) = MaxCells
  <2>1. MaxCells \in Nat /\ MaxCells >= 1
    BY CellType
  <2>2. IsFiniteSet(1 .. MaxCells) /\ Cardinality(1 .. MaxCells)
            = IF 1 > MaxCells THEN 0 ELSE MaxCells - 1 + 1
    BY <2>1, FS_Interval
  <2> QED
    BY <2>1, <2>2 DEF Cells
<1>3. Live # Cells
  <2>1. n # MaxCells
    BY LinkedIs, CellType
  <2> QED
    BY <1>1, <1>2, <2>1
<1> DEFINE free == Cells \ Live
<1>4. free # {} /\ free \in SUBSET Nat
  <2>1. free # {}
    BY <1>1, <1>3
  <2>2. Cells \in SUBSET Nat
    BY CellType DEF Cells
  <2> QED
    BY <2>1, <2>2
<1> HIDE DEF free
<1>5. \E c \in free : \A d \in free : c <= d
  BY <1>4, LeastNumber
<1>6. Fresh = CHOOSE c \in free : \A d \in free : c <= d
  BY DEF Fresh, free
<1>7. Fresh \in free
  BY <1>5, <1>6
<1>8. Fresh \in Cells /\ Fresh \notin Live
  BY <1>7 DEF free
<1> QED
  BY <1>1, <1>8

-------------------------------------------------------------------------
(* The row of the screen.                                                 *)

Glyphs == Chars \cup {" ", "^", "c"}
Rows == [1 .. Width -> Glyphs]

(* What a prompt is written over is a row.                                *)
LEMMA LeftoversAre == \A r \in Leftovers : r \in Rows
  BY LeftoverAssumption DEF Rows, Glyphs

(* The row is wider than any line.                                        *)
LEMMA WidthIs == Width \in Nat /\ Width >= MaxCells + 4 /\ Width >= 5
  BY CellType DEF Width

(* The row the output of a command ends on is one, too.                   *)
LEMMA OtherRowIs ==
    ASSUME OtherRow
    PROVE  row' \in Rows /\ col' \in 0 .. Width - 1
<1>1. 0 \in 0 .. Width - 1
  BY WidthIs
<1> QED
  BY <1>1, LeftoversAre DEF OtherRow

(* A part of a row, and one put behind another.                           *)
LEMMA PartIs ==
    ASSUME NEW S, NEW W \in Nat, NEW r \in [1 .. W -> S],
           NEW m \in 1 .. W + 1, NEW k \in m - 1 .. W
    PROVE  /\ SubSeq(r, m, k) \in Seq(S) /\ Len(SubSeq(r, m, k)) = k - m + 1
           /\ \A i \in 1 .. k - m + 1 : SubSeq(r, m, k)[i] = r[m + i - 1]
<1>1. \A i \in m .. k : r[i] \in S
  OBVIOUS
<1>2. m \in Int /\ k \in Int
  OBVIOUS
<1>3. /\ SubSeq(r, m, k) \in Seq(S)
      /\ Len(SubSeq(r, m, k)) = IF m <= k THEN k - m + 1 ELSE 0
      /\ \A i \in 1 .. k - m + 1 : SubSeq(r, m, k)[i] = r[m + i - 1]
  BY <1>1, <1>2, SubSeqProperties
<1> QED
  BY <1>3

(* A sequence as long as the row is one.                                  *)
LEMMA RowSeq ==
    ASSUME NEW S, NEW s \in Seq(S), NEW W \in Nat, Len(s) = W
    PROVE  s \in [1 .. W -> S]
  OBVIOUS

(* waddch overwrites what is at the cursor.                               *)
LEMMA PutIs ==
    ASSUME row \in Rows, col \in 0 .. Width - 1, NEW x \in Glyphs, Put(x)
    PROVE  /\ row' \in Rows /\ col' \in 0 .. Width - 1
           /\ col + 1 < Width => col' = col + 1
           /\ \A k \in 1 .. Width :
                 row'[k] = IF k = col + 1 THEN x ELSE row[k]
<1>1. Width \in Nat
  BY WidthIs
<1>2. row' = [row EXCEPT ![col + 1] = x] /\ Move(col + 1)
  BY DEF Put
<1>3. /\ col' \in 0 .. Width - 1
      /\ col + 1 < Width => col' = col + 1
  BY <1>1, <1>2 DEF Move
<1> QED
  BY <1>1, <1>2, <1>3 DEF Rows

(* winsch moves what follows to the right.                                *)
LEMMA SqueezeIs ==
    ASSUME row \in Rows, col \in 0 .. Width - 1, NEW x \in Glyphs, Squeeze(x)
    PROVE  /\ row' \in Rows /\ col' \in 0 .. Width - 1
           /\ col + 1 < Width => col' = col + 1
           /\ \A k \in 1 .. Width :
                 row'[k] = IF k <= col THEN row[k]
                           ELSE IF k = col + 1 THEN x ELSE row[k - 1]
<1> DEFINE a == SubSeq(row, 1, col)
           b == SubSeq(row, col + 1, Width - 1)
           e == <<x>>
           ae == a \o e
<1>1. Width \in Nat /\ Width >= 5
  BY WidthIs
<1>2. row' = ae \o b /\ Move(col + 1)
  BY DEF Squeeze
<1>3. /\ col' \in 0 .. Width - 1
      /\ col + 1 < Width => col' = col + 1
  BY <1>1, <1>2 DEF Move
<1>4. /\ a \in Seq(Glyphs) /\ Len(a) = col
      /\ \A i \in 1 .. col : a[i] = row[i]
  <2>1. 1 \in 1 .. Width + 1 /\ col \in 1 - 1 .. Width /\ col - 1 + 1 = col
        /\ \A i \in 1 .. col : 1 + i - 1 = i
    BY <1>1
  <2> QED
    BY <1>1, <2>1, PartIs DEF Rows
<1>5. /\ b \in Seq(Glyphs) /\ Len(b) = Width - 1 - col
      /\ \A i \in 1 .. Width - 1 - col : b[i] = row[col + i]
  <2>1. /\ col + 1 \in 1 .. Width + 1 /\ Width - 1 \in (col + 1) - 1 .. Width
        /\ (Width - 1) - (col + 1) + 1 = Width - 1 - col
        /\ \A i \in 1 .. Width - 1 - col : (col + 1) + i - 1 = col + i
    BY <1>1
  <2> QED
    BY <1>1, <2>1, PartIs DEF Rows
<1>6. e \in Seq(Glyphs) /\ Len(e) = 1 /\ e[1] = x
  OBVIOUS
<1> HIDE DEF a, b, e
<1>7. /\ ae \in Seq(Glyphs) /\ Len(ae) = col + 1
      /\ \A i \in 1 .. col + 1 : ae[i] = IF i <= col THEN a[i] ELSE e[i - col]
  <2>1. /\ a \o e \in Seq(Glyphs) /\ Len(a \o e) = Len(a) + Len(e)
        /\ \A i \in 1 .. Len(a) + Len(e) :
              (a \o e)[i] = IF i <= Len(a) THEN a[i] ELSE e[i - Len(a)]
    BY <1>4, <1>6, ConcatProperties
  <2> QED
    BY <1>4, <1>6, <2>1
<1> HIDE DEF ae
<1>8. /\ ae \o b \in Seq(Glyphs)
      /\ Len(ae \o b) = (col + 1) + (Width - 1 - col)
      /\ \A i \in 1 .. (col + 1) + (Width - 1 - col) :
            (ae \o b)[i] = IF i <= col + 1 THEN ae[i] ELSE b[i - (col + 1)]
  <2>1. /\ ae \o b \in Seq(Glyphs) /\ Len(ae \o b) = Len(ae) + Len(b)
        /\ \A i \in 1 .. Len(ae) + Len(b) :
              (ae \o b)[i] = IF i <= Len(ae) THEN ae[i] ELSE b[i - Len(ae)]
    BY <1>5, <1>7, ConcatProperties
  <2> QED
    BY <1>5, <1>7, <2>1
<1>9. (col + 1) + (Width - 1 - col) = Width
  BY <1>1
<1>10. row' \in Rows
  BY <1>1, <1>2, <1>8, <1>9, RowSeq DEF Rows
<1>11. ASSUME NEW k \in 1 .. Width
       PROVE  row'[k] = IF k <= col THEN row[k]
                        ELSE IF k = col + 1 THEN x ELSE row[k - 1]
  <2>1. row'[k] = IF k <= col + 1 THEN ae[k] ELSE b[k - (col + 1)]
    BY <1>2, <1>8, <1>9
  <2>2. CASE k <= col
    <3>1. k \in 1 .. col /\ k \in 1 .. col + 1 /\ k <= col + 1
      BY <1>1, <2>2
    <3> QED
      BY <1>4, <1>7, <2>1, <2>2, <3>1
  <2>3. CASE k = col + 1
    <3>1. k \in 1 .. col + 1 /\ k <= col + 1 /\ ~(k <= col) /\ k - col = 1
      BY <1>1, <2>3
    <3> QED
      BY <1>6, <1>7, <2>1, <2>3, <3>1
  <2>4. CASE ~(k <= col) /\ k # col + 1
    <3>1. /\ ~(k <= col + 1) /\ k - (col + 1) \in 1 .. Width - 1 - col
          /\ col + (k - (col + 1)) = k - 1
      BY <1>1, <2>4
    <3> QED
      BY <1>5, <2>1, <2>4, <3>1
  <2> QED
    BY <2>2, <2>3, <2>4
<1> QED
  BY <1>3, <1>10, <1>11

(* mvwdelch pulls what follows to the left.                               *)
LEMMA PullIs ==
    ASSUME row \in Rows, col \in 1 .. Width - 1, Pull
    PROVE  /\ row' \in Rows /\ col' = col - 1
           /\ \A k \in 1 .. Width :
                 row'[k] = IF k < col THEN row[k]
                           ELSE IF k = Width THEN " " ELSE row[k + 1]
<1> DEFINE a == SubSeq(row, 1, col - 1)
           b == SubSeq(row, col + 1, Width)
           e == <<" ">>
           ab == a \o b
<1>1. Width \in Nat /\ Width >= 5
  BY WidthIs
<1>2. row' = ab \o e /\ Move(col - 1)
  BY DEF Pull
<1>3. col' = col - 1
  <2>1. col - 1 \in 0 .. Width - 1
    BY <1>1
  <2> QED
    BY <1>2, <2>1 DEF Move
<1>4. /\ a \in Seq(Glyphs) /\ Len(a) = col - 1
      /\ \A i \in 1 .. col - 1 : a[i] = row[i]
  <2>1. 1 \in 1 .. Width + 1 /\ col - 1 \in 1 - 1 .. Width
        /\ (col - 1) - 1 + 1 = col - 1
        /\ \A i \in 1 .. col - 1 : 1 + i - 1 = i
    BY <1>1
  <2> QED
    BY <1>1, <2>1, PartIs DEF Rows
<1>5. /\ b \in Seq(Glyphs) /\ Len(b) = Width - col
      /\ \A i \in 1 .. Width - col : b[i] = row[col + i]
  <2>1. /\ col + 1 \in 1 .. Width + 1 /\ Width \in (col + 1) - 1 .. Width
        /\ Width - (col + 1) + 1 = Width - col
        /\ \A i \in 1 .. Width - col : (col + 1) + i - 1 = col + i
    BY <1>1
  <2> QED
    BY <1>1, <2>1, PartIs DEF Rows
<1>6. e \in Seq(Glyphs) /\ Len(e) = 1 /\ e[1] = " "
  BY DEF Glyphs
<1> HIDE DEF a, b, e
<1>7. /\ ab \in Seq(Glyphs) /\ Len(ab) = (col - 1) + (Width - col)
      /\ \A i \in 1 .. (col - 1) + (Width - col) :
            ab[i] = IF i <= col - 1 THEN a[i] ELSE b[i - (col - 1)]
  <2>1. /\ a \o b \in Seq(Glyphs) /\ Len(a \o b) = Len(a) + Len(b)
        /\ \A i \in 1 .. Len(a) + Len(b) :
              (a \o b)[i] = IF i <= Len(a) THEN a[i] ELSE b[i - Len(a)]
    BY <1>4, <1>5, ConcatProperties
  <2> QED
    BY <1>4, <1>5, <2>1
<1>8. (col - 1) + (Width - col) = Width - 1 /\ (Width - 1) + 1 = Width
  BY <1>1
<1> HIDE DEF ab
<1>9. /\ ab \o e \in Seq(Glyphs) /\ Len(ab \o e) = Width
      /\ \A i \in 1 .. Width :
            (ab \o e)[i] = IF i <= Width - 1 THEN ab[i] ELSE e[i - (Width - 1)]
  <2>1. /\ ab \o e \in Seq(Glyphs) /\ Len(ab \o e) = Len(ab) + Len(e)
        /\ \A i \in 1 .. Len(ab) + Len(e) :
              (ab \o e)[i] = IF i <= Len(ab) THEN ab[i] ELSE e[i - Len(ab)]
    BY <1>6, <1>7, ConcatProperties
  <2> QED
    BY <1>6, <1>7, <1>8, <2>1
<1>10. row' \in Rows
  BY <1>1, <1>2, <1>9, RowSeq DEF Rows
<1>11. ASSUME NEW k \in 1 .. Width
       PROVE  row'[k] = IF k < col THEN row[k]
                        ELSE IF k = Width THEN " " ELSE row[k + 1]
  <2>1. row'[k] = IF k <= Width - 1 THEN ab[k] ELSE e[k - (Width - 1)]
    BY <1>2, <1>9
  <2>2. CASE k < col
    <3>1. k \in 1 .. col - 1 /\ k <= Width - 1 /\ k <= col - 1
          /\ k \in 1 .. (col - 1) + (Width - col)
      BY <1>1, <1>8, <2>2
    <3> QED
      BY <1>4, <1>7, <2>1, <2>2, <3>1
  <2>3. CASE k = Width
    <3>1. ~(k <= Width - 1) /\ ~(k < col) /\ k - (Width - 1) = 1
      BY <1>1, <2>3
    <3> QED
      BY <1>6, <2>1, <2>3, <3>1
  <2>4. CASE ~(k < col) /\ k # Width
    <3>1. /\ k <= Width - 1 /\ ~(k <= col - 1)
          /\ k \in 1 .. (col - 1) + (Width - col)
          /\ k - (col - 1) \in 1 .. Width - col
          /\ col + (k - (col - 1)) = k + 1
      BY <1>1, <1>8, <2>4
    <3> QED
      BY <1>5, <1>7, <2>1, <2>4, <3>1
  <2> QED
    BY <2>2, <2>3, <2>4
<1> QED
  BY <1>3, <1>10, <1>11

-------------------------------------------------------------------------
(* What each edit keeps.                                                  *)

(* The row has the characters of the chain from its left end on, and only *)
(* those if it was blank.                                                 *)
Shows(blank, n, s, c, r) ==
    \A x \in 1 .. Width :
        r[x] = IF x <= n - Blank(s, c) THEN c[s[x + Blank(s, c)]]
               ELSE IF blank THEN " " ELSE r[x]

(* After a step the cells are a chain again with the cursor on it, d more *)
(* characters at most, and if the screen was right before, it is again.   *)
Keeps(n, s, p, d) ==
    \E m, t, q :
        /\ Linked(m, t, head', nxt', prv', ch')
        /\ q \in 1 .. m /\ cur' = t[q]
        /\ m - Blank(t, ch') <= (n - Blank(s, ch)) + d
        /\ col + Blank(s, ch) = p =>
              /\ col' + Blank(t, ch') = q
              /\ Shows(clean, n, s, ch, row) => Shows(clean, m, t, ch', row')

(* How the two are shown.                                                 *)
LEMMA ShowsIf ==
    ASSUME NEW n \in Int, NEW s, NEW c, NEW r, NEW blank, NEW o \in {0, 1},
           Blank(s, c) = o,
           \A x \in 1 .. Width :
                r[x] = IF x <= n - o THEN c[s[x + o]]
                       ELSE IF blank THEN " " ELSE r[x]
    PROVE  Shows(blank, n, s, c, r)
<1>1. Width \in Nat
  BY WidthIs
<1>2. \A x \in 1 .. Width :
        r[x] = IF x <= n - Blank(s, c) THEN c[s[x + Blank(s, c)]]
               ELSE IF blank THEN " " ELSE r[x]
  BY <1>1
<1> QED
  BY <1>2 DEF Shows

(* A chain, a cell of it and a row that do.                               *)
LEMMA KeepsIf ==
    ASSUME NEW n, NEW s, NEW p, NEW d, NEW m, NEW t, NEW q,
           Linked(m, t, head', nxt', prv', ch'),
           q \in 1 .. m, cur' = t[q],
           m - Blank(t, ch') <= (n - Blank(s, ch)) + d,
           col + Blank(s, ch) = p =>
              /\ col' + Blank(t, ch') = q
              /\ Shows(clean, n, s, ch, row) => Shows(clean, m, t, ch', row')
    PROVE  Keeps(n, s, p, d)
  BY DEF Keeps

(* The cursor is on the p-th cell of the chain, and the row is a row.     *)
Editing(n, s, p) ==
    /\ Linked(n, s, head, nxt, prv, ch)
    /\ p \in 1 .. n /\ cur = s[p]
    /\ row \in Rows /\ col \in 0 .. Width - 1

(* The parts of it.                                                       *)
LEMMA EditingIs ==
    ASSUME NEW n, NEW s, NEW p, Editing(n, s, p)
    PROVE  /\ n \in 1 .. MaxCells /\ n \in Nat /\ 1 \in 1 .. n /\ n <= MaxCells
           /\ s \in [1 .. n -> Cells] /\ ch \in Marks
           /\ nxt \in Links /\ prv \in Links
           /\ \A i, j \in 1 .. n : s[i] = s[j] => i = j
           /\ \A i \in 1 .. n : s[i] \in Cells /\ s[i] # Nil
           /\ p \in 1 .. n /\ cur = s[p] /\ head = s[1]
           /\ nxt[cur] = (IF p = n THEN Nil ELSE s[p + 1])
           /\ prv[cur] = (IF p = 1 THEN Nil ELSE s[p - 1])
           /\ p # 1 => ch[cur] # Nul
           /\ Blank(s, ch) \in {0, 1}
           /\ row \in Rows /\ col \in 0 .. Width - 1
<1>1. /\ Linked(n, s, head, nxt, prv, ch)
      /\ p \in 1 .. n /\ cur = s[p]
      /\ row \in Rows /\ col \in 0 .. Width - 1
  BY DEF Editing
<1>2. /\ n \in 1 .. MaxCells /\ n \in Nat /\ 1 \in 1 .. n
      /\ s \in [1 .. n -> Cells] /\ ch \in Marks
      /\ nxt \in Links /\ prv \in Links
      /\ \A i, j \in 1 .. n : s[i] = s[j] => i = j
      /\ \A i \in 1 .. n : s[i] \in Cells /\ s[i] # Nil
  BY <1>1, LinkedIs
<1>3. /\ head = s[1]
      /\ \A i \in 1 .. n : nxt[s[i]] = IF i = n THEN Nil ELSE s[i + 1]
      /\ \A i \in 1 .. n : prv[s[i]] = IF i = 1 THEN Nil ELSE s[i - 1]
      /\ \A i \in 2 .. n : ch[s[i]] # Nul
  BY <1>1 DEF Linked
<1>4. p # 1 => p \in 2 .. n
  BY <1>1, <1>2
<1>5. n <= MaxCells
  BY <1>2, CellType
<1>6. Blank(s, ch) \in {0, 1}
  BY DEF Blank
<1> QED
  BY <1>1, <1>2, <1>3, <1>4, <1>5, <1>6

(* add_char puts the character behind those before the cursor.            *)
LEMMA AddCharKeeps ==
    ASSUME NEW n, NEW s, NEW p, Editing(n, s, p),
           n - Blank(s, ch) <= MaxCells - 2, NEW x \in Chars, AddChar(x)
    PROVE  /\ Keeps(n, s, p, 1)
           /\ row' \in Rows /\ col' \in 0 .. Width - 1
<1> DEFINE o == Blank(s, ch)
<1>1. /\ n \in 1 .. MaxCells /\ n \in Nat /\ 1 \in 1 .. n /\ n <= MaxCells
      /\ s \in [1 .. n -> Cells] /\ ch \in Marks
      /\ nxt \in Links /\ prv \in Links
      /\ \A i, j \in 1 .. n : s[i] = s[j] => i = j
      /\ \A i \in 1 .. n : s[i] \in Cells /\ s[i] # Nil
      /\ p \in 1 .. n /\ cur = s[p] /\ head = s[1]
      /\ nxt[cur] = (IF p = n THEN Nil ELSE s[p + 1])
      /\ p # 1 => ch[cur] # Nul
      /\ o \in {0, 1}
      /\ row \in Rows /\ col \in 0 .. Width - 1
  BY EditingIs
<1>2. Linked(n, s, head, nxt, prv, ch)
  BY DEF Editing
<1>3. /\ Width \in Nat /\ Width >= MaxCells + 4 /\ Width >= 5
      /\ MaxCells \in Nat
  BY WidthIs, CellType
<1>4. x \in Glyphs /\ x # Nul
  BY CellType DEF Glyphs
<1>5. nxt[cur] # Nil <=> p # n
  <2>1. p # n => p + 1 \in 1 .. n
    BY <1>1
  <2> QED
    BY <1>1, <2>1
(* The row, by winsch before another cell and by waddch at the end.       *)
<1>6. /\ row' \in Rows /\ col' \in 0 .. Width - 1
      /\ col + 1 < Width => col' = col + 1
      /\ p # n => \A k \in 1 .. Width :
                    row'[k] = IF k <= col THEN row[k]
                              ELSE IF k = col + 1 THEN x ELSE row[k - 1]
      /\ p = n => \A k \in 1 .. Width :
                    row'[k] = IF k = col + 1 THEN x ELSE row[k]
  <2>1. CASE p # n
    <3>1. Squeeze(x)
      BY <1>5, <2>1 DEF AddChar
    <3> QED
      BY <1>1, <1>4, <2>1, <3>1, SqueezeIs
  <2>2. CASE p = n
    <3>1. Put(x)
      BY <1>5, <2>2 DEF AddChar
    <3> QED
      BY <1>1, <1>4, <2>2, <3>1, PutIs
  <2> QED
    BY <2>1, <2>2
<1>7. head' = head
  BY DEF AddChar
<1>8. ASSUME ch[cur] = Nul PROVE Keeps(n, s, p, 1)
  <2>1. /\ ch' = [ch EXCEPT ![s[1]] = x] /\ cur' = cur /\ nxt' = nxt
        /\ prv' = prv /\ p = 1 /\ o = 1 /\ cur = s[1]
    BY <1>1, <1>8 DEF AddChar, Blank
  <2>2. Linked(n, s, head', nxt', prv', ch')
    <3>1. x \in Chars \cup {Nul}
      OBVIOUS
    <3> QED
      BY <1>2, <1>7, <2>1, <3>1, LinkFirst
  <2>3. \A i \in 1 .. n : ch'[s[i]] = IF i = 1 THEN x ELSE ch[s[i]]
    BY <1>1, <2>1 DEF Marks
  <2>4. Blank(s, ch') = 0
    BY <1>1, <1>4, <2>3 DEF Blank
  <2>5. ASSUME col + o = p
        PROVE  /\ col' + Blank(s, ch') = 1
               /\ Shows(clean, n, s, ch, row) => Shows(clean, n, s, ch', row')
    <3>1. col = 0 /\ col' = 1
      BY <1>1, <1>3, <1>6, <2>1, <2>5
    <3>2. ASSUME Shows(clean, n, s, ch, row), NEW k \in 1 .. Width
          PROVE  row'[k] = IF k <= n THEN ch'[s[k]]
                           ELSE IF clean THEN " " ELSE row'[k]
      <4>1. \A y \in 1 .. Width :
              row[y] = IF y <= n - 1 THEN ch[s[y + 1]]
                       ELSE IF clean THEN " " ELSE row[y]
        BY <2>1, <3>2 DEF Shows
      <4>2. CASE k = 1
        <5>1. row'[k] = x
          BY <1>6, <3>1, <4>2
        <5> QED
          BY <1>1, <2>3, <4>2, <5>1
      <4>3. CASE k # 1
        <5>1. k - 1 \in 1 .. Width /\ (k - 1) + 1 = k /\ ~(k <= 0)
              /\ (k - 1 <= n - 1 <=> k <= n) /\ (k <= n => k \in 1 .. n)
          BY <1>1, <1>3, <4>3
        <5>2. CASE p # n
          <6>1. row'[k] = row[k - 1]
            BY <1>6, <3>1, <4>3, <5>1, <5>2
          <6> QED
            BY <2>3, <4>1, <4>3, <5>1, <6>1
        <5>3. CASE p = n
          <6>1. row'[k] = row[k] /\ ~(k <= n) /\ ~(k <= n - 1)
            BY <1>1, <1>6, <2>1, <3>1, <4>3, <5>3
          <6> QED
            BY <4>1, <6>1
        <5> QED
          BY <5>2, <5>3
      <4> QED
        BY <4>2, <4>3
    <3>3. n - 0 = n /\ \A k \in 1 .. Width : k + 0 = k
      BY <1>1
    <3>4. Shows(clean, n, s, ch, row) => Shows(clean, n, s, ch', row')
      BY <2>4, <3>2, <3>3 DEF Shows
    <3> QED
      BY <2>4, <3>1, <3>4
  <2>6. n - Blank(s, ch') <= (n - o) + 1
    BY <1>1, <2>1, <2>4
  <2> QED
    BY <1>1, <2>1, <2>2, <2>5, <2>6 DEF Keeps
<1>9. ASSUME ch[cur] # Nul PROVE Keeps(n, s, p, 1)
  <2>1. n + 1 \in 1 .. MaxCells /\ n < MaxCells
    BY <1>1, <1>3
  <2>2. PICK b \in Cells : b = Fresh /\ \A i \in 1 .. n : s[i] # b
    BY <1>2, <2>1, FreshIs
  <2> DEFINE t == Inserted(n, s, p, b)
  <2>3. /\ cur' = b
        /\ nxt' = [nxt EXCEPT ![s[p]] = b, ![b] = nxt[s[p]]]
        /\ prv' = [q \in Cells |-> IF q = b THEN s[p]
                                   ELSE IF q = nxt[s[p]] THEN b ELSE prv[q]]
        /\ ch' = [ch EXCEPT ![b] = x]
    BY <1>1, <1>9, <2>2 DEF AddChar
  <2>4. Linked(n + 1, t, head', nxt', prv', ch')
    <3>1. Linked(n + 1, t, head,
                 [nxt EXCEPT ![s[p]] = b, ![b] = nxt[s[p]]],
                 [q \in Cells |-> IF q = b THEN s[p]
                                  ELSE IF q = nxt[s[p]] THEN b ELSE prv[q]],
                 [ch EXCEPT ![b] = x])
      <4>1. n + 1 \in 1 .. MaxCells /\ p \in 1 .. n /\ x \in Chars
        BY <1>1, <2>1
      <4> QED
        BY <1>2, <2>2, <4>1, LinkBehind
    <3> QED
      BY <1>7, <2>3, <3>1, Zenon
  <2>12. \A i \in 1 .. n : s[i] # b
    BY <2>2
  <2>5. /\ t[p + 1] = b
        /\ \A i \in 1 .. p : t[i] = s[i]
        /\ \A i \in p + 1 .. n : t[i + 1] = s[i]
    <3>1. p \in 0 .. n
      BY <1>1
    <3>2. /\ n \in 1 .. MaxCells /\ s \in [1 .. n -> Cells]
          /\ \A i, j \in 1 .. n : s[i] = s[j] => i = j
      BY <1>1
    <3> QED
      BY <2>12, <3>1, <3>2, InsertedIs
  <2>6. ch'[b] = x /\ \A i \in 1 .. n : ch'[s[i]] = ch[s[i]]
    BY <1>1, <2>2, <2>3 DEF Marks
  <2> HIDE DEF t
  <2>7. Blank(t, ch') = o
    <3>1. t[1] = s[1]
      BY <1>1, <2>5
    <3> QED
      BY <1>1, <2>6, <3>1 DEF Blank
  <2> HIDE DEF o
  <2>8. ASSUME col + o = p
        PROVE  /\ col' + o = p + 1
               /\ Shows(clean, n, s, ch, row) => Shows(clean, n + 1, t, ch', row')
    <3>1. col = p - o /\ col + 1 < Width /\ col' = col + 1
      <4>1. col = p - o /\ col + 1 < Width
        BY <1>1, <1>3, <2>8
      <4> QED
        BY <1>6, <4>1
    <3>2. ASSUME Shows(clean, n, s, ch, row), NEW k \in 1 .. Width
          PROVE  row'[k] = IF k <= (n + 1) - o THEN ch'[t[k + o]]
                           ELSE IF clean THEN " " ELSE row'[k]
      <4>1. \A y \in 1 .. Width :
              row[y] = IF y <= n - o THEN ch[s[y + o]]
                       ELSE IF clean THEN " " ELSE row[y]
        BY <3>2 DEF Shows, o
      <4>2. CASE k <= col
        <5>1. /\ k <= n - o /\ k <= (n + 1) - o /\ k + o \in 1 .. p
              /\ k + o \in 1 .. n /\ k # col + 1
          BY <1>1, <3>1, <4>2
        <5>2. row'[k] = row[k]
          BY <1>6, <4>2, <5>1
        <5> QED
          BY <2>5, <2>6, <4>1, <5>1, <5>2
      <4>3. CASE k = col + 1
        <5>1. k <= (n + 1) - o /\ k + o = p + 1 /\ ~(k <= col)
          BY <1>1, <3>1, <4>3
        <5>2. row'[k] = x
          BY <1>6, <4>3, <5>1
        <5> QED
          BY <2>5, <2>6, <5>1, <5>2
      <4>4. CASE ~(k <= col) /\ k # col + 1
        <5> DEFINE j == k - 1
        <5>1. /\ j \in 1 .. Width /\ (j <= n - o <=> k <= (n + 1) - o)
              /\ j + o = (k + o) - 1 /\ (j + o) + 1 = k + o
              /\ (j <= n - o => j + o \in p + 1 .. n /\ j + o \in 1 .. n)
          <6>1. /\ n \in Nat /\ p \in 1 .. n /\ o \in {0, 1}
                /\ Width \in Nat /\ col \in Nat /\ col + o = p
            BY <1>1, <1>3, <2>8
          <6>2. k > col + 1
            BY <4>4, <6>1
          <6>3. j \in 1 .. Width /\ (j <= n - o <=> k <= (n + 1) - o)
            BY <6>1, <6>2
          <6>4. j + o = (k + o) - 1 /\ (j + o) + 1 = k + o /\ j + o >= p + 1
            BY <6>1, <6>2
          <6> QED
            BY <6>1, <6>3, <6>4
        <5>2. row[j] = IF k <= (n + 1) - o THEN ch'[t[k + o]]
                       ELSE IF clean THEN " " ELSE row[j]
          <6>1. row[j] = IF j <= n - o THEN ch[s[j + o]]
                         ELSE IF clean THEN " " ELSE row[j]
            BY <4>1, <5>1
          <6>2. j <= n - o => t[k + o] = s[j + o]
            BY <2>5, <5>1
          <6> QED
            BY <2>6, <5>1, <6>1, <6>2
        <5>3. CASE p # n
          BY <1>6, <4>4, <5>2, <5>3
        <5>4. CASE p = n
          <6>1. ~(k <= (n + 1) - o) /\ ~(k <= n - o) /\ row'[k] = row[k]
            BY <1>1, <1>6, <3>1, <4>4, <5>4
          <6> QED
            BY <4>1, <6>1
        <5> QED
          BY <5>3, <5>4
      <4> QED
        BY <4>2, <4>3, <4>4
    <3>3. Shows(clean, n, s, ch, row) => Shows(clean, n + 1, t, ch', row')
      <4>1. ASSUME Shows(clean, n, s, ch, row) PROVE Shows(clean, n + 1, t, ch', row')
        <5>1. \A k \in 1 .. Width :
                row'[k] = IF k <= (n + 1) - o THEN ch'[t[k + o]]
                          ELSE IF clean THEN " " ELSE row'[k]
          BY <3>2, <4>1
        <5> QED
          <6>1. n + 1 \in Int /\ o \in {0, 1}
            BY <1>1
          <6> QED
            BY <2>7, <5>1, <6>1, ShowsIf
      <4> QED
        BY <4>1
    <3>4. col' + o = p + 1
      BY <1>1, <3>1, <2>8
    <3> QED
      BY <3>3, <3>4
  <2>9. p + 1 \in 1 .. n + 1 /\ (n + 1) - o <= (n - o) + 1
    BY <1>1
  <2>10. cur' = t[p + 1]
    BY <2>3, <2>5
  <2>11. /\ (n + 1) - Blank(t, ch') <= (n - Blank(s, ch)) + 1
         /\ col + Blank(s, ch) = p =>
               /\ col' + Blank(t, ch') = p + 1
               /\ Shows(clean, n, s, ch, row) => Shows(clean, n + 1, t, ch', row')
    BY <2>7, <2>8, <2>9 DEF o
  <2> QED
    BY <2>4, <2>9, <2>10, <2>11, KeepsIf
<1> QED
  BY <1>6, <1>8, <1>9

(* cu_left goes back a cell, or puts a blank one in front.                *)
LEMMA CuLeftKeeps ==
    ASSUME NEW n, NEW s, NEW p, Editing(n, s, p),
           n - Blank(s, ch) <= MaxCells - 1, CuLeft
    PROVE  /\ Keeps(n, s, p, 0)
           /\ row' \in Rows /\ col' \in 0 .. Width - 1
<1> DEFINE o == Blank(s, ch)
<1>1. /\ n \in 1 .. MaxCells /\ n \in Nat /\ 1 \in 1 .. n /\ n <= MaxCells
      /\ \A i, j \in 1 .. n : s[i] = s[j] => i = j
      /\ \A i \in 1 .. n : s[i] \in Cells /\ s[i] # Nil
      /\ s \in [1 .. n -> Cells]
      /\ p \in 1 .. n /\ cur = s[p] /\ head = s[1]
      /\ prv[cur] = (IF p = 1 THEN Nil ELSE s[p - 1])
      /\ o \in {0, 1}
      /\ row \in Rows /\ col \in 0 .. Width - 1
  BY EditingIs
<1>2. Linked(n, s, head, nxt, prv, ch)
  BY DEF Editing
<1>3. Width \in Nat /\ MaxCells \in Nat
  BY WidthIs, CellType
<1>4. ch' = ch /\ row' = row
  BY DEF CuLeft
<1>5. col' \in 0 .. Width - 1
  BY <1>1 DEF CuLeft, Move
<1>6. CASE p # 1
  <2>1. p - 1 \in 1 .. n
    BY <1>1, <1>6
  <2>2. /\ cur' = s[p - 1] /\ Move(col - 1)
        /\ head' = head /\ nxt' = nxt /\ prv' = prv
    BY <1>1, <1>6, <2>1 DEF CuLeft
  <2>3. Linked(n, s, head', nxt', prv', ch')
    BY <1>2, <1>4, <2>2
  <2>4. col + o = p => col' + o = p - 1
    <3>1. col + o = p => col - 1 \in 0 .. Width - 1 /\ (col - 1) + o = p - 1
      BY <1>1, <1>3, <1>6
    <3> QED
      BY <2>2, <3>1 DEF Move
  <2>5. /\ n - Blank(s, ch') <= (n - Blank(s, ch)) + 0
        /\ col + Blank(s, ch) = p =>
              /\ col' + Blank(s, ch') = p - 1
              /\ Shows(clean, n, s, ch, row) => Shows(clean, n, s, ch', row')
    BY <1>1, <1>4, <2>4
  <2>6. Keeps(n, s, p, 0)
    BY <2>1, <2>2, <2>3, <2>5, KeepsIf
  <2> QED
    BY <1>1, <1>4, <1>5, <2>6
<1>7. CASE p = 1 /\ ch[cur] # Nul
  <2>1. o = 0 /\ n + 1 \in 1 .. MaxCells /\ n < MaxCells /\ 0 \in 0 .. n
    <3>1. o = 0
      BY <1>1, <1>7 DEF Blank
    <3> QED
      BY <1>1, <1>3, <3>1
  <2>2. PICK b \in Cells : b = Fresh /\ \A i \in 1 .. n : s[i] # b
    BY <1>2, <2>1, FreshIs
  <2>3. /\ head' = b /\ cur' = b /\ prv' = [prv EXCEPT ![s[1]] = b]
        /\ nxt' = [nxt EXCEPT ![b] = s[1]] /\ Move(col - 1)
    BY <1>1, <1>7, <2>2 DEF CuLeft
  <2> DEFINE t == Inserted(n, s, 0, b)
  <2>4. \A i \in 1 .. n : s[i] # b
    BY <2>2
  <2>5. Linked(n + 1, t, head', nxt', prv', ch') /\ ch[b] = Nul
    <3>1. ch[s[1]] # Nul
      BY <1>1, <1>7
    <3>2. /\ Linked(n + 1, t, b, [nxt EXCEPT ![b] = s[1]],
                    [prv EXCEPT ![s[1]] = b], ch)
          /\ ch[b] = Nul
      BY <1>2, <2>1, <2>4, <3>1, LinkBefore
    <3> QED
      BY <1>4, <2>3, <3>2, Zenon
  <2>6. t[1] = b /\ \A i \in 1 .. n : t[i + 1] = s[i]
    <3>1. /\ t[0 + 1] = b
          /\ \A i \in 0 + 1 .. n : t[i + 1] = s[i]
      BY <1>1, <2>1, <2>4, InsertedIs
    <3> QED
      BY <3>1
  <2> HIDE DEF t
  <2>7. Blank(t, ch') = 1
    BY <1>4, <2>5, <2>6 DEF Blank
  <2>8. ASSUME Shows(clean, n, s, ch, row) PROVE Shows(clean, n + 1, t, ch', row')
    <3>1. \A x \in 1 .. Width : row[x] = IF x <= n THEN ch[s[x]]
                                         ELSE IF clean THEN " " ELSE row[x]
      <4>1. n - 0 = n /\ \A x \in 1 .. Width : x + 0 = x
        BY <1>1, <1>3
      <4> QED
        BY <2>1, <2>8, <4>1 DEF Shows
    <3>2. \A x \in 1 .. Width :
            row'[x] = IF x <= (n + 1) - 1 THEN ch'[t[x + 1]]
                      ELSE IF clean THEN " " ELSE row'[x]
      <4> TAKE x \in 1 .. Width
      <4>1. (x <= (n + 1) - 1 <=> x <= n) /\ (x <= n => x \in 1 .. n)
        BY <1>1, <1>3
      <4> QED
        BY <1>4, <2>6, <3>1, <4>1
    <3>3. n + 1 \in Int /\ 1 \in {0, 1}
      BY <1>1
    <3> QED
      BY <2>7, <3>2, <3>3, ShowsIf
  <2>9. col + o = p => col' + 1 = 1
    <3>1. col + o = p => col - 1 \in 0 .. Width - 1 /\ (col - 1) + 1 = 1
      BY <1>1, <1>3, <1>7, <2>1
    <3> QED
      BY <2>3, <3>1 DEF Move
  <2>10. /\ (n + 1) - Blank(t, ch') <= (n - Blank(s, ch)) + 0
         /\ col + Blank(s, ch) = p =>
               /\ col' + Blank(t, ch') = 1
               /\ Shows(clean, n, s, ch, row) => Shows(clean, n + 1, t, ch', row')
    BY <1>1, <2>1, <2>7, <2>8, <2>9
  <2>11. 1 \in 1 .. n + 1 /\ cur' = t[1]
    BY <1>1, <2>3, <2>6
  <2>12. Keeps(n, s, p, 0)
    BY <2>5, <2>10, <2>11, KeepsIf
  <2> QED
    BY <1>1, <1>4, <1>5, <2>12
<1>8. CASE p = 1 /\ ch[cur] = Nul
  <2>1. UNCHANGED <<head, cur, nxt, prv, col>>
    BY <1>1, <1>8 DEF CuLeft
  <2>2. Linked(n, s, head', nxt', prv', ch') /\ cur' = s[p]
    BY <1>1, <1>2, <1>4, <2>1
  <2>3. /\ n - Blank(s, ch') <= (n - Blank(s, ch)) + 0
        /\ col + Blank(s, ch) = p =>
              /\ col' + Blank(s, ch') = p
              /\ Shows(clean, n, s, ch, row) => Shows(clean, n, s, ch', row')
    BY <1>1, <1>4, <2>1
  <2>4. Keeps(n, s, p, 0)
    BY <1>1, <2>2, <2>3, KeepsIf
  <2> QED
    BY <1>1, <1>4, <1>5, <2>4
<1> QED
  BY <1>6, <1>7, <1>8

(* cu_right goes on to the next cell if there is one.                     *)
LEMMA CuRightKeeps ==
    ASSUME NEW n, NEW s, NEW p, Editing(n, s, p), CuRight
    PROVE  /\ Keeps(n, s, p, 0)
           /\ row' \in Rows /\ col' \in 0 .. Width - 1
<1> DEFINE o == Blank(s, ch)
<1>1. /\ n \in 1 .. MaxCells /\ n \in Nat /\ n <= MaxCells
      /\ \A i \in 1 .. n : s[i] \in Cells /\ s[i] # Nil
      /\ p \in 1 .. n /\ cur = s[p]
      /\ nxt[cur] = (IF p = n THEN Nil ELSE s[p + 1])
      /\ o \in {0, 1}
      /\ row \in Rows /\ col \in 0 .. Width - 1
  BY EditingIs
<1>2. Linked(n, s, head, nxt, prv, ch)
  BY DEF Editing
<1>3. Width \in Nat /\ Width >= MaxCells + 4 /\ MaxCells \in Nat
  BY WidthIs, CellType
<1>4. /\ ch' = ch /\ row' = row /\ head' = head /\ nxt' = nxt /\ prv' = prv
  BY DEF CuRight
<1>5. col' \in 0 .. Width - 1
  BY <1>1 DEF CuRight, Move
<1>6. Linked(n, s, head', nxt', prv', ch')
  BY <1>2, <1>4
<1>7. CASE p # n
  <2>1. p + 1 \in 1 .. n
    BY <1>1, <1>7
  <2>2. cur' = s[p + 1] /\ Move(col + 1)
    BY <1>1, <1>7, <2>1 DEF CuRight
  <2>3. col + o = p => col' + o = p + 1
    <3>1. col + o = p => col + 1 \in 0 .. Width - 1 /\ (col + 1) + o = p + 1
      BY <1>1, <1>3
    <3> QED
      BY <2>2, <3>1 DEF Move
  <2>4. /\ n - Blank(s, ch') <= (n - Blank(s, ch)) + 0
        /\ col + Blank(s, ch) = p =>
              /\ col' + Blank(s, ch') = p + 1
              /\ Shows(clean, n, s, ch, row) => Shows(clean, n, s, ch', row')
    BY <1>1, <1>4, <2>3
  <2>5. Keeps(n, s, p, 0)
    BY <1>6, <2>1, <2>2, <2>4, KeepsIf
  <2> QED
    BY <1>1, <1>4, <1>5, <2>5
<1>8. CASE p = n
  <2>1. UNCHANGED <<cur, col>>
    BY <1>1, <1>8 DEF CuRight
  <2>2. /\ n - Blank(s, ch') <= (n - Blank(s, ch)) + 0
        /\ col + Blank(s, ch) = p =>
              /\ col' + Blank(s, ch') = p
              /\ Shows(clean, n, s, ch, row) => Shows(clean, n, s, ch', row')
    BY <1>1, <1>4, <2>1
  <2>3. Keeps(n, s, p, 0)
    BY <1>1, <1>6, <2>1, <2>2, KeepsIf
  <2> QED
    BY <1>1, <1>4, <1>5, <2>3
<1> QED
  BY <1>7, <1>8

(* cu_del takes the cell of the cursor out, but only empties the first.   *)
LEMMA CuDelKeeps ==
    ASSUME NEW n, NEW s, NEW p, Editing(n, s, p),
           col + Blank(s, ch) >= p, CuDel
    PROVE  /\ Keeps(n, s, p, 0)
           /\ row' \in Rows /\ col' \in 0 .. Width - 1
<1> DEFINE o == Blank(s, ch)
<1>1. /\ n \in 1 .. MaxCells /\ n \in Nat /\ 1 \in 1 .. n /\ n <= MaxCells
      /\ s \in [1 .. n -> Cells] /\ ch \in Marks
      /\ \A i, j \in 1 .. n : s[i] = s[j] => i = j
      /\ \A i \in 1 .. n : s[i] \in Cells /\ s[i] # Nil
      /\ p \in 1 .. n /\ cur = s[p] /\ head = s[1]
      /\ prv[cur] = (IF p = 1 THEN Nil ELSE s[p - 1])
      /\ o \in {0, 1}
      /\ row \in Rows /\ col \in 0 .. Width - 1
  BY EditingIs
<1>2. Linked(n, s, head, nxt, prv, ch)
  BY DEF Editing
<1>3. /\ Width \in Nat /\ Width >= MaxCells + 4 /\ Width >= 5
      /\ MaxCells \in Nat
  BY WidthIs, CellType
<1>4. head' = head
  BY DEF CuDel
<1>5. ASSUME col \in 1 .. Width - 1, Pull
      PROVE  /\ row' \in Rows /\ col' = col - 1 /\ col' \in 0 .. Width - 1
             /\ \A k \in 1 .. Width :
                   row'[k] = IF k < col THEN row[k]
                             ELSE IF k = Width THEN " " ELSE row[k + 1]
  <2>1. col - 1 \in 0 .. Width - 1
    BY <1>3, <1>5
  <2> QED
    BY <1>1, <1>5, <2>1, PullIs
<1>6. CASE p # 1
  <2>1. p \in 2 .. n /\ p - 1 \in 1 .. n /\ col \in 1 .. Width - 1
    BY <1>1, <1>3, <1>6
  <2>2. /\ cur' = s[p - 1] /\ Pull
        /\ nxt' = [nxt EXCEPT ![prv[s[p]]] = nxt[s[p]], ![s[p]] = Nil]
        /\ prv' = [q \in Cells |-> IF q = s[p] THEN Nil
                                   ELSE IF q = nxt[s[p]] THEN prv[s[p]]
                                   ELSE prv[q]]
        /\ ch' = [ch EXCEPT ![s[p]] = Nul]
    BY <1>1, <1>6, <2>1 DEF CuDel
  <2> DEFINE t == Removed(n, s, p)
  <2>3. Linked(n - 1, t, head', nxt', prv', ch')
    <3>1. Linked(n - 1, t, head,
                 [nxt EXCEPT ![prv[s[p]]] = nxt[s[p]], ![s[p]] = Nil],
                 [q \in Cells |-> IF q = s[p] THEN Nil
                                  ELSE IF q = nxt[s[p]] THEN prv[s[p]]
                                  ELSE prv[q]],
                 [ch EXCEPT ![s[p]] = Nul])
      BY <1>2, <2>1, LinkWithout
    <3> QED
      BY <1>4, <2>2, <3>1, Zenon
  <2>4. /\ \A i \in 1 .. p - 1 : t[i] = s[i]
        /\ \A i \in p .. n - 1 : t[i] = s[i + 1]
    <3>1. n \in 2 .. MaxCells
      BY <1>1, <1>3, <2>1
    <3> QED
      BY <1>1, <3>1, RemovedIs
  <2> HIDE DEF t
  <2>5. \A i \in 1 .. n : i # p => ch'[s[i]] = ch[s[i]]
    BY <1>1, <2>2 DEF Marks
  <2>6. Blank(t, ch') = o
    <3>1. 1 \in 1 .. p - 1
      BY <1>1, <2>1
    <3>2. t[1] = s[1] /\ ch'[s[1]] = ch[s[1]]
      BY <1>1, <1>6, <2>4, <2>5, <3>1
    <3> QED
      BY <3>2 DEF Blank
  <2> HIDE DEF o
  <2>7. /\ row' \in Rows /\ col' = col - 1 /\ col' \in 0 .. Width - 1
        /\ \A k \in 1 .. Width :
              row'[k] = IF k < col THEN row[k]
                        ELSE IF k = Width THEN " " ELSE row[k + 1]
    BY <1>5, <2>1, <2>2
  <2>8. ASSUME col + o = p, Shows(clean, n, s, ch, row)
        PROVE  Shows(clean, n - 1, t, ch', row')
    <3>1. \A y \in 1 .. Width :
            row[y] = IF y <= n - o THEN ch[s[y + o]]
                     ELSE IF clean THEN " " ELSE row[y]
      BY <2>8 DEF Shows, o
    <3>2. \A k \in 1 .. Width :
            row'[k] = IF k <= (n - 1) - o THEN ch'[t[k + o]]
                      ELSE IF clean THEN " " ELSE row'[k]
      <4> TAKE k \in 1 .. Width
      <4>1. CASE k < col
        <5>1. /\ k <= n - o /\ k <= (n - 1) - o
              /\ k + o \in 1 .. p - 1 /\ k + o \in 1 .. n /\ k + o # p
          BY <1>1, <1>3, <2>8, <4>1
        <5>2. row'[k] = row[k]
          BY <2>7, <4>1
        <5> QED
          BY <2>4, <2>5, <3>1, <5>1, <5>2
      <4>2. CASE ~(k < col) /\ k # Width
        <5> DEFINE j == k + 1
        <5>1. /\ j \in 1 .. Width /\ (j <= n - o <=> k <= (n - 1) - o)
              /\ j + o = (k + o) + 1 /\ (j <= n - o => /\ k + o \in p .. n - 1
                                                       /\ j + o \in 1 .. n
                                                       /\ j + o # p)
          BY <1>1, <1>3, <2>8, <4>2
        <5>2. row'[k] = row[j]
          BY <2>7, <4>2
        <5>3. j <= n - o => t[k + o] = s[j + o]
          BY <2>4, <5>1
        <5> HIDE DEF j
        <5> QED
          BY <2>5, <3>1, <5>1, <5>2, <5>3
      <4>3. CASE ~(k < col) /\ k = Width
        <5>1. ~(k <= (n - 1) - o)
          BY <1>1, <1>3, <4>3
        <5> QED
          BY <2>7, <4>3, <5>1
      <4> QED
        BY <4>1, <4>2, <4>3
    <3>3. n - 1 \in Int /\ o \in {0, 1}
      BY <1>1
    <3> QED
      BY <2>6, <3>2, <3>3, ShowsIf
  <2>9. p - 1 \in 1 .. n - 1 /\ cur' = t[p - 1]
    <3>1. p - 1 \in 1 .. p - 1 /\ p - 1 \in 1 .. n - 1
      BY <1>1, <2>1
    <3> QED
      BY <2>2, <2>4, <3>1
  <2>10. /\ (n - 1) - Blank(t, ch') <= (n - Blank(s, ch)) + 0
         /\ col + Blank(s, ch) = p =>
               /\ col' + Blank(t, ch') = p - 1
               /\ Shows(clean, n, s, ch, row) => Shows(clean, n - 1, t, ch', row')
    <3>1. (n - 1) - o <= (n - o) + 0
      BY <1>1
    <3>2. col + o = p => (col - 1) + o = p - 1
      BY <1>1
    <3> QED
      BY <2>6, <2>7, <2>8, <3>1, <3>2 DEF o
  <2>11. Keeps(n, s, p, 0)
    BY <2>3, <2>9, <2>10, KeepsIf
  <2> QED
    BY <2>7, <2>11
<1>7. CASE p = 1 /\ ch[cur] # Nul
  <2>1. o = 0 /\ col \in 1 .. Width - 1
    <3>1. o = 0
      BY <1>1, <1>7 DEF Blank
    <3> QED
      BY <1>1, <1>3, <1>7, <3>1
  <2>2. /\ Pull /\ UNCHANGED <<cur, nxt, prv>>
        /\ ch' = [ch EXCEPT ![s[1]] = Nul]
    BY <1>1, <1>7 DEF CuDel
  <2>3. Linked(n, s, head', nxt', prv', ch')
    <3>1. Nul \in Chars \cup {Nul}
      OBVIOUS
    <3> QED
      BY <1>2, <1>4, <2>2, <3>1, LinkFirst
  <2>4. \A i \in 1 .. n : ch'[s[i]] = IF i = 1 THEN Nul ELSE ch[s[i]]
    BY <1>1, <2>2 DEF Marks
  <2>5. Blank(s, ch') = 1
    BY <1>1, <2>4 DEF Blank
  <2>6. /\ row' \in Rows /\ col' = col - 1 /\ col' \in 0 .. Width - 1
        /\ \A k \in 1 .. Width :
              row'[k] = IF k < col THEN row[k]
                        ELSE IF k = Width THEN " " ELSE row[k + 1]
    BY <1>5, <2>1, <2>2
  <2>7. ASSUME col + o = p, Shows(clean, n, s, ch, row)
        PROVE  Shows(clean, n, s, ch', row')
    <3>1. \A x \in 1 .. Width : row[x] = IF x <= n THEN ch[s[x]]
                                         ELSE IF clean THEN " " ELSE row[x]
      <4>1. n - 0 = n /\ \A x \in 1 .. Width : x + 0 = x
        BY <1>1, <1>3
      <4> QED
        BY <2>1, <2>7, <4>1 DEF Shows
    <3>2. \A x \in 1 .. Width :
            row'[x] = IF x <= n - 1 THEN ch'[s[x + 1]]
                      ELSE IF clean THEN " " ELSE row'[x]
      <4> TAKE x \in 1 .. Width
      <4>1. CASE x # Width
        <5>1. /\ x + 1 \in 1 .. Width /\ (x + 1 <= n <=> x <= n - 1)
              /\ (x + 1 <= n => x + 1 \in 1 .. n) /\ x + 1 # 1 /\ ~(x < col)
          BY <1>1, <1>3, <1>7, <2>1, <2>7, <4>1
        <5>2. row'[x] = row[x + 1]
          BY <2>6, <4>1, <5>1
        <5> QED
          BY <2>4, <3>1, <5>1, <5>2
      <4>2. CASE x = Width
        <5>1. ~(x <= n - 1) /\ ~(x < col)
          BY <1>1, <1>3, <4>2
        <5> QED
          BY <2>6, <4>2, <5>1
      <4> QED
        BY <4>1, <4>2
    <3>3. n \in Int /\ 1 \in {0, 1}
      BY <1>1
    <3> QED
      BY <2>5, <3>2, <3>3, ShowsIf
  <2>8. /\ n - Blank(s, ch') <= (n - Blank(s, ch)) + 0
        /\ col + Blank(s, ch) = p =>
              /\ col' + Blank(s, ch') = p
              /\ Shows(clean, n, s, ch, row) => Shows(clean, n, s, ch', row')
    <3>1. n - 1 <= (n - 0) + 0
      BY <1>1
    <3>2. col + o = p => (col - 1) + 1 = p
      BY <1>1, <1>7, <2>1
    <3>3. o = Blank(s, ch)
      OBVIOUS
    <3> HIDE DEF o
    <3>4. n - Blank(s, ch') <= (n - Blank(s, ch)) + 0
      BY <2>1, <2>5, <3>1, <3>3
    <3>5. col + Blank(s, ch) = p => col' + Blank(s, ch') = p
      BY <2>5, <2>6, <3>2, <3>3
    <3> QED
      BY <2>7, <3>3, <3>4, <3>5
  <2>9. cur' = s[p]
    BY <1>1, <2>2
  <2>10. Keeps(n, s, p, 0)
    BY <1>1, <2>3, <2>8, <2>9, KeepsIf
  <2> QED
    BY <2>6, <2>10
<1>8. CASE p = 1 /\ ch[cur] = Nul
  <2>1. UNCHANGED <<head, cur, nxt, prv, ch, row, col>>
    BY <1>1, <1>8 DEF CuDel, chain, screen
  <2>2. Linked(n, s, head', nxt', prv', ch') /\ cur' = s[p]
    BY <1>1, <1>2, <2>1
  <2>3. /\ n - Blank(s, ch') <= (n - Blank(s, ch)) + 0
        /\ col + Blank(s, ch) = p =>
              /\ col' + Blank(s, ch') = p
              /\ Shows(clean, n, s, ch, row) => Shows(clean, n, s, ch', row')
    BY <1>1, <2>1
  <2>4. Keeps(n, s, p, 0)
    BY <1>1, <2>2, <2>3, KeepsIf
  <2> QED
    BY <1>1, <2>1, <2>4
<1> QED
  BY <1>6, <1>7, <1>8

-------------------------------------------------------------------------
(* The line as text.                                                      *)

(* How many characters the first k cells hold, and which.                 *)
Held(n, s, k) ==
    IF k = 0 THEN 0 ELSE IF k < n THEN k - Blank(s, ch) ELSE n - Blank(s, ch)
Text(n, s, k) == [i \in 1 .. Held(n, s, k) |-> ch[s[i + Blank(s, ch)]]]

(* A text is a sequence of characters.                                    *)
LEMMA TextIs ==
    ASSUME NEW n, NEW s, Linked(n, s, head, nxt, prv, ch),
           NEW k \in 0 .. MaxCells
    PROVE  /\ Held(n, s, k) \in Nat
           /\ Text(n, s, k) \in Seq(Chars)
           /\ Len(Text(n, s, k)) = Held(n, s, k)
           /\ \A i \in 1 .. Held(n, s, k) :
                 /\ Text(n, s, k)[i] = ch[s[i + Blank(s, ch)]]
                 /\ i + Blank(s, ch) \in 1 .. n
<1> DEFINE o == Blank(s, ch)
           h == Held(n, s, k)
<1>1. /\ n \in Nat /\ n >= 1 /\ ch \in Marks /\ MaxCells \in Nat
      /\ \A i \in 1 .. n : s[i] \in Cells
      /\ \A i \in 2 .. n : ch[s[i]] # Nul
  BY LinkedIs, CellType DEF Linked
<1>2. o \in {0, 1} /\ (o = 0 => ch[s[1]] # Nul)
  BY DEF Blank
<1>3. h = IF k = 0 THEN 0 ELSE IF k < n THEN k - o ELSE n - o
  BY DEF Held
<1>4. Text(n, s, k) = [i \in 1 .. h |-> ch[s[i + o]]]
  BY DEF Text
<1> HIDE DEF h, o
<1>5. h \in Nat /\ \A i \in 1 .. h : i + o \in 1 .. n /\ (i + o = 1 => o = 0)
  BY <1>1, <1>2, <1>3
<1>6. \A j \in 1 .. n : (j = 1 => o = 0) => ch[s[j]] \in Chars
  <2> TAKE j \in 1 .. n
  <2>1. j # 1 => j \in 2 .. n
    BY <1>1
  <2> QED
    BY <1>1, <1>2, <2>1 DEF Marks
<1>7. \A i \in 1 .. h : ch[s[i + o]] \in Chars
  BY <1>5, <1>6
<1>8. Text(n, s, k) \in Seq(Chars) /\ Len(Text(n, s, k)) = h
  BY <1>4, <1>5, <1>7
<1>9. \A i \in 1 .. h : Text(n, s, k)[i] = ch[s[i + o]]
  BY <1>4
<1> QED
  BY <1>5, <1>8, <1>9 DEF h, o

(* One cell more adds what it holds.                                      *)
LEMMA TextGrows ==
    ASSUME NEW n, NEW s, Linked(n, s, head, nxt, prv, ch),
           NEW k \in 1 .. MaxCells
    PROVE  Text(n, s, k - 1) \o Buff(Walk[k - 1]) = Text(n, s, k)
<1> DEFINE o == Blank(s, ch)
           a == Text(n, s, k - 1)
           e == Text(n, s, k)
           b == Buff(Walk[k - 1])
           h == Held(n, s, k - 1)
           j == Held(n, s, k)
<1>1. /\ n \in Nat /\ n >= 1 /\ ch \in Marks /\ MaxCells \in Nat
      /\ \A i \in 1 .. n : s[i] \in Cells /\ s[i] # Nil
      /\ \A i \in 2 .. n : ch[s[i]] # Nul
  BY LinkedIs, CellType DEF Linked
<1>2. /\ o \in {0, 1} /\ (o = 0 => ch[s[1]] # Nul) /\ (o = 1 => ch[s[1]] = Nul)
  BY DEF Blank
<1>3. k \in 0 .. MaxCells /\ k - 1 \in 0 .. MaxCells
  BY <1>1
<1>4. /\ h \in Nat /\ a \in Seq(Chars) /\ Len(a) = h
      /\ \A i \in 1 .. h : a[i] = ch[s[i + o]]
  <2>1. PICK l \in 0 .. MaxCells : l = k - 1
    BY <1>3
  <2>2. /\ Held(n, s, l) \in Nat
        /\ Text(n, s, l) \in Seq(Chars) /\ Len(Text(n, s, l)) = Held(n, s, l)
        /\ \A i \in 1 .. Held(n, s, l) :
              Text(n, s, l)[i] = ch[s[i + Blank(s, ch)]]
    BY TextIs
  <2> QED
    BY <2>1, <2>2
<1>5. /\ j \in Nat /\ e \in Seq(Chars) /\ Len(e) = j
      /\ \A i \in 1 .. j : e[i] = ch[s[i + o]] /\ i + o \in 1 .. n
  BY <1>3, TextIs
<1>6. h = IF k - 1 = 0 THEN 0 ELSE IF k - 1 < n THEN (k - 1) - o ELSE n - o
  BY DEF Held
<1>7. j = IF k < n THEN k - o ELSE n - o
  BY <1>3 DEF Held
<1>8. Walk[k - 1] = IF k - 1 < n THEN s[k] ELSE Nil
  <2>1. (k - 1) + 1 = k
    BY <1>3
  <2> QED
    BY <1>3, <2>1, WalkIs
<1> HIDE DEF a, e, h, j, o
<1>9. CASE ~(k - 1 < n) \/ (k = 1 /\ o = 1)
  <2>1. b = << >>
    BY <1>1, <1>2, <1>3, <1>8, <1>9 DEF Buff
  <2>2. h = j
    BY <1>1, <1>2, <1>3, <1>6, <1>7, <1>9
  <2>3. a = e
    BY <1>4, <1>5, <2>2, SeqEqual
  <2>4. a \o << >> = a
    BY <1>4, ConcatEmptySeq
  <2> HIDE DEF b
  <2>5. a \o b = e
    BY <2>1, <2>3, <2>4
  <2> QED
    BY <2>5 DEF a, b, e
<1>10. CASE k - 1 < n /\ ~(k = 1 /\ o = 1)
  <2>1. k \in 1 .. n /\ (k # 1 => k \in 2 .. n) /\ (k = 1 => o = 0)
    BY <1>1, <1>2, <1>3, <1>10
  <2>2. b = <<ch[s[k]]>>
    BY <1>1, <1>2, <1>8, <1>10, <2>1 DEF Buff
  <2>3. j = h + 1 /\ j + o = k
    BY <1>1, <1>2, <1>3, <1>6, <1>7, <1>10
  <2>4. ch[s[k]] \in Chars
    BY <1>1, <1>2, <2>1 DEF Marks
  <2>5. b \in Seq(Chars) /\ Len(b) = 1 /\ b[1] = ch[s[k]]
    BY <2>2, <2>4
  <2> HIDE DEF b
  <2>6. /\ a \o b \in Seq(Chars) /\ Len(a \o b) = h + 1
        /\ \A i \in 1 .. h + 1 :
              (a \o b)[i] = IF i <= h THEN a[i] ELSE b[i - h]
    <3>1. /\ a \o b \in Seq(Chars) /\ Len(a \o b) = Len(a) + Len(b)
          /\ \A i \in 1 .. Len(a) + Len(b) :
                (a \o b)[i] = IF i <= Len(a) THEN a[i] ELSE b[i - Len(a)]
      BY <1>4, <2>5, ConcatProperties
    <3> QED
      BY <1>4, <2>5, <3>1
  <2>7. \A i \in 1 .. j : (a \o b)[i] = e[i]
    <3> TAKE i \in 1 .. j
    <3>1. CASE i <= h
      <4>1. i \in 1 .. h /\ i \in 1 .. h + 1
        BY <1>4, <2>3, <3>1
      <4> QED
        BY <1>4, <1>5, <2>6, <3>1, <4>1
    <3>2. CASE ~(i <= h)
      <4>1. i \in 1 .. h + 1 /\ i = j /\ i - h = 1
        BY <1>4, <2>3, <3>2
      <4> QED
        BY <1>5, <2>3, <2>5, <2>6, <3>2, <4>1
    <3> QED
      BY <3>1, <3>2
  <2>8. a \o b = e
    <3>1. \A i \in 1 .. Len(a \o b) : (a \o b)[i] = e[i]
      BY <2>3, <2>6, <2>7
    <3>2. Len(a \o b) = Len(e)
      BY <1>5, <2>3, <2>6
    <3> QED
      BY <1>5, <2>6, <3>1, <3>2, SeqEqual
  <2> QED
    BY <2>8 DEF a, b, e
<1> QED
  BY <1>9, <1>10

(* The step of Concat, and the functions that take it.                    *)
ConcatStep(f, k) ==
    IF k = 0 THEN << >> ELSE f[k - 1] \o Buff(Walk[k - 1])
IsConcat(f) == f = [k \in 0 .. MaxCells |-> ConcatStep(f, k)]

(* Concat is such a function.                                             *)
LEMMA ConcatDef == Concat = CHOOSE f : IsConcat(f)
  BY DEF Concat, IsConcat, ConcatStep

(* concat_buff copies the characters of the chain in their order.         *)
LEMMA LineIs ==
    ASSUME NEW n, NEW s, Linked(n, s, head, nxt, prv, ch)
    PROVE  /\ Line \in Seq(Chars) /\ Len(Line) = n - Blank(s, ch)
           /\ \A i \in 1 .. n - Blank(s, ch) :
                 Line[i] = ch[s[i + Blank(s, ch)]]
<1> DEFINE g == [k \in 0 .. MaxCells |-> Text(n, s, k)]
<1>1. n \in Nat /\ n >= 1 /\ MaxCells \in Nat /\ MaxCells >= 1 /\ n <= MaxCells
  BY LinkedIs, CellType
<1>2. \A k \in 0 .. MaxCells : g[k] = Text(n, s, k)
  OBVIOUS
<1>3. g[0] = << >>
  <2>1. 0 \in 0 .. MaxCells
    BY <1>1
  <2>2. Text(n, s, 0) \in Seq(Chars) /\ Len(Text(n, s, 0)) = 0
    BY <2>1, TextIs DEF Held
  <2> QED
    BY <1>2, <2>1, <2>2, EmptySeq
<1> HIDE DEF g
<1>4. ASSUME NEW k \in 1 .. MaxCells, NEW f, f[k - 1] = g[k - 1]
      PROVE  ConcatStep(f, k) = g[k]
  <2>1. k \in 0 .. MaxCells /\ k - 1 \in 0 .. MaxCells /\ k # 0
    BY <1>1
  <2>2. ConcatStep(f, k) = Text(n, s, k - 1) \o Buff(Walk[k - 1])
    BY <1>2, <1>4, <2>1 DEF ConcatStep
  <2> QED
    BY <1>2, <2>1, <2>2, TextGrows
<1>5. IsConcat(g)
  <2>1. \A k \in 0 .. MaxCells : ConcatStep(g, k) = g[k]
    <3> TAKE k \in 0 .. MaxCells
    <3>1. CASE k = 0
      BY <1>3, <3>1 DEF ConcatStep
    <3>2. CASE k # 0
      <4>1. k \in 1 .. MaxCells
        BY <1>1, <3>2
      <4> QED
        BY <1>4, <4>1
    <3> QED
      BY <3>1, <3>2
  <2>2. g = [k \in 0 .. MaxCells |-> g[k]]
    BY DEF g
  <2> QED
    BY <2>1, <2>2 DEF IsConcat
<1>6. IsConcat(Concat)
  BY <1>5, ConcatDef, Zenon
<1>7. \A k \in 0 .. MaxCells : Concat[k] = ConcatStep(Concat, k)
  <2> DEFINE w == Concat
  <2>1. w = [k \in 0 .. MaxCells |-> ConcatStep(w, k)]
    BY <1>6 DEF IsConcat
  <2> HIDE DEF w
  <2>2. \A k \in 0 .. MaxCells : w[k] = ConcatStep(w, k)
    BY <2>1, Zenon
  <2> QED
    BY <2>2 DEF w
<1>8. Concat[0] = g[0]
  <2>1. 0 \in 0 .. MaxCells
    BY <1>1
  <2> QED
    BY <1>3, <1>7, <2>1 DEF ConcatStep
<1>9. \A k \in 1 .. MaxCells : Concat[k - 1] = g[k - 1] => Concat[k] = g[k]
  <2> TAKE k \in 1 .. MaxCells
  <2>1. k \in 0 .. MaxCells
    BY <1>1
  <2> QED
    BY <1>4, <1>7, <2>1
<1>10. \A k \in 0 .. MaxCells : Concat[k] = g[k]
  BY <1>1, <1>8, <1>9, SameUpTo
<1>11. MaxCells \in 0 .. MaxCells /\ ~(MaxCells = 0) /\ (MaxCells < n => FALSE)
  BY <1>1
<1>12. Line = Text(n, s, MaxCells)
  BY <1>2, <1>10, <1>11 DEF Line
<1>13. Held(n, s, MaxCells) = n - Blank(s, ch)
  BY <1>11 DEF Held
<1> QED
  BY <1>11, <1>12, <1>13, TextIs

(* The cursor's position is that of its cell.                             *)
LEMMA PositionIs ==
    ASSUME NEW n, NEW s, NEW p, Linked(n, s, head, nxt, prv, ch),
           p \in 1 .. n, cur = s[p]
    PROVE  Position = p - Blank(s, ch)
<1> DEFINE upto == CHOOSE k \in 0 .. MaxCells : Walk[k] = cur
<1>1. /\ n \in Nat /\ MaxCells \in Nat /\ n <= MaxCells
      /\ \A i, j \in 1 .. n : s[i] = s[j] => i = j
      /\ \A i \in 1 .. n : s[i] # Nil
      /\ head = s[1]
  BY LinkedIs, CellType DEF Linked
<1>2. \A k \in 0 .. MaxCells : Walk[k] = IF k < n THEN s[k + 1] ELSE Nil
  BY WalkIs
<1>3. p - 1 \in 0 .. MaxCells /\ Walk[p - 1] = cur
  <2>1. p - 1 \in 0 .. MaxCells /\ p - 1 < n /\ (p - 1) + 1 = p
    BY <1>1
  <2> QED
    BY <1>2, <2>1
<1>4. upto \in 0 .. MaxCells /\ Walk[upto] = cur
  BY <1>3
<1> HIDE DEF upto
<1>5. upto < n /\ s[upto + 1] = s[p]
  BY <1>1, <1>2, <1>4
<1>6. upto + 1 \in 1 .. n
  BY <1>1, <1>4, <1>5
<1>7. upto + 1 = p
  BY <1>1, <1>5, <1>6
<1>8. Position = IF ch[head] = Nul THEN upto ELSE upto + 1
  BY DEF Position, upto
<1> QED
  BY <1>1, <1>4, <1>7, <1>8 DEF Blank

-------------------------------------------------------------------------
(* The invariant of the loop.                                             *)

(* The session is in one of its modes, with bytes to come.                *)
Loop ==
    /\ mode \in Modes /\ win \in 0 .. LastWin /\ (mode = "windows" <=> win # 0)
    /\ tty \in Seq(Bytes) /\ stdio \in Seq(Bytes)
    /\ hungup \in BOOLEAN /\ end \in BOOLEAN /\ intr \in BOOLEAN
    /\ ahead \in 0 .. MaxAhead

(* What is left of one key: a TAB is a key of its own, and once a window  *)
(* took the first byte of any other no TAB follows.                       *)
OneKey(b) == Len(b) <= 3 /\ \A i \in 1 .. Len(b) : b[i] = "tab" => Len(b) = 1
Rest(b) == Len(b) <= 2 /\ \A i \in 1 .. Len(b) : b[i] # "tab"

(* As long as no key came too early, what is not read yet is of one key,  *)
(* and only a window keeps some of it in getchar's buffer.                *)
Unread ==
    ahead = 0 => /\ OneKey(tty) /\ Rest(stdio)
                 /\ tty = << >> \/ stdio = << >>
                 /\ mode # "windows" => stdio = << >>

(* With f characters on the line a cell is left for every read to come,   *)
(* or for a key that does not want one, and one for cu_left.              *)
Fits(f) ==
    \/ f + Reads(Len(tty)) <= MaxCells - 1
    \/ /\ f <= MaxCells - 1
       /\ mode \in {"read", "windows", "ask"} /\ stdio = << >>
       /\ Len(tty) \in 1 .. 3 /\ (mode = "ask" => Len(tty) = 1)
       /\ tty[1] \notin Chars

(* Before the first prompt there is no line.                              *)
NoLine ==
    /\ head = Nil /\ cur = Nil
    /\ nxt = [c \in Cells |-> Nil] /\ prv = [c \in Cells |-> Nil]
    /\ ch = [c \in Cells |-> Nul]
    /\ row \in Rows /\ col \in 0 .. Width - 1
    /\ mode = "prompt" /\ Reads(Len(tty)) <= MaxCells - 1

(* While keys are read the cursor's column is that of its cell, and the   *)
(* row shows the cells, but for the two known exceptions.                 *)
OnScreen(n, s, p) ==
    /\ col + Blank(s, ch) >= p
    /\ ~intr => /\ col + Blank(s, ch) = p
                /\ ~inherited => Shows(clean, n, s, ch, row)

OnLine(n, s, p) ==
    /\ Editing(n, s, p)
    /\ Fits(n - Blank(s, ch))
    /\ mode \in {"read", "windows"} => OnScreen(n, s, p)

HasLine == \E n, s, p : OnLine(n, s, p)

(* What a prompt began with is known.                                     *)
Began == inherited \in BOOLEAN /\ clean \in BOOLEAN

Inv == Loop /\ Unread /\ Began /\ (NoLine \/ HasLine)

-------------------------------------------------------------------------
(* What is typed and read.                                                *)

(* A key sends one byte, or three of which no one is a character's or a   *)
(* TAB's key.                                                             *)
LEMMA KeyIs ==
    ASSUME NEW k \in Keys
    PROVE  /\ k \in Seq(Bytes) /\ Len(k) \in 1 .. 3 /\ OneKey(k)
           /\ k[1] \in Chars => Len(k) = 1
<1> DEFINE left == <<"esc", "[", "D">>
           right == <<"esc", "[", "C">>
<1>1. k = left \/ k = right \/ \E c : k = <<c>>
  BY DEF Keys
<1>2. \A i \in DOMAIN k : k[i] \in Bytes
  BY DEF Bytes, ToSet
<1>3. "esc" \notin Chars
  BY CharAssumption, Zenon
<1>4. CASE k = left \/ k = right
  <2>1. /\ Len(k) = 3 /\ k[1] = "esc" /\ k[2] = "["
        /\ k[3] \in {"D", "C"} /\ DOMAIN k = 1 .. 3
    BY <1>4
  <2>2. \A i \in 1 .. 3 : k[i] # "tab"
    BY <2>1
  <2>3. k[1] \in Bytes /\ k[2] \in Bytes /\ k[3] \in Bytes
    BY <1>2, <2>1
  <2>4. k \in Seq(Bytes)
    <3>1. k = <<k[1], k[2], k[3]>>
      BY <1>4
    <3> DEFINE e == k[1]  f == k[2]  g == k[3]
    <3>2. e \in Bytes /\ f \in Bytes /\ g \in Bytes /\ k = <<e, f, g>>
      BY <2>3, <3>1
    <3> HIDE DEF e, f, g
    <3> QED
      BY <3>2
  <2> HIDE DEF left, right
  <2> QED
    BY <1>3, <2>1, <2>2, <2>4 DEF OneKey
<1>5. ASSUME NEW c, k = <<c>> PROVE k \in Seq(Bytes) /\ Len(k) = 1
  <2>1. k[1] \in Bytes
    BY <1>2, <1>5
  <2> QED
    BY <1>5, <2>1
<1>6. CASE \E c : k = <<c>>
  BY <1>5, <1>6 DEF OneKey
<1> QED
  BY <1>1, <1>4, <1>6

(* What reading a byte leaves of a key.                                   *)
LEMMA RestIs ==
    ASSUME NEW b \in Seq(Bytes), b # << >>, OneKey(b) \/ Rest(b)
    PROVE  /\ Tail(b) \in Seq(Bytes) /\ Rest(Tail(b)) /\ OneKey(Tail(b))
           /\ Head(b) = "tab" => Tail(b) = << >>
<1>1. /\ Len(b) \in Nat \ {0} /\ Tail(b) \in Seq(Bytes)
      /\ Len(Tail(b)) = Len(b) - 1
      /\ \A i \in 1 .. Len(Tail(b)) : Tail(b)[i] = b[i + 1]
      /\ Head(b) = b[1]
  BY HeadTailProperties, EmptySeq
<1>2. Len(b) <= 3
  BY <1>1 DEF OneKey, Rest
<1>3. \A i \in 1 .. Len(Tail(b)) : i + 1 \in 1 .. Len(b) /\ Len(b) # 1
  BY <1>1
<1>4. \A i \in 1 .. Len(Tail(b)) : Tail(b)[i] # "tab"
  BY <1>1, <1>3 DEF OneKey, Rest
<1>5. Len(Tail(b)) <= 2 /\ Len(Tail(b)) <= 3
  BY <1>1, <1>2
<1>6. Head(b) = "tab" => Len(b) = 1
  BY <1>1 DEF OneKey, Rest
<1>7. Head(b) = "tab" => Tail(b) = << >>
  <2>1. Head(b) = "tab" => Len(Tail(b)) = 0
    BY <1>1, <1>6
  <2> QED
    BY <1>1, <2>1, EmptySeq
<1> QED
  BY <1>1, <1>4, <1>5, <1>7 DEF Rest, OneKey

(* The empty buffer is what is left of any key.                           *)
LEMMA NothingLeft ==
    << >> \in Seq(Bytes) /\ Len(<< >>) = 0 /\ OneKey(<< >>) /\ Rest(<< >>)
<1>1. << >> \in Seq(Bytes) /\ Len(<< >>) = 0
  BY EmptySeq
<1> QED
  BY <1>1 DEF OneKey, Rest

(* A read takes three bytes or the rest.                                  *)
LEMMA ReadsLess ==
    ASSUME NEW m \in Nat \ {0}, NEW r, r = IF m < 3 THEN 0 ELSE m - 3
    PROVE  /\ Reads(m) = Reads(r) + 1
           /\ Reads(r) \in Nat /\ r \in Nat
           /\ m <= 3 => r = 0 /\ Reads(r) = 0
<1>1. r \in Nat /\ (m <= 3 => r = 0)
  OBVIOUS
<1>2. Reads(r) \in Nat
  BY <1>1 DEF Reads
<1>3. r = 0 => Reads(r) = 0
  BY DEF Reads
<1>4. CASE m < 3
  BY <1>4 DEF Reads
<1>5. CASE ~(m < 3)
  <2>1. m = r + 3
    BY <1>5
  <2> QED
    BY <1>1, <2>1 DEF Reads
<1> QED
  BY <1>1, <1>2, <1>3, <1>4, <1>5

(* read(0, c, 3) takes the first three bytes, or all that there are.      *)
LEMMA ReadBytesIs ==
    ASSUME Loop, ReadBytes
    PROVE  /\ tty' \in Seq(Bytes) /\ Len(tty) \in Nat \ {0}
           /\ Len(tty') = IF Len(tty) < 3 THEN 0 ELSE Len(tty) - 3
           /\ First = tty[1] /\ First \in Bytes
           /\ Len(tty) <= 3 => tty' = << >>
           /\ stdio' = stdio /\ hungup' = hungup /\ ahead' = ahead
           /\ mode = "read"
<1> DEFINE l == IF Len(tty) < 3 THEN Len(tty) ELSE 3
<1>1. /\ tty \in Seq(Bytes) /\ tty # << >> /\ mode = "read"
      /\ tty' = SubSeq(tty, Len(Chunk) + 1, Len(tty))
      /\ stdio' = stdio /\ hungup' = hungup /\ ahead' = ahead
  BY DEF Loop, ReadBytes
<1>2. Len(tty) \in Nat \ {0} /\ \A i \in 1 .. Len(tty) : tty[i] \in Bytes
  BY <1>1, EmptySeq, ElementOfSeq
<1>3. l \in 1 .. Len(tty) /\ l <= 3 /\ l \in Int /\ l - 1 + 1 = l
      /\ (Len(tty) <= 3 => l = Len(tty))
  <2>1. Len(tty) \in Nat \ {0}
    BY <1>2
  <2>2. \A m \in Nat \ {0} : LET h == IF m < 3 THEN m ELSE 3 IN
            h \in 1 .. m /\ h <= 3 /\ h - 1 + 1 = h /\ (m <= 3 => h = m)
    OBVIOUS
  <2>3. /\ l \in 1 .. Len(tty) /\ l <= 3 /\ l - 1 + 1 = l
        /\ Len(tty) <= 3 => l = Len(tty)
    BY <2>1, <2>2
  <2> HIDE DEF l
  <2> QED
    BY <2>1, <2>3
<1>4. Chunk = SubSeq(tty, 1, l)
  BY DEF Chunk
<1> HIDE DEF l
<1>5. Len(Chunk) = l /\ Chunk[1] = tty[1]
  <2>1. \A i \in 1 .. l : tty[i] \in Bytes
    BY <1>2, <1>3
  <2>2. /\ Len(SubSeq(tty, 1, l)) = IF 1 <= l THEN l - 1 + 1 ELSE 0
        /\ \A i \in 1 .. l - 1 + 1 : SubSeq(tty, 1, l)[i] = tty[1 + i - 1]
    BY <1>3, <2>1, SubSeqProperties
  <2>3. 1 <= l /\ 1 \in 1 .. l - 1 + 1 /\ 1 + 1 - 1 = 1
    BY <1>3
  <2> QED
    BY <1>3, <1>4, <2>2, <2>3
<1>6. /\ tty' \in Seq(Bytes)
      /\ Len(tty') = IF l + 1 <= Len(tty) THEN Len(tty) - (l + 1) + 1 ELSE 0
  <2>1. l + 1 \in Int /\ Len(tty) \in Int
        /\ \A i \in l + 1 .. Len(tty) : i \in 1 .. Len(tty)
    BY <1>2, <1>3
  <2>2. \A i \in l + 1 .. Len(tty) : tty[i] \in Bytes
    BY <1>2, <2>1
  <2> QED
    BY <1>1, <1>5, <2>1, <2>2, SubSeqProperties
<1>7. Len(tty') = IF Len(tty) < 3 THEN 0 ELSE Len(tty) - 3
  BY <1>2, <1>6 DEF l
<1>8. Len(tty) <= 3 => tty' = << >>
  <2>1. Len(tty) <= 3 => Len(tty') = 0
    <3>1. Len(tty) \in Nat
      BY <1>2
    <3>2. \A m \in Nat : m <= 3 => (IF m < 3 THEN 0 ELSE m - 3) = 0
      OBVIOUS
    <3> QED
      BY <1>7, <3>1, <3>2
  <2> QED
    BY <1>6, <2>1, EmptySeq
<1>9. First = tty[1] /\ First \in Bytes
  <2>1. 1 \in 1 .. Len(tty)
    BY <1>2
  <2> QED
    BY <1>2, <1>5, <2>1 DEF First
<1> QED
  BY <1>1, <1>2, <1>6, <1>7, <1>8, <1>9

(* Every read leaves room for those to come; a character finds its cell.  *)
LEMMA FitsRead ==
    ASSUME Loop, ReadBytes, NEW f \in Int, Fits(f)
    PROVE  /\ f <= MaxCells - 1
           /\ f + Reads(Len(tty')) <= MaxCells - 1
           /\ First \in Chars =>
                 /\ f <= MaxCells - 2
                 /\ (f + 1) + Reads(Len(tty')) <= MaxCells - 1
<1>1. /\ Len(tty) \in Nat \ {0} /\ First = tty[1]
      /\ Len(tty') = IF Len(tty) < 3 THEN 0 ELSE Len(tty) - 3
  BY ReadBytesIs
<1>2. MaxCells \in Nat
  BY CellType
<1>3. /\ Reads(Len(tty)) = Reads(Len(tty')) + 1 /\ Reads(Len(tty')) \in Nat
      /\ Len(tty) <= 3 => Reads(Len(tty')) = 0
  BY <1>1, ReadsLess
<1>4. CASE f + Reads(Len(tty)) <= MaxCells - 1
  BY <1>2, <1>3, <1>4
<1>5. CASE f <= MaxCells - 1 /\ Len(tty) \in 1 .. 3 /\ tty[1] \notin Chars
  <2>1. Reads(Len(tty')) = 0 /\ First \notin Chars
    <3>1. Len(tty) <= 3
      <4>1. Len(tty) \in 1 .. 3
        BY <1>5
      <4>2. \A m \in 1 .. 3 : m <= 3
        OBVIOUS
      <4> QED
        BY <4>1, <4>2
    <3> QED
      BY <1>1, <1>3, <1>5, <3>1
  <2> QED
    BY <1>2, <1>5, <2>1
<1> QED
  BY <1>4, <1>5 DEF Fits

-------------------------------------------------------------------------
(* What the steps keep.                                                   *)

(* "^C" is written over the row, and the cursor goes no further left.     *)
LEMMA HandleIntIs ==
    ASSUME row \in Rows, col \in 0 .. Width - 1, HandleInt
    PROVE  /\ row' \in Rows /\ col' \in 0 .. Width - 1
           /\ col' >= col /\ intr' = TRUE
<1>1. Width \in Nat
  BY WidthIs
<1>2. row' = [row EXCEPT ![col + 1] = "^", ![col + 2] = "c"] /\ Move(col + 2)
      /\ intr' = TRUE
  BY DEF HandleInt
<1>3. "^" \in Glyphs /\ "c" \in Glyphs
  BY DEF Glyphs
<1>4. col' \in 0 .. Width - 1 /\ col' >= col
  BY <1>1, <1>2 DEF Move
<1> QED
  BY <1>2, <1>3, <1>4 DEF Rows

(* Before the first prompt no cell is in use.                             *)
LEMMA NoLiveCell ==
    ASSUME head = Nil
    PROVE  Cardinality(Live) = 0
<1> DEFINE g == [k \in 0 .. MaxCells |-> Nil]
<1>1. MaxCells \in Nat
  BY CellType
<1>2. \A k \in 0 .. MaxCells : g[k] = Nil
  OBVIOUS
<1>3. IsWalk(g)
  <2> HIDE DEF g
  <2>1. \A k \in 0 .. MaxCells : k # 0 => k - 1 \in 0 .. MaxCells
    BY <1>1
  <2>2. \A k \in 0 .. MaxCells : WalkStep(g, k) = Nil
    BY <1>2, <2>1 DEF WalkStep
  <2>3. g = [k \in 0 .. MaxCells |-> WalkStep(g, k)]
    BY <2>2 DEF g
  <2> QED
    BY <2>3 DEF IsWalk
<1>4. IsWalk(Walk)
  BY <1>3, WalkDef, Zenon
<1>5. \A k \in 0 .. MaxCells : Walk[k] = WalkStep(Walk, k)
  <2> DEFINE w == Walk
  <2>1. w = [k \in 0 .. MaxCells |-> WalkStep(w, k)]
    BY <1>4 DEF IsWalk
  <2> HIDE DEF w
  <2>2. \A k \in 0 .. MaxCells : w[k] = WalkStep(w, k)
    BY <2>1, Zenon
  <2> QED
    BY <2>2 DEF w
<1> HIDE DEF g
<1>6. Walk[0] = g[0]
  <2>1. 0 \in 0 .. MaxCells
    BY <1>1
  <2> QED
    BY <1>2, <1>5, <2>1 DEF WalkStep
<1>7. \A k \in 1 .. MaxCells : Walk[k - 1] = g[k - 1] => Walk[k] = g[k]
  <2> TAKE k \in 1 .. MaxCells
  <2>1. k \in 0 .. MaxCells /\ k - 1 \in 0 .. MaxCells /\ k # 0
    BY <1>1
  <2> QED
    BY <1>2, <1>5, <2>1 DEF WalkStep
<1>8. \A k \in 0 .. MaxCells : Walk[k] = g[k]
  BY <1>1, <1>6, <1>7, SameUpTo
<1>9. Live = {}
  BY <1>2, <1>8 DEF Live
<1> QED
  BY <1>9, FS_EmptySet

(* next_line makes a line of one blank cell, or keeps the old one with    *)
(* the cursor on its blank first cell.                                    *)
LEMMA NextLineIs ==
    ASSUME NextLine, row \in Rows,
           head # Nil => \E n, s : Linked(n, s, head, nxt, prv, ch)
    PROVE  /\ row' \in Rows /\ col' = 0
           /\ Began'
           /\ \E n, s : /\ Linked(n, s, head', nxt', prv', ch')
                        /\ cur' = s[1] /\ Blank(s, ch') = 1
                        /\ ~inherited' => Shows(clean', n, s, ch', row')
                        /\ \/ n = 1
                           \/ Linked(n, s, head, nxt, prv, ch) /\ ch' = ch
<1>1. Width \in Nat /\ Width >= 5 /\ MaxCells \in Nat /\ MaxCells >= 1
      /\ 1 \in Cells /\ Nul \notin Chars
  BY WidthIs, CellType
<1>2. row' = row /\ col' = 0 /\ clean' = (row = Blanks)
  BY DEF NextLine
<1>3. /\ row' \in Rows /\ clean' \in BOOLEAN
      /\ clean' => \A x \in 1 .. Width : row'[x] = " "
  BY <1>2 DEF Blanks
<1>4. ASSUME NEW n, n = 1, NEW s, NEW c, Blank(s, c) = 1
      PROVE  Shows(clean', n, s, c, row')
  <2>1. \A x \in 1 .. Width :
          row'[x] = IF x <= n - 1 THEN c[s[x + 1]]
                    ELSE IF clean' THEN " " ELSE row'[x]
    <3> TAKE x \in 1 .. Width
    <3>1. ~(x <= n - 1)
      BY <1>1, <1>4
    <3> QED
      BY <1>3, <3>1
  <2>2. n \in Int /\ 1 \in {0, 1}
    BY <1>4
  <2> QED
    BY <1>4, <2>1, <2>2, ShowsIf
<1>5. CASE head = Nil \/ ch[head] # Nul
  <2> DEFINE s == [i \in 1 .. 1 |-> 1]
  <2>1. /\ head' = 1 /\ cur' = 1 /\ inherited' = FALSE
        /\ nxt' = [c \in Cells |-> Nil] /\ prv' = [c \in Cells |-> Nil]
        /\ ch' = [c \in Cells |-> Nul]
    BY <1>5 DEF NextLine
  <2>2. \A c \in Cells : nxt'[c] = Nil /\ prv'[c] = Nil /\ ch'[c] = Nul
    BY <2>1
  <2>3. nxt' \in Links /\ prv' \in Links /\ ch' \in Marks
    BY <2>1 DEF Links, Marks
  <2>4. s \in [1 .. 1 -> Cells] /\ s[1] = 1 /\ 1 \in 1 .. MaxCells
    BY <1>1
  <2>5. \A i \in 1 .. 1 : i = 1
    OBVIOUS
  <2>6. \A i \in 2 .. 1 : FALSE
    OBVIOUS
  <2> HIDE DEF s
  <2>7. Linked(1, s, head', nxt', prv', ch')
    BY <1>1, <2>1, <2>2, <2>3, <2>4, <2>5, <2>6 DEF Linked
  <2>8. Blank(s, ch') = 1
    BY <1>1, <2>2, <2>4 DEF Blank
  <2>9. Shows(clean', 1, s, ch', row') /\ cur' = s[1]
    BY <1>4, <2>1, <2>4, <2>8
  <2> QED
    BY <1>2, <1>3, <2>1, <2>7, <2>8, <2>9 DEF Began
<1>6. CASE head # Nil /\ ch[head] = Nul
  <2>1. /\ cur' = head /\ inherited' = (nxt[head] # Nil)
        /\ head' = head /\ nxt' = nxt /\ prv' = prv /\ ch' = ch
    BY <1>6 DEF NextLine
  <2>2. PICK n, s : Linked(n, s, head, nxt, prv, ch)
    BY <1>6
  <2>3. /\ n \in Nat /\ 1 \in 1 .. n /\ head = s[1]
        /\ \A i \in 1 .. n : s[i] # Nil
        /\ nxt[s[1]] = IF 1 = n THEN Nil ELSE s[1 + 1]
    <3>1. n \in Nat /\ 1 \in 1 .. n /\ \A i \in 1 .. n : s[i] # Nil
      BY <2>2, LinkedIs
    <3>2. /\ head = s[1]
          /\ \A i \in 1 .. n : nxt[s[i]] = IF i = n THEN Nil ELSE s[i + 1]
      BY <2>2 DEF Linked
    <3> QED
      BY <3>1, <3>2
  <2>4. n # 1 => 1 + 1 \in 1 .. n
    BY <2>3
  <2>5. inherited' \in BOOLEAN /\ (~inherited' => n = 1)
    BY <2>1, <2>3, <2>4
  <2>6. Linked(n, s, head', nxt', prv', ch') /\ cur' = s[1]
    BY <2>1, <2>2, <2>3
  <2>7. Blank(s, ch') = 1
    BY <1>6, <2>1, <2>3 DEF Blank
  <2>8. ~inherited' => Shows(clean', n, s, ch', row')
    BY <1>4, <2>5, <2>7
  <2> QED
    BY <1>2, <1>3, <2>1, <2>2, <2>5, <2>6, <2>7, <2>8 DEF Began
<1> QED
  BY <1>5, <1>6

(* After a key's edit the cursor and the row are right again, unless the  *)
(* reading is over.                                                       *)
LEMMA LineEdited ==
    ASSUME NEW n, NEW s, NEW p, NEW d \in {0, 1}, OnLine(n, s, p),
           mode = "read", Keeps(n, s, p, d),
           row' \in Rows, col' \in 0 .. Width - 1,
           began' = began, intr' = intr, ReadNext,
           Reads(Len(tty')) \in Nat,
           ((n - Blank(s, ch)) + d) + Reads(Len(tty')) <= MaxCells - 1
    PROVE  HasLine'
<1>1. PICK m, t, q :
        /\ Linked(m, t, head', nxt', prv', ch')
        /\ q \in 1 .. m /\ cur' = t[q]
        /\ m - Blank(t, ch') <= (n - Blank(s, ch)) + d
        /\ col + Blank(s, ch) = p =>
              /\ col' + Blank(t, ch') = q
              /\ Shows(clean, n, s, ch, row) => Shows(clean, m, t, ch', row')
  BY DEF Keeps
<1>2. Editing(m, t, q)'
  BY <1>1 DEF Editing
<1>3. /\ n \in Nat /\ m \in Nat
      /\ Blank(s, ch) \in {0, 1} /\ Blank(t, ch') \in {0, 1}
  <2>1. Linked(n, s, head, nxt, prv, ch)
    BY DEF OnLine, Editing
  <2>2. n \in Nat
    BY <2>1, LinkedIs
  <2>3. m \in Nat
    BY <1>1, LinkedIs
  <2> QED
    BY <2>2, <2>3 DEF Blank
<1>4. Fits(m - Blank(t, ch))'
  <2>1. MaxCells \in Nat
    BY CellType
  <2>2. (m - Blank(t, ch')) + Reads(Len(tty')) <= MaxCells - 1
    BY <1>1, <1>3, <2>1
  <2> QED
    BY <2>2 DEF Fits
<1>5. mode' \in {"read", "windows"} => OnScreen(m, t, q)'
  <2> SUFFICES ASSUME mode' \in {"read", "windows"} PROVE OnScreen(m, t, q)'
    OBVIOUS
  <2>1. ~intr' /\ ~intr
    BY DEF ReadNext
  <2>2. OnScreen(n, s, p)
    BY DEF OnLine
  <2>3. /\ col + Blank(s, ch) = p
        /\ ~inherited => Shows(clean, n, s, ch, row)
    BY <2>1, <2>2 DEF OnScreen
  <2>4. /\ col' + Blank(t, ch') = q
        /\ ~inherited' => Shows(clean', m, t, ch', row')
    <3>1. inherited' = inherited /\ clean' = clean
      BY DEF began
    <3> QED
      BY <1>1, <2>3, <3>1
  <2>5. col' + Blank(t, ch') >= q
    BY <1>1, <1>3, <2>4
  <2> QED
    BY <2>4, <2>5 DEF OnScreen
<1> QED
  BY <1>2, <1>4, <1>5 DEF HasLine, OnLine

(* A step that touches neither the line nor the screen.                   *)
LEMMA LineStays ==
    ASSUME NEW n, NEW s, NEW p, OnLine(n, s, p), UNCHANGED lineVars,
           Fits(n - Blank(s, ch))',
           mode' \in {"read", "windows"} =>
                mode \in {"read", "windows"} /\ intr' = intr
    PROVE  HasLine'
<1>1. /\ head' = head /\ cur' = cur /\ nxt' = nxt /\ prv' = prv /\ ch' = ch
      /\ row' = row /\ col' = col
      /\ inherited' = inherited /\ clean' = clean
  BY DEF lineVars, chain, screen, began
<1>2. Editing(n, s, p)'
  BY <1>1 DEF OnLine, Editing
<1>3. mode' \in {"read", "windows"} => OnScreen(n, s, p)'
  BY <1>1 DEF OnLine, OnScreen
<1> QED
  BY <1>2, <1>3 DEF HasLine, OnLine

(* A step off the row of the line, that leaves the line.                  *)
LEMMA LineLeft ==
    ASSUME NEW n, NEW s, NEW p, OnLine(n, s, p), UNCHANGED chain,
           row' \in Rows, col' \in 0 .. Width - 1,
           Fits(n - Blank(s, ch))', mode' \notin {"read", "windows"}
    PROVE  HasLine'
<1>1. /\ head' = head /\ cur' = cur /\ nxt' = nxt /\ prv' = prv /\ ch' = ch
  BY DEF chain
<1>2. Editing(n, s, p)'
  BY <1>1 DEF OnLine, Editing
<1> QED
  BY <1>2 DEF HasLine, OnLine

(* ^C spoils the row, but not the line.                                   *)
LEMMA LineInterrupted ==
    ASSUME NEW n, NEW s, NEW p, OnLine(n, s, p), HandleInt,
           mode \in {"read", "windows"}, Fits(n - Blank(s, ch))'
    PROVE  HasLine'
<1>1. /\ head' = head /\ cur' = cur /\ nxt' = nxt /\ prv' = prv /\ ch' = ch
  BY DEF HandleInt, chain
<1>2. /\ Editing(n, s, p) /\ row \in Rows /\ col \in 0 .. Width - 1
      /\ col + Blank(s, ch) >= p /\ p \in 1 .. n /\ n \in Nat
      /\ Blank(s, ch) \in {0, 1}
  <2>1. Editing(n, s, p) /\ OnScreen(n, s, p)
    BY DEF OnLine
  <2> QED
    BY <2>1, EditingIs DEF OnScreen
<1>3. row' \in Rows /\ col' \in 0 .. Width - 1 /\ col' >= col /\ intr' = TRUE
  BY <1>2, HandleIntIs
<1>4. Editing(n, s, p)'
  BY <1>1, <1>2, <1>3 DEF Editing
<1>5. OnScreen(n, s, p)'
  <2>1. col' + Blank(s, ch') >= p
    <3>1. Width \in Nat
      BY WidthIs
    <3>2. col' + Blank(s, ch) >= p
      BY <1>2, <1>3, <3>1
    <3> QED
      BY <1>1, <3>2
  <2> QED
    BY <1>3, <2>1 DEF OnScreen
<1> QED
  BY <1>4, <1>5 DEF HasLine, OnLine

(* What is typed finds room.                                              *)
LEMMA FitsTyped ==
    ASSUME Loop, NEW k \in Keys, Type(k), NEW f \in Nat,
           Cardinality(Live) \in Nat, f <= Cardinality(Live), Fits(f)
    PROVE  /\ Fits(f)' /\ mode' = mode
           /\ mode = "prompt" => f + Reads(Len(tty')) <= MaxCells - 1
<1>1. /\ tty' = tty \o k /\ stdio' = stdio /\ mode' = mode /\ Room(k)
      /\ tty \in Seq(Bytes)
  BY DEF Type, Loop
<1>2. MaxCells \in Nat /\ MaxLine \in Nat /\ AheadCells \in Nat
      /\ MaxLine <= MaxCells - 1 /\ AheadCells <= MaxCells - 1
  BY CellType, BoundAssumption
<1>3. /\ k \in Seq(Bytes) /\ Len(k) \in 1 .. 3 /\ Len(k) \in Nat
      /\ k[1] \in Chars => Len(k) = 1
  BY KeyIs
<1>4. tty' \in Seq(Bytes) /\ Len(tty') \in Nat /\ Reads(Len(tty')) \in Nat
  <2>1. tty' \in Seq(Bytes)
    BY <1>1, <1>3, ConcatProperties
  <2>2. Len(tty') \in Nat
    BY <2>1, LenProperties
  <2>3. \A m \in Nat : Reads(m) \in Nat
    BY DEF Reads
  <2> QED
    BY <2>1, <2>2, <2>3
<1>5. CASE Waiting
  <2>1. mode \in {"read", "windows", "ask"} /\ tty = << >> /\ stdio = << >>
    BY <1>5 DEF Waiting
  <2>2. tty' = k
    BY <1>1, <1>3, <2>1, ConcatEmptySeq
  <2>3. f <= MaxCells - 1
    <3>1. Len(tty) = 0 /\ Reads(0) = 0
      BY <2>1, NothingLeft DEF Reads
    <3>2. f + 0 = f
      OBVIOUS
    <3> QED
      BY <3>1, <3>2 DEF Fits
  <2>4. CASE k[1] \in Chars
    <3>1. Cardinality(Live) < MaxLine
      BY <1>1, <1>5, <2>4 DEF Room
    <3>2. Len(tty') = 1 /\ Reads(1) = 1
      BY <1>3, <2>2, <2>4 DEF Reads
    <3>3. f + 1 <= MaxCells - 1
      BY <1>2, <3>1
    <3>4. f + Reads(Len(tty')) <= MaxCells - 1
      BY <3>2, <3>3
    <3> QED
      BY <1>1, <2>1, <3>4 DEF Fits
  <2>5. CASE k[1] \notin Chars
    <3>1. mode = "ask" => Len(k) = 1
      BY <1>1, <1>5 DEF Room
    <3>2. Fits(f)'
      BY <1>1, <1>3, <2>1, <2>2, <2>3, <2>5, <3>1 DEF Fits
    <3> QED
      BY <1>1, <2>1, <3>2
  <2> QED
    BY <2>4, <2>5
<1>6. CASE ~Waiting
  <2>1. Cardinality(Live) + Reads(Len(tty')) <= AheadCells
    BY <1>1, <1>6 DEF Room
  <2>2. f + Reads(Len(tty')) <= MaxCells - 1
    BY <1>2, <1>4, <2>1
  <2> QED
    BY <1>1, <2>2 DEF Fits
<1> QED
  BY <1>5, <1>6

(* The prompt starts a line, or goes on with an old one, with the cursor  *)
(* at its left end.                                                       *)
LEMMA LinePrompted ==
    ASSUME NoLine \/ HasLine, Prompt, tty \in Seq(Bytes)
    PROVE  HasLine' /\ Began'
<1>1. NextLine /\ tty' = tty /\ mode = "prompt"
  BY DEF Prompt
<1>2. head # Nil => \E n, s : Linked(n, s, head, nxt, prv, ch)
  <2>1. HasLine => \E n, s : Linked(n, s, head, nxt, prv, ch)
    BY DEF HasLine, OnLine, Editing
  <2> QED
    BY <2>1 DEF NoLine
<1>11. row \in Rows
  <2>1. HasLine => row \in Rows
    BY DEF HasLine, OnLine, Editing
  <2> QED
    BY <2>1 DEF NoLine
<1>3. row' \in Rows /\ col' = 0 /\ Began'
  BY <1>1, <1>2, <1>11, NextLineIs
<1>4. PICK n, s : /\ Linked(n, s, head', nxt', prv', ch')
                  /\ cur' = s[1] /\ Blank(s, ch') = 1
                  /\ ~inherited' => Shows(clean', n, s, ch', row')
                  /\ \/ n = 1
                     \/ Linked(n, s, head, nxt, prv, ch) /\ ch' = ch
  BY <1>1, <1>2, <1>11, NextLineIs
<1>5. /\ MaxCells \in Nat /\ Width \in Nat /\ Width >= 5
      /\ n \in Nat /\ 1 \in 1 .. n
      /\ Reads(Len(tty)) \in Nat
  <2>1. n \in Nat /\ 1 \in 1 .. n
    BY <1>4, LinkedIs
  <2>2. Len(tty) \in Nat
    BY LenProperties
  <2>3. \A m \in Nat : Reads(m) \in Nat
    BY DEF Reads
  <2> QED
    BY <2>1, <2>2, <2>3, CellType, WidthIs
<1>6. (n - 1) + Reads(Len(tty)) <= MaxCells - 1
  <2>1. CASE NoLine
    <3>1. Reads(Len(tty)) <= MaxCells - 1 /\ head = Nil
      BY <2>1 DEF NoLine
    <3>2. n = 1
      <4>1. Linked(n, s, head, nxt, prv, ch) => head \in Cells
        <5> SUFFICES ASSUME Linked(n, s, head, nxt, prv, ch)
                     PROVE  head \in Cells
          OBVIOUS
        <5>1. head = s[1]
          BY DEF Linked
        <5> QED
          BY <5>1, LinkedIs
      <4> QED
        BY <1>4, <3>1, <4>1, CellType
    <3> QED
      BY <1>5, <3>1, <3>2
  <2>2. ASSUME NEW m, NEW t, NEW q, OnLine(m, t, q)
        PROVE  (n - 1) + Reads(Len(tty)) <= MaxCells - 1
    <3>1. Linked(m, t, head, nxt, prv, ch) /\ Fits(m - Blank(t, ch))
      BY <2>2 DEF OnLine, Editing
    <3>2. (m - Blank(t, ch)) + Reads(Len(tty)) <= MaxCells - 1
      BY <1>1, <3>1 DEF Fits
    <3>3. m \in Nat /\ m >= 1 /\ Blank(t, ch) \in {0, 1}
      BY <3>1, LinkedIs DEF Blank
    <3>4. CASE n = 1
      BY <1>5, <3>2, <3>3, <3>4
    <3>5. CASE Linked(n, s, head, nxt, prv, ch) /\ ch' = ch
      <4>1. n = m
        BY <3>1, <3>5, LiveIs
      <4>2. s[1] = t[1]
        BY <3>1, <3>5 DEF Linked
      <4>3. Blank(t, ch) = 1
        BY <1>4, <3>5, <4>2 DEF Blank
      <4> QED
        BY <3>2, <4>1, <4>3
    <3> QED
      BY <1>4, <3>4, <3>5
  <2> QED
    BY <2>1, <2>2 DEF HasLine
<1>7. Editing(n, s, 1)'
  <2>1. 0 \in 0 .. Width - 1
    BY <1>5
  <2> QED
    BY <1>3, <1>4, <1>5, <2>1 DEF Editing
<1>8. Fits(n - Blank(s, ch))'
  BY <1>1, <1>4, <1>6 DEF Fits
<1>9. OnScreen(n, s, 1)'
  <2>1. 0 + 1 = 1 /\ 0 + 1 >= 1
    OBVIOUS
  <2> QED
    BY <1>3, <1>4, <2>1 DEF OnScreen
<1>10. HasLine'
  BY <1>7, <1>8, <1>9 DEF HasLine, OnLine
<1> QED
  BY <1>3, <1>10

(* The keys of the prompt: a step that reads one and goes on, or runs.    *)
LEMMA LoopRead ==
    ASSUME Loop, Unread, ReadBytes,
           mode' \in {"read", "run"}, win' = win,
           end' \in BOOLEAN, intr' \in BOOLEAN
    PROVE  Loop' /\ Unread'
<1>1. /\ tty' \in Seq(Bytes)
      /\ Len(tty) <= 3 => tty' = << >>
      /\ stdio' = stdio /\ hungup' = hungup /\ ahead' = ahead
      /\ mode = "read"
  BY ReadBytesIs
<1>2. Loop'
  <2>1. mode' \in Modes /\ mode' # "windows" /\ win = 0
    BY <1>1 DEF Loop, Modes
  <2> QED
    BY <1>1, <2>1 DEF Loop
<1>3. Unread'
  BY <1>1, NothingLeft DEF Unread, OneKey
<1> QED
  BY <1>2, <1>3

(* A step of the prompt that reads nothing.                               *)
LEMMA LoopStays ==
    ASSUME Loop, Unread, UNCHANGED <<tty, stdio, win, ahead>>,
           mode' \in Modes, mode' = "windows" <=> mode = "windows",
           hungup' \in BOOLEAN, end' \in BOOLEAN, intr' \in BOOLEAN
    PROVE  Loop' /\ Unread'
<1>1. Loop'
  BY DEF Loop
<1>2. Unread'
  BY DEF Unread
<1> QED
  BY <1>1, <1>2

(* A loop of the shell's own goes on or ends.                             *)
LEMMA ReadNextIs ==
    ASSUME ReadNext
    PROVE  mode' \in {"read", "run"} /\ mode' \in Modes
  BY DEF ReadNext, Modes

(* What was typed waits.                                                  *)
LEMMA TypeKeeps ==
    ASSUME Inv, NEW k \in Keys, Type(k)
    PROVE  Inv'
<1>1. /\ Loop /\ Unread /\ Began /\ (NoLine \/ HasLine)
  BY DEF Inv
<1>2. /\ tty' = tty \o k /\ mode' = mode /\ Room(k)
      /\ ahead' = IF Waiting THEN ahead ELSE ahead + 1
      /\ stdio' = stdio /\ hungup' = hungup /\ win' = win /\ end' = end
      /\ intr' = intr /\ UNCHANGED lineVars
  BY DEF Type
<1>3. k \in Seq(Bytes) /\ OneKey(k)
  BY KeyIs
<1>4. Loop'
  <2>1. tty' \in Seq(Bytes)
    BY <1>1, <1>2, <1>3, ConcatProperties DEF Loop
  <2>2. ahead' \in 0 .. MaxAhead
    BY <1>1, <1>2, BoundAssumption DEF Loop, Room
  <2> QED
    BY <1>1, <1>2, <2>1, <2>2 DEF Loop
<1>5. Unread'
  <2>1. CASE Waiting
    <3>1. tty = << >> /\ stdio = << >>
      BY <2>1 DEF Waiting
    <3>2. tty' = k
      BY <1>2, <1>3, <3>1, ConcatEmptySeq
    <3> QED
      BY <1>2, <1>3, <3>1, <3>2, NothingLeft DEF Unread
  <2>2. CASE ~Waiting
    <3>1. ahead' # 0
      BY <1>1, <1>2, <2>2, BoundAssumption DEF Loop
    <3> QED
      BY <3>1 DEF Unread
  <2> QED
    BY <2>1, <2>2
<1>6. Began'
  BY <1>1, <1>2 DEF lineVars, began, Began
<1>7. ASSUME NoLine PROVE NoLine'
  <2>1. Cardinality(Live) = 0
    BY <1>7, NoLiveCell DEF NoLine
  <2>2. Fits(0) /\ mode = "prompt"
    <3>1. Len(tty) \in Nat
      BY <1>1, LenProperties DEF Loop
    <3>2. \A m \in Nat : Reads(m) \in Nat
      BY DEF Reads
    <3>3. 0 + Reads(Len(tty)) = Reads(Len(tty))
      BY <3>1, <3>2
    <3> QED
      BY <1>7, <3>3 DEF NoLine, Fits
  <2>3. 0 + Reads(Len(tty')) <= MaxCells - 1
    BY <1>1, <2>1, <2>2, FitsTyped
  <2>4. Reads(Len(tty')) <= MaxCells - 1
    <3>1. Len(tty') \in Nat
      BY <1>4, LenProperties DEF Loop
    <3>2. \A m \in Nat : Reads(m) \in Nat
      BY DEF Reads
    <3> QED
      BY <2>3, <3>1, <3>2
  <2> QED
    BY <1>2, <1>7, <2>4 DEF NoLine, lineVars, chain, screen
<1>8. ASSUME NEW n, NEW s, NEW p, OnLine(n, s, p) PROVE HasLine'
  <2>1. Linked(n, s, head, nxt, prv, ch) /\ Fits(n - Blank(s, ch))
    BY <1>8 DEF OnLine, Editing
  <2>2. Cardinality(Live) = n /\ n \in Nat /\ n >= 1
    BY <2>1, LiveIs, LinkedIs
  <2>3. n - Blank(s, ch) \in Nat /\ n - Blank(s, ch) <= n
    BY <2>2 DEF Blank
  <2>4. Fits(n - Blank(s, ch))'
    <3>1. PICK f \in Nat : f = n - Blank(s, ch)
      BY <2>3
    <3>2. Fits(f)'
      BY <1>1, <2>1, <2>2, <2>3, <3>1, FitsTyped
    <3>3. ch' = ch
      BY <1>2 DEF lineVars, chain, began, Began
    <3> QED
      BY <3>1, <3>2, <3>3
  <2> QED
    BY <1>2, <1>8, <2>4, LineStays
<1> QED
  BY <1>1, <1>4, <1>5, <1>6, <1>7, <1>8 DEF Inv, HasLine

(* Signals set flags, and ^C is shown.                                    *)
LEMMA SignalsKeep ==
    ASSUME Inv, Terminate \/ Interrupt
    PROVE  Inv'
<1>1. /\ Loop /\ Unread /\ Began /\ (NoLine \/ HasLine)
  BY DEF Inv
<1>2. CASE Terminate
  <2>1. /\ end' = TRUE /\ hungup' \in {hungup, TRUE} /\ UNCHANGED lineVars
        /\ tty' = tty /\ stdio' = stdio /\ mode' = mode /\ win' = win
        /\ intr' = intr /\ ahead' = ahead
    BY <1>2 DEF Terminate
  <2>2. Loop' /\ Unread'
    BY <1>1, <2>1, LoopStays DEF Loop
  <2>3. Began'
    BY <1>1, <2>1 DEF lineVars, began, Began
  <2>4. NoLine => NoLine'
    BY <2>1 DEF NoLine, lineVars, chain, screen
  <2>5. ASSUME NEW n, NEW s, NEW p, OnLine(n, s, p) PROVE HasLine'
    <3>1. Fits(n - Blank(s, ch))'
      <4>1. ch' = ch
        BY <2>1 DEF lineVars, chain, began, Began
      <4> QED
        BY <2>1, <2>5, <4>1 DEF OnLine, Fits
    <3> QED
      BY <2>1, <2>5, <3>1, LineStays
  <2> QED
    BY <1>1, <2>2, <2>3, <2>4, <2>5 DEF Inv, HasLine
<1>3. CASE Interrupt
  <2>1. /\ tty' = tty /\ stdio' = stdio
        /\ hungup' = hungup /\ mode' = mode /\ win' = win /\ end' = end
        /\ ahead' = ahead
        /\ IF mode \in {"read", "windows"} THEN HandleInt
           ELSE intr' = TRUE /\ UNCHANGED lineVars
    BY <1>3 DEF Interrupt
  <2>2. intr' = TRUE /\ ch' = ch
    BY <2>1 DEF HandleInt, lineVars, chain
  <2>3. Loop' /\ Unread'
    BY <1>1, <2>1, <2>2, LoopStays DEF Loop
  <2>5. Began'
    BY <1>1, <2>1 DEF HandleInt, lineVars, began, Began
  <2>4. ASSUME NEW n, NEW s, NEW p, OnLine(n, s, p) PROVE HasLine'
    <3>1. Fits(n - Blank(s, ch))'
      BY <2>1, <2>2, <2>4 DEF OnLine, Fits
    <3>2. CASE mode \in {"read", "windows"}
      BY <2>1, <2>4, <3>1, <3>2, LineInterrupted
    <3>3. CASE mode \notin {"read", "windows"}
      BY <2>1, <2>4, <3>1, <3>3, LineStays
    <3> QED
      BY <3>2, <3>3
  <2>6. NoLine => NoLine'
    <3> SUFFICES ASSUME NoLine PROVE NoLine'
      OBVIOUS
    <3>1. mode = "prompt"
      BY DEF NoLine
    <3>2. UNCHANGED lineVars
      BY <2>1, <3>1
    <3> QED
      BY <2>1, <3>2 DEF NoLine, lineVars, chain, screen
  <2> QED
    BY <1>1, <2>3, <2>4, <2>5, <2>6 DEF Inv, HasLine
<1> QED
  BY <1>2, <1>3

(* The keys.                                                              *)
LEMMA KeysKeep ==
    ASSUME Inv, \/ ReadChar \/ ReadEnter \/ MoveKey \/ DeleteKey \/ TabKey
                \/ IntKey \/ EotKey \/ OtherKey
    PROVE  Inv'
<1>1. /\ Loop /\ Unread /\ Began /\ ReadBytes
      /\ end \in BOOLEAN /\ intr \in BOOLEAN
  BY DEF Inv, Loop, ReadChar, ReadEnter, MoveKey, DeleteKey, TabKey,
         IntKey, EotKey, OtherKey, Special
<1>2. /\ tty' \in Seq(Bytes)
      /\ Len(tty) <= 3 => tty' = << >>
      /\ stdio' = stdio /\ hungup' = hungup /\ ahead' = ahead
      /\ mode = "read"
  BY <1>1, ReadBytesIs
<1>3. PICK n, s, p : OnLine(n, s, p)
  BY <1>2 DEF Inv, NoLine, HasLine
<1> DEFINE f == n - Blank(s, ch)
<1>4. /\ Editing(n, s, p) /\ OnScreen(n, s, p)
      /\ col + Blank(s, ch) >= p /\ row \in Rows /\ col \in 0 .. Width - 1
  BY <1>2, <1>3 DEF OnLine, OnScreen, Editing
<1>5. f \in Int /\ Fits(f)
  <2>1. n \in Nat /\ Blank(s, ch) \in {0, 1}
    BY <1>4, EditingIs
  <2> QED
    BY <1>3, <2>1 DEF OnLine
<1>6. Reads(Len(tty')) \in Nat
  <2>1. Len(tty') \in Nat
    BY <1>2, LenProperties
  <2>2. \A m \in Nat : Reads(m) \in Nat
    BY DEF Reads
  <2> QED
    BY <2>1, <2>2
<1>7. /\ f <= MaxCells - 1
      /\ f + Reads(Len(tty')) <= MaxCells - 1
      /\ First \in Chars =>
            f <= MaxCells - 2 /\ (f + 1) + Reads(Len(tty')) <= MaxCells - 1
  BY <1>1, <1>5, FitsRead
<1>8. (f + 0) + Reads(Len(tty')) <= MaxCells - 1
  BY <1>5, <1>7
<1> HIDE DEF f
<1>9. ch' = ch => Fits(n - Blank(s, ch))'
  BY <1>7 DEF Fits, f
<1>17. began' = began => Began'
  BY <1>1 DEF began, Began
<1>10. CASE ReadChar
  <2>1. First \in Chars /\ AddChar(First) /\ ReadNext
        /\ win' = win /\ end' = end /\ intr' = intr
    BY <1>10 DEF ReadChar
  <2>2. began' = began
    BY <2>1 DEF AddChar
  <2>3. Loop' /\ Unread'
    BY <1>1, <2>1, LoopRead, ReadNextIs
  <2>4. Keeps(n, s, p, 1) /\ row' \in Rows /\ col' \in 0 .. Width - 1
    BY <1>4, <1>7, <2>1, AddCharKeeps DEF f
  <2>5. HasLine'
    <3>1. 1 \in {0, 1}
      OBVIOUS
    <3> QED
      BY <1>2, <1>3, <1>6, <1>7, <2>1, <2>2, <2>4, <3>1, LineEdited DEF f
  <2> QED
    BY <2>2, <2>3, <2>5, <1>17 DEF Inv
<1>11. CASE ReadEnter
  <2>1. mode' = "run" /\ UNCHANGED lineVars /\ win' = win /\ end' = end
        /\ intr' = intr
    BY <1>11 DEF ReadEnter
  <2>2. began' = began /\ ch' = ch
    BY <2>1 DEF lineVars, chain, began, Began
  <2>3. Loop' /\ Unread'
    BY <1>1, <2>1, LoopRead
  <2>4. HasLine'
    BY <1>3, <1>9, <2>1, <2>2, LineStays
  <2> QED
    BY <2>2, <2>3, <2>4, <1>17 DEF Inv
<1>12. CASE MoveKey
  <2>1. (CuLeft \/ CuRight) /\ ReadNext
        /\ win' = win /\ end' = end /\ intr' = intr
    BY <1>12 DEF MoveKey
  <2>2. began' = began
    BY <2>1 DEF CuLeft, CuRight
  <2>3. Loop' /\ Unread'
    BY <1>1, <2>1, LoopRead, ReadNextIs
  <2>4. Keeps(n, s, p, 0) /\ row' \in Rows /\ col' \in 0 .. Width - 1
    <3>1. CuLeft => /\ Keeps(n, s, p, 0)
                    /\ row' \in Rows /\ col' \in 0 .. Width - 1
      BY <1>4, <1>7, CuLeftKeeps DEF f
    <3>2. CuRight => /\ Keeps(n, s, p, 0)
                     /\ row' \in Rows /\ col' \in 0 .. Width - 1
      BY <1>4, CuRightKeeps
    <3> QED
      BY <2>1, <3>1, <3>2
  <2>5. HasLine'
    <3>1. 0 \in {0, 1}
      OBVIOUS
    <3> QED
      BY <1>2, <1>3, <1>6, <1>8, <2>1, <2>2, <2>4, <3>1, LineEdited DEF f
  <2> QED
    BY <2>2, <2>3, <2>5, <1>17 DEF Inv
<1>13. CASE DeleteKey
  <2>1. CuDel /\ ReadNext /\ win' = win /\ end' = end /\ intr' = intr
    BY <1>13 DEF DeleteKey
  <2>2. began' = began
    BY <2>1 DEF CuDel
  <2>3. Loop' /\ Unread'
    BY <1>1, <2>1, LoopRead, ReadNextIs
  <2>4. Keeps(n, s, p, 0) /\ row' \in Rows /\ col' \in 0 .. Width - 1
    BY <1>4, <2>1, CuDelKeeps
  <2>5. HasLine'
    <3>1. 0 \in {0, 1}
      OBVIOUS
    <3> QED
      BY <1>2, <1>3, <1>6, <1>8, <2>1, <2>2, <2>4, <3>1, LineEdited DEF f
  <2> QED
    BY <2>2, <2>3, <2>5, <1>17 DEF Inv
<1>14. CASE TabKey
  <2>1. win' = win + 1 /\ mode' = "windows" /\ UNCHANGED lineVars
        /\ end' = end /\ intr' = intr
    BY <1>14 DEF TabKey
  <2>2. began' = began /\ ch' = ch
    BY <2>1 DEF lineVars, chain, began, Began
  <2>3. Loop'
    <3>1. win = 0
      BY <1>1, <1>2 DEF Loop
    <3>2. win' \in 0 .. LastWin /\ win' # 0
      BY <2>1, <3>1, BoundAssumption
    <3>3. mode' \in Modes /\ (mode' = "windows" <=> win' # 0)
      BY <2>1, <3>2 DEF Modes
    <3> QED
      BY <1>1, <1>2, <2>1, <3>2, <3>3 DEF Loop
  <2>4. Unread'
    <3>1. ahead' = 0 => tty' = << >> /\ stdio' = << >>
      BY <1>1, <1>2 DEF Unread, OneKey
    <3> QED
      BY <3>1, NothingLeft DEF Unread
  <2>5. HasLine'
    BY <1>2, <1>3, <1>9, <2>1, <2>2, LineStays
  <2> QED
    BY <2>2, <2>3, <2>4, <2>5, <1>17 DEF Inv
<1>15. CASE IntKey
  <2>1. HandleInt /\ ReadNext /\ win' = win /\ end' = end
    BY <1>15 DEF IntKey
  <2>2. intr' = TRUE /\ began' = began /\ ch' = ch
    BY <2>1 DEF HandleInt, chain
  <2>3. Loop' /\ Unread'
    BY <1>1, <2>1, <2>2, LoopRead, ReadNextIs
  <2>4. HasLine'
    BY <1>2, <1>3, <1>9, <2>1, <2>2, LineInterrupted
  <2> QED
    BY <2>2, <2>3, <2>4, <1>17 DEF Inv
<1>16. CASE EotKey \/ OtherKey
  <2>1. ReadNext /\ UNCHANGED lineVars /\ win' = win /\ intr' = intr
        /\ end' \in {end, TRUE}
    BY <1>16 DEF EotKey, OtherKey
  <2>2. began' = began /\ ch' = ch
    BY <2>1 DEF lineVars, chain, began, Began
  <2>3. Loop' /\ Unread'
    BY <1>1, <2>1, LoopRead, ReadNextIs
  <2>4. HasLine'
    BY <1>2, <1>3, <1>9, <2>1, <2>2, LineStays
  <2> QED
    BY <2>2, <2>3, <2>4, <1>17 DEF Inv
<1> QED
  BY <1>10, <1>11, <1>12, <1>13, <1>14, <1>15, <1>16

(* A window takes a byte from getchar's buffer, and fills it first when   *)
(* nothing is left in it.                                                 *)
LEMMA WindowKeyKeeps ==
    ASSUME Inv, WindowKey
    PROVE  Inv'
<1> DEFINE bytes == IF stdio = << >> THEN tty ELSE stdio
<1>1. /\ mode = "windows" /\ stdio \o tty # << >>
      /\ tty' = IF stdio = << >> THEN << >> ELSE tty
      /\ stdio' = Tail(bytes)
      /\ IF Head(bytes) = "tab" THEN win' = NextWin ELSE win' = win
      /\ UNCHANGED lineVars
      /\ hungup' = hungup /\ end' = end /\ intr' = intr /\ ahead' = ahead
      /\ IF win' = 0 THEN ReadNext ELSE mode' = mode
  BY DEF WindowKey
<1>2. /\ Loop /\ Unread /\ Began
      /\ tty \in Seq(Bytes) /\ stdio \in Seq(Bytes)
      /\ win \in 1 .. LastWin /\ LastWin \in Nat
  BY <1>1, BoundAssumption DEF Inv, Loop
<1>3. bytes \in Seq(Bytes) /\ bytes # << >>
  <2>1. stdio = << >> => stdio \o tty = tty
    BY <1>2, ConcatEmptySeq
  <2> QED
    BY <1>1, <1>2, <2>1
<1>4. Tail(bytes) \in Seq(Bytes)
  BY <1>3, HeadTailProperties
<1>5. win' \in 0 .. LastWin
  BY <1>1, <1>2 DEF NextWin
<1>6. IF win' = 0 THEN mode' \in {"read", "run"} ELSE mode' = "windows"
  BY <1>1, ReadNextIs
<1>7. Loop'
  <2>1. mode' \in Modes /\ (mode' = "windows" <=> win' # 0)
    BY <1>6 DEF Modes
  <2>2. tty' \in Seq(Bytes) /\ stdio' \in Seq(Bytes)
    BY <1>1, <1>2, <1>4, NothingLeft
  <2> QED
    BY <1>1, <1>2, <1>5, <2>1, <2>2 DEF Loop
<1>8. Unread'
  <2> SUFFICES ASSUME ahead' = 0 PROVE Unread'
    BY DEF Unread
  <2>1. OneKey(tty) /\ Rest(stdio) /\ (tty = << >> \/ stdio = << >>)
    BY <1>1, <1>2 DEF Unread
  <2>2. tty' = << >>
    BY <1>1, <2>1
  <2>3. Rest(Tail(bytes)) /\ (Head(bytes) = "tab" => Tail(bytes) = << >>)
    BY <1>3, <2>1, RestIs
  <2>4. mode' # "windows" => Head(bytes) = "tab"
    BY <1>1, <1>2, <1>6
  <2> HIDE DEF bytes
  <2> QED
    BY <1>1, <2>2, <2>3, <2>4, NothingLeft DEF Unread
<1>9. HasLine'
  <2>1. PICK n, s, p : OnLine(n, s, p)
    BY <1>1 DEF Inv, NoLine, HasLine
  <2> DEFINE f == n - Blank(s, ch)
  <2>2. f \in Int /\ Fits(f)
    <3>1. Editing(n, s, p)
      BY <2>1 DEF OnLine
    <3>2. n \in Nat /\ Blank(s, ch) \in {0, 1}
      BY <3>1, EditingIs
    <3> QED
      BY <2>1, <3>2 DEF OnLine
  <2>3. ch' = ch
    BY <1>1 DEF lineVars, chain, began, Began
  <2>4. MaxCells \in Nat /\ Reads(0) = 0 /\ Len(<< >>) = 0
    BY CellType, NothingLeft DEF Reads
  <2> HIDE DEF f
  <2>5. CASE stdio = << >>
    <3>1. f <= MaxCells - 1
      <4>1. Len(tty) \in Nat
        BY <1>2, LenProperties
      <4>2. \A m \in Nat : Reads(m) \in Nat
        BY DEF Reads
      <4>3. Reads(Len(tty)) \in Nat
        BY <4>1, <4>2
      <4>4. f + Reads(Len(tty)) <= MaxCells - 1 => f <= MaxCells - 1
        BY <2>2, <2>4, <4>3
      <4> QED
        BY <2>2, <4>4 DEF Fits
    <3>2. Len(tty') = 0
      BY <1>1, <2>4, <2>5
    <3>3. f + 0 <= MaxCells - 1
      BY <2>2, <3>1
    <3> QED
      <4>1. Fits(f)'
        BY <2>3, <2>4, <3>2, <3>3 DEF Fits, f
      <4> QED
        BY <1>1, <2>1, <2>3, <4>1, LineStays DEF f
  <2>6. CASE stdio # << >>
    <3>1. f + Reads(Len(tty)) <= MaxCells - 1
      BY <2>2, <2>6 DEF Fits
    <3>2. Fits(f)'
      BY <1>1, <2>3, <2>6, <3>1 DEF Fits, f
    <3> QED
      BY <1>1, <2>1, <2>3, <3>2, LineStays DEF f
  <2> QED
    BY <2>5, <2>6
<1>10. Began'
  BY <1>1, <1>2 DEF lineVars, began, Began
<1> QED
  BY <1>7, <1>8, <1>9, <1>10 DEF Inv

(* The prompt, the end of the line, and the answer setenv reads.          *)
LEMMA LoopKeeps ==
    ASSUME Inv, Prompt \/ ReadNothing \/ RunLine \/ Answer
    PROVE  Inv'
<1>1. /\ Loop /\ Unread /\ Began /\ (NoLine \/ HasLine)
      /\ hungup \in BOOLEAN /\ end \in BOOLEAN /\ intr \in BOOLEAN
      /\ tty \in Seq(Bytes)
  BY DEF Inv, Loop
<1>2. CASE Prompt
  <2>1. /\ mode = "prompt" /\ tty' = tty /\ stdio' = stdio
        /\ hungup' = hungup /\ win' = win /\ end' = end
        /\ intr' = intr /\ ahead' = ahead /\ ReadNext
    BY <1>2 DEF Prompt
  <2>2. mode' \in Modes /\ (mode' = "windows" <=> mode = "windows")
    BY <2>1, ReadNextIs
  <2>3. Loop' /\ Unread'
    BY <1>1, <2>1, <2>2, LoopStays
  <2>4. HasLine' /\ Began'
    BY <1>1, <1>2, LinePrompted
  <2> QED
    BY <2>3, <2>4 DEF Inv
<1>3. CASE ReadNothing \/ RunLine
  <2>1. /\ mode \in {"read", "run"} /\ tty' = tty /\ stdio' = stdio
        /\ (mode = "read" => tty = << >>)
        /\ hungup' = hungup /\ win' = win /\ ahead' = ahead
        /\ mode' \in {"run", "crashed", "over", "prompt", "ask"}
        /\ end' \in BOOLEAN /\ intr' \in BOOLEAN
        /\ UNCHANGED chain /\ UNCHANGED began
        /\ UNCHANGED screen \/ OtherRow
    <3>1. CASE ReadNothing
      BY <1>1, <3>1 DEF ReadNothing, lineVars
    <3>2. CASE RunLine
      BY <1>1, <3>2 DEF RunLine
    <3> QED
      BY <1>3, <3>1, <3>2
  <2>9. row \in Rows /\ col \in 0 .. Width - 1
    BY <1>1 DEF NoLine, HasLine, OnLine, Editing
  <2>10. row' \in Rows /\ col' \in 0 .. Width - 1
    <3>1. OtherRow => row' \in Rows /\ col' \in 0 .. Width - 1
      BY OtherRowIs
    <3> QED
      BY <2>1, <2>9, <3>1 DEF screen
  <2>2. mode' \in Modes /\ (mode' = "windows" <=> mode = "windows")
    BY <2>1 DEF Modes
  <2>3. Loop' /\ Unread'
    BY <1>1, <2>1, <2>2, LoopStays
  <2>4. Began' /\ ch' = ch
    BY <1>1, <2>1 DEF chain, began, Began
  <2>5. PICK n, s, p : OnLine(n, s, p)
    BY <1>1, <2>1 DEF NoLine, HasLine
  <2>6. (n - Blank(s, ch)) + Reads(Len(tty)) <= MaxCells - 1
    <3>1. mode = "read" => ~(Len(tty) \in 1 .. 3)
      BY <2>1, NothingLeft
    <3> QED
      BY <2>1, <2>5, <3>1 DEF OnLine, Fits
  <2>7. Fits(n - Blank(s, ch))'
    BY <2>1, <2>4, <2>6 DEF Fits
  <2>8. HasLine'
    BY <2>1, <2>5, <2>7, <2>10, LineLeft
  <2> QED
    BY <2>3, <2>4, <2>8 DEF Inv
<1>4. CASE Answer
  <2>1. /\ mode = "ask" /\ tty # << >> /\ tty' = Tail(tty)
        /\ mode' \in {"over", "prompt"} /\ UNCHANGED lineVars
        /\ stdio' = stdio /\ hungup' = hungup /\ win' = win /\ end' = end
        /\ intr' = FALSE /\ ahead' = ahead
    BY <1>4 DEF Answer
  <2>2. tty' \in Seq(Bytes) /\ Len(tty') = Len(tty) - 1 /\ Len(tty) \in Nat
        /\ Len(tty') \in Nat
    <3>1. tty' \in Seq(Bytes) /\ Len(tty') = Len(tty) - 1
      BY <1>1, <2>1, HeadTailProperties
    <3> QED
      BY <1>1, <3>1, LenProperties
  <2>3. Loop'
    <3>1. mode' \in Modes /\ mode' # "windows" /\ win = 0
      BY <1>1, <2>1 DEF Modes, Loop
    <3> QED
      BY <1>1, <2>1, <2>2, <3>1 DEF Loop
  <2>4. Unread'
    <3> SUFFICES ASSUME ahead' = 0 PROVE Unread'
      BY DEF Unread
    <3>1. OneKey(tty) /\ stdio = << >>
      BY <1>1, <2>1 DEF Unread
    <3>2. OneKey(tty')
      BY <1>1, <2>1, <3>1, RestIs
    <3> QED
      BY <2>1, <3>1, <3>2, NothingLeft DEF Unread
  <2>5. Began' /\ ch' = ch
    BY <1>1, <2>1 DEF lineVars, chain, began, Began
  <2>6. PICK n, s, p : OnLine(n, s, p)
    BY <1>1, <2>1 DEF NoLine, HasLine
  <2> DEFINE f == n - Blank(s, ch)
  <2>7. f \in Int /\ Fits(f)
    <3>1. Editing(n, s, p)
      BY <2>6 DEF OnLine
    <3>2. n \in Nat /\ Blank(s, ch) \in {0, 1}
      BY <3>1, EditingIs
    <3> QED
      BY <2>6, <3>2 DEF OnLine
  <2> HIDE DEF f
  <2>8. f + Reads(Len(tty')) <= MaxCells - 1
    <3>1. MaxCells \in Nat
      BY CellType
    <3>2. \A m, k \in Nat : k = m - 1 =>
            /\ Reads(m) \in Nat /\ Reads(k) \in Nat /\ Reads(k) <= Reads(m)
            /\ m = 1 => Reads(k) = 0
      BY DEF Reads
    <3>3. /\ Reads(Len(tty)) \in Nat /\ Reads(Len(tty')) \in Nat
          /\ Reads(Len(tty')) <= Reads(Len(tty))
          /\ Len(tty) = 1 => Reads(Len(tty')) = 0
      BY <2>2, <3>2
    <3>4. \/ f + Reads(Len(tty)) <= MaxCells - 1
          \/ f <= MaxCells - 1 /\ Len(tty) = 1
      BY <2>1, <2>7 DEF Fits
    <3> QED
      BY <2>7, <3>1, <3>3, <3>4
  <2>9. Fits(n - Blank(s, ch))'
    BY <2>5, <2>8 DEF Fits, f
  <2>10. HasLine'
    BY <2>1, <2>6, <2>9, LineStays
  <2> QED
    BY <2>3, <2>4, <2>5, <2>10 DEF Inv
<1> QED
  BY <1>2, <1>3, <1>4

-------------------------------------------------------------------------
(* The theorems.                                                          *)

(* The session starts without a line, and every step keeps the chain, the *)
(* room in it, the row and the order of the bytes.                        *)
THEOREM Safe == Spec => []Inv
<1>1. ASSUME Init PROVE Inv
  <2>1. Width \in Nat /\ Width >= 5 /\ MaxCells \in Nat /\ MaxCells >= 1
    BY WidthIs, CellType
  <2>2. Loop
    <3>1. 0 \in 0 .. LastWin /\ 0 \in 0 .. MaxAhead
      BY BoundAssumption
    <3> QED
      BY <1>1, <3>1, NothingLeft DEF Init, Loop, Modes
  <2>3. Unread
    BY <1>1, NothingLeft DEF Init, Unread
  <2>4. NoLine
    <3>1. row \in Rows /\ col \in 0 .. Width - 1
      <4>1. row \in Leftovers /\ col = 0
        BY <1>1 DEF Init, LineInit
      <4>2. row \in Rows
        BY <4>1, LeftoversAre
      <4>3. 0 \in 0 .. Width - 1
        BY <2>1
      <4> QED
        BY <4>1, <4>2, <4>3
    <3>2. Reads(Len(tty)) <= MaxCells - 1
      <4>1. Len(tty) = 0 /\ Reads(0) = 0
        BY <1>1, NothingLeft DEF Init, Reads
      <4>2. 0 <= MaxCells - 1
        BY <2>1
      <4> QED
        BY <4>1, <4>2
    <3> QED
      BY <1>1, <3>1, <3>2 DEF Init, LineInit, NoLine
  <2> QED
    BY <1>1, <2>2, <2>3, <2>4 DEF Inv, Init, LineInit, Began
<1>2. ASSUME Inv, [Next]_vars PROVE Inv'
  <2>1. ASSUME NEW k \in Keys, Type(k) PROVE Inv'
    BY <1>2, <2>1, TypeKeeps
  <2>2. CASE Terminate \/ Interrupt
    BY <1>2, <2>2, SignalsKeep
  <2>3. CASE \/ ReadChar \/ ReadEnter \/ MoveKey \/ DeleteKey \/ TabKey
             \/ IntKey \/ EotKey \/ OtherKey
    BY <1>2, <2>3, KeysKeep
  <2>4. CASE WindowKey
    BY <1>2, <2>4, WindowKeyKeeps
  <2>5. CASE Prompt \/ ReadNothing \/ RunLine \/ Answer
    BY <1>2, <2>5, LoopKeeps
  <2>6. CASE UNCHANGED vars
    <3>1. /\ tty' = tty /\ stdio' = stdio /\ hungup' = hungup /\ mode' = mode
          /\ win' = win /\ end' = end /\ intr' = intr /\ ahead' = ahead
          /\ head' = head /\ cur' = cur /\ nxt' = nxt /\ prv' = prv
          /\ ch' = ch /\ row' = row /\ col' = col
          /\ inherited' = inherited /\ clean' = clean
      BY <2>6 DEF vars, shellVars, lineVars, chain, screen, began
    <3>2. Loop' /\ Unread' /\ Began'
      BY <1>2, <3>1 DEF Inv, Loop, Unread, Began
    <3>3. NoLine => NoLine'
      BY <3>1 DEF NoLine
    <3>4. ASSUME NEW n, NEW s, NEW p, OnLine(n, s, p) PROVE HasLine'
      <4>1. Fits(n - Blank(s, ch))'
        BY <3>1, <3>4 DEF OnLine, Fits
      <4>2. UNCHANGED lineVars
        BY <2>6 DEF vars
      <4> QED
        BY <3>1, <3>4, <4>1, <4>2, LineStays
    <3> QED
      BY <1>2, <3>2, <3>3, <3>4 DEF Inv, HasLine
  <2> QED
    BY <1>2, <2>1, <2>2, <2>3, <2>4, <2>5, <2>6 DEF Next, ShellStep
<1> QED
  BY <1>1, <1>2, PTL DEF Spec

(* Type correctness: in particular the column stays within the row, and   *)
(* the windows are left for the shell's own.                              *)
THEOREM TypeCorrect == Spec => []TypeOK
<1>1. ASSUME Inv PROVE TypeOK
  <2>1. Loop /\ Began /\ (NoLine \/ HasLine)
    BY <1>1 DEF Inv
  <2>2. Width \in Nat
    BY WidthIs
  <2>3. /\ {head, cur} \subseteq Cells \cup {Nil}
        /\ nxt \in Links /\ prv \in Links /\ ch \in Marks
        /\ row \in Rows /\ col \in 0 .. Width - 1
    <3>1. CASE NoLine
      BY <3>1 DEF NoLine, Links, Marks
    <3>2. ASSUME NEW n, NEW s, NEW p, OnLine(n, s, p)
          PROVE  /\ {head, cur} \subseteq Cells \cup {Nil}
                 /\ nxt \in Links /\ prv \in Links /\ ch \in Marks
                 /\ row \in Rows /\ col \in 0 .. Width - 1
      <4>1. Editing(n, s, p)
        BY <3>2 DEF OnLine
      <4>2. /\ \A i \in 1 .. n : s[i] \in Cells
            /\ p \in 1 .. n /\ 1 \in 1 .. n /\ cur = s[p] /\ head = s[1]
            /\ nxt \in Links /\ prv \in Links /\ ch \in Marks
            /\ row \in Rows /\ col \in 0 .. Width - 1
        BY <4>1, EditingIs
      <4> QED
        BY <4>2
    <3> QED
      BY <2>1, <3>1, <3>2 DEF HasLine
  <2>4. Len(row) = Width
    BY <2>2, <2>3 DEF Rows
  <2>5. {hungup, end, intr, inherited, clean} \subseteq BOOLEAN
    BY <2>1 DEF Loop, Began
  <2> QED
    BY <2>1, <2>3, <2>4, <2>5 DEF TypeOK, Loop, Links, Marks
<1> QED
  BY <1>1, Safe, PTL

(* next_line, add_char, cu_left and cu_del: however keys, signals and     *)
(* prompts follow each other, the line is one chain linked both ways with *)
(* the cursor on it, and no edit reads a freed cell.                      *)
THEOREM ChainStaysLinked == Spec => []ChainIsLinked
<1>1. ASSUME Inv PROVE ChainIsLinked
  <2> SUFFICES ASSUME head # Nil PROVE ChainIsLinked
    BY DEF ChainIsLinked
  <2>1. PICK n, s, p : Editing(n, s, p)
    BY <1>1 DEF Inv, NoLine, HasLine, OnLine
  <2>2. Linked(n, s, head, nxt, prv, ch) /\ p \in 1 .. n /\ cur = s[p]
    BY <2>1 DEF Editing
  <2>3. \A c : c \in Live <=> \E i \in 1 .. n : s[i] = c
    BY <2>2, LiveIs
  <2>4. /\ n \in Nat /\ 1 \in 1 .. n /\ \A i \in 1 .. n : s[i] # Nil
    BY <2>2, LinkedIs
  <2>5. /\ head = s[1]
        /\ \A i \in 1 .. n : nxt[s[i]] = IF i = n THEN Nil ELSE s[i + 1]
        /\ \A i \in 1 .. n : prv[s[i]] = IF i = 1 THEN Nil ELSE s[i - 1]
        /\ \A i \in 2 .. n : ch[s[i]] # Nul
    BY <2>2 DEF Linked
  <2>6. cur \in Live /\ prv[head] = Nil
    BY <2>2, <2>3, <2>4, <2>5
  <2>7. ASSUME NEW i \in 1 .. n
        PROVE  /\ nxt[s[i]] # Nil => prv[nxt[s[i]]] = s[i]
               /\ prv[s[i]] # Nil => nxt[prv[s[i]]] = s[i]
               /\ s[i] # head => ch[s[i]] # Nul
    <3>1. i # n => i + 1 \in 1 .. n /\ i + 1 # 1 /\ (i + 1) - 1 = i
      BY <2>4
    <3>2. i # 1 => i - 1 \in 1 .. n /\ i - 1 # n /\ (i - 1) + 1 = i
      BY <2>4
    <3>3. i # 1 => i \in 2 .. n
      BY <2>4
    <3>4. nxt[s[i]] # Nil => prv[nxt[s[i]]] = s[i]
      BY <2>5, <3>1
    <3>5. prv[s[i]] # Nil => nxt[prv[s[i]]] = s[i]
      BY <2>5, <3>2
    <3> QED
      BY <2>5, <3>3, <3>4, <3>5
  <2> QED
    BY <2>3, <2>6, <2>7 DEF ChainIsLinked
<1> QED
  BY <1>1, Safe, PTL

(* What add_char, cu_left, cu_right and cu_del write on the row is what   *)
(* process_line will be given, and the cursor is where the next character *)
(* goes, but for ^C and for the cells an older line left behind.  Behind  *)
(* the line nothing is shown if the prompt came on a blank row.           *)
THEOREM ScreenIsLine == Spec => []ScreenShowsLine
<1>1. ASSUME Inv PROVE ScreenShowsLine
  <2> SUFFICES ASSUME mode = "read", ~intr, ~inherited
               PROVE  /\ \A x \in 1 .. Width :
                            /\ x <= Len(Line) => row[x] = Line[x]
                            /\ clean /\ x > Len(Line) => row[x] = " "
                      /\ col = Position
    BY DEF ScreenShowsLine
  <2>1. PICK n, s, p : OnLine(n, s, p)
    BY <1>1 DEF Inv, NoLine, HasLine
  <2>2. Editing(n, s, p) /\ OnScreen(n, s, p)
    BY <2>1 DEF OnLine
  <2>3. Linked(n, s, head, nxt, prv, ch) /\ p \in 1 .. n /\ cur = s[p]
    BY <2>2 DEF Editing
  <2> DEFINE o == Blank(s, ch)
             m == n - o
  <2>4. /\ n \in Nat /\ n >= 1 /\ n <= MaxCells /\ MaxCells \in Nat
        /\ o \in {0, 1} /\ row \in Rows /\ col \in 0 .. Width - 1
        /\ Width \in Nat /\ Width >= MaxCells + 4
    BY <2>2, EditingIs, CellType, WidthIs
  <2>5. col + o = p /\ Shows(clean, n, s, ch, row)
    BY <2>2 DEF OnScreen
  <2>6. Position = p - o
    BY <2>3, PositionIs
  <2>7. col = Position
    <3> HIDE DEF o
    <3> QED
      BY <2>3, <2>4, <2>5, <2>6
  <2>8. /\ Line \in Seq(Chars) /\ Len(Line) = m
        /\ \A i \in 1 .. m : Line[i] = ch[s[i + o]]
    BY <2>3, LineIs
  <2>9. \A x \in 1 .. Width :
          row[x] = IF x <= m THEN ch[s[x + o]]
                   ELSE IF clean THEN " " ELSE row[x]
    BY <2>5 DEF Shows
  <2>10. ASSUME NEW x \in 1 .. Width
         PROVE  /\ x <= Len(Line) => row[x] = Line[x]
                /\ clean /\ x > Len(Line) => row[x] = " "
    <3>1. CASE x <= m
      <4>1. x \in 1 .. m /\ ~(x > m)
        BY <2>4, <3>1
      <4> QED
        BY <2>8, <2>9, <3>1, <4>1
    <3>2. CASE ~(x <= m)
      BY <2>8, <2>9, <3>2
    <3> QED
      BY <3>1, <3>2
  <2> QED
    BY <2>7, <2>10
<1> QED
  BY <1>1, Safe, PTL

(* cu_tab's windows read with getchar, the prompt with read: as long as   *)
(* every key came when the shell waited for it, nothing the windows read  *)
(* is left for a later visit.                                             *)
THEOREM NothingHeldBack == Spec => []BufferIsSpent
<1>1. Inv => BufferIsSpent
  BY DEF Inv, Unread, BufferIsSpent
<1> QED
  BY <1>1, Safe, PTL
=========================================================================
