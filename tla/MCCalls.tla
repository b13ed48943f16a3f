----------------------------- MODULE MCCalls -----------------------------
(* Small programs for Calls: main at 10, f right behind it, the imports g *)
(* and h, of which only h has a size in its library, the PLT entry of h   *)
(* at 40 and a function nobody knows at 4.  Instructions have two bytes,  *)
(* returns one.                                                           *)
EXTENDS Calls, TLC

SmallText == (4 .. 6) \cup (10 .. 21)
SmallCode == SmallText \cup (30 .. 35) \cup (40 .. 41)

Sym(start, size) ==
    [start |-> start, size |-> size, plt |-> FALSE, own |-> FALSE]
Import(start) == [Sym(start, 0) EXCEPT !.own = TRUE]
SmallSymbols ==
    {Sym(10, 6), Sym(16, 5), Import(30), Import(34), Sym(34, 2),
     [Sym(40, 2) EXCEPT !.plt = TRUE]}

Does(a, op, to) == [op |-> op, to |-> to, next |-> a + 2]
Plain(a) ==
    [op |-> "other", to |-> a,
     next |-> IF a + 1 \in SmallCode THEN a + 1 ELSE a]

(* What may stand at an address: one of a sequence.                       *)
Instrs ==
    [a \in SmallCode |->
        CASE a \in {6, 14, 20, 32, 35} -> <<[Plain(a) EXCEPT !.op = "ret"]>>
          [] a = 10 -> <<Does(a, "call", 16), Does(a, "call", 40)>>
          [] a = 12 -> <<Does(a, "jmp", 10), Does(a, "call", 30)>>
          [] a = 16 -> <<Does(a, "call", 30), Does(a, "call", 34),
                         Does(a, "jcc", 14)>>
          [] a = 18 -> <<Does(a, "jmp", 30), Does(a, "call", 16),
                         Does(a, "call", 4)>>
          [] a = 30 -> <<Plain(a), Does(a, "jmp", 18)>>
          [] a = 40 -> <<[Plain(a) EXCEPT !.op = "jmp", !.to = 34]>>
          [] OTHER -> <<Plain(a)>>]

(* All programs made of these, each named by its choices.                 *)
Mixed == {a \in SmallCode : Len(Instrs[a]) > 1}
SmallPrograms ==
    [p \in {q \in [Mixed -> 1 .. 3] : \A a \in Mixed : q[a] <= Len(Instrs[a])}
     |-> [a \in SmallCode |-> Instrs[a][IF a \in Mixed THEN p[a] ELSE 1]]]

TwoBreaks == {12, 20}

(* The tables are what the proofs about the list ask for.                 *)
ASSUME TablesApart == SymbolsApart
=========================================================================
