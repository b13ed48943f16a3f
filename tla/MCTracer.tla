---------------------------- MODULE MCTracer ----------------------------
(* Small programs and command arguments for Tracer.                       *)
EXTENDS Tracer, TLC

(* Three two-byte instructions: 2 -> 4 -> (2 or 6), and 6 exits.          *)
LoopInstr == {2, 4, 6}
LoopText == 2 .. 7
LoopFlow == (2 :> {4}) @@ (4 :> {2, 6}) @@ (6 :> {})

(* The same without the exit: 6 goes back to 2.                           *)
RoundFlow == (2 :> {4}) @@ (4 :> {6}) @@ (6 :> {2, 4})

(* Two of them, and an address outside the text.                          *)
TwoAndUnmapped == {2, 4, 9}
TwoAddrs == {2, 4}
ThreeAddrs == {2, 4, 6}

NoWatch == {}

Watch(a, access, len, scope) ==
    [addr |-> a, access |-> access, len |-> len, scope |-> scope]
ExecAndWrite == {Watch(4, 0, 0, 0), Watch(9, 1, 0, 1)}
=========================================================================
