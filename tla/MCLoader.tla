---------------------------- MODULE MCLoader ----------------------------
(* A few programs for Loader: two that it is made for, with the libraries *)
(* in either order, and one for each way a program or its file may differ *)
(* from them.                                                             *)
EXTENDS Loader

SmallLibraries == {"vdso", "a", "b", "c", "p"}
Def(n, off) == [name |-> n, off |-> off]

(* b has two versions of f, and a only mentions g. *)
SmallDynsym == [l \in SmallLibraries |->
    CASE l = "a" -> <<Def("g", 0), Def("f", 1)>>
      [] l = "b" -> <<Def("f", 1), Def("g", 2), Def("f", 3)>>
      [] l = "c" -> <<Def("h", 1)>> [] l = "p" -> <<Def("h", 1)>>
      [] OTHER -> <<>>]
SmallHashed == {"vdso", "a", "b", "p"}
SmallOpenable == {"a", "b", "c", "p"}

Import(n) == [name |-> n, own |-> FALSE]
Own(n) == [name |-> n, own |-> TRUE]

Usual == [runs |-> TRUE, fixed |-> TRUE, file |-> "full", dynamic |-> TRUE,
          lazy |-> TRUE, syms |-> <<Import("f"), Import("g")>>,
          plt |-> <<2, 1>>, needs |-> <<"vdso", "a", "b">>]

SmallPrograms ==
    {Usual,
     [Usual EXCEPT !.needs = <<"vdso", "b", "a">>],
     [Usual EXCEPT !.syms = <<Import("h"), Import("g")>>,
                   !.needs = <<"vdso", "c", "b">>],
     [Usual EXCEPT !.syms = <<Import("f"), Own("g")>>],
     [Usual EXCEPT !.syms = <<Import("g"), Import("f"), Own("h")>>],
     [Usual EXCEPT !.syms = <<Own("h"), Import("g"), Import("f")>>,
                   !.plt = <<2, 3>>],
     [Usual EXCEPT !.plt = <<>>],
     [Usual EXCEPT !.lazy = FALSE],
     [Usual EXCEPT !.dynamic = FALSE],
     [Usual EXCEPT !.file = "stripped"],
     [Usual EXCEPT !.file = "bare"],
     [Usual EXCEPT !.file = "none"],
     [Usual EXCEPT !.fixed = FALSE],
     [Usual EXCEPT !.runs = FALSE]}
=========================================================================
