----------------------------- MODULE MCShell -----------------------------
(* A small alphabet for Shell.                                            *)
EXTENDS Shell

FewChars == {"a", " ", "[", "C", "D"}

(* A blank row, and one with an older text in it.                         *)
SomeRows == {Blanks, [Blanks EXCEPT ![2] = "a"]}
BlankRow == {Blanks}
=========================================================================
