--------------------------- MODULE MCSession ---------------------------
(* A status file of four lines, one of them empty and one with the pid   *)
(* cut by every block, a PATH of three entries one of which is ".", a     *)
(* word that is a program and a builtin, and one with two builtins.       *)
EXTENDS Session

SmallFile == <<<<"N">>, <<>>, <<"P", "1", "2">>, <<"T", "0">>>>

SmallVars == {"PATH", "PATHEXT", "PWD", "OLDPWD"}
SmallDirs == {"home", "bin"}
SmallValues == SmallDirs \cup {"", "set", "x"}
SmallBegins == [t \in {"PATH", "PWD", "OLD"} |->
    CASE t = "PATH" -> {"PATH", "PATHEXT"} [] t = "PWD" -> {"PWD"}
      [] t = "OLD" -> {"OLDPWD"}]

Var(n, v) == [name |-> n, value |-> v]
SmallInherited ==
    {<<>>, <<Var("PATH", "set")>>, <<Var("PATH", ""), Var("PWD", "home")>>,
     <<Var("PATHEXT", "x"), Var("PWD", "home")>>,
     <<Var("PATH", "set"), Var("PWD", "home")>>,
     <<Var("PATHEXT", "x"), Var("PATH", "set")>>}
SmallGiven == {Var("PATH", "x"), Var("PATHEXT", "x"), Var("PWD", "x")}

SmallPath == <<".", "bin", "home">>
SmallWords == {"ls", "me", "c", "setenv", "unsetenv", "cd", "env", "exit", "no"}
SmallListed == [d \in SmallDirs |->
    IF d = "home" THEN {"me"} ELSE {"ls", "me", "c"}]
SmallBuiltins ==
    <<[word |-> "env", fn |-> "my_env"], [word |-> "setenv", fn |-> "my_setenvi"],
      [word |-> "unsetenv", fn |-> "my_unsetenv"], [word |-> "cd", fn |-> "my_cd"],
      [word |-> "exit", fn |-> "my_exit"], [word |-> "c", fn |-> "run_loop"],
      [word |-> "c", fn |-> "cont_loop"]>>
=========================================================================
