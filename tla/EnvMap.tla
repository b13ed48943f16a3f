----------------------------- MODULE EnvMap -----------------------------
(* What setenv, unsetenv and cd promise of the environment given to the   *)
(* programs the shell runs: a value or none for each variable.            *)
EXTENDS Naturals

CONSTANTS
    Vars,       \* names of variables
    Values,     \* their values, among them Empty and the directories
    Dirs,       \* directories
    Empty,      \* the empty string
    Absent,     \* no value
    Begins      \* the variables whose name begins with a word

VARIABLES
    env,        \* the value of each variable
    cwd         \* the directory the shell is in

Init == env \in [Vars -> Values \cup {Absent}] /\ cwd \in Dirs

Set(n) ==
    /\ env'[n] \in Values /\ env' = [env EXCEPT ![n] = env'[n]]
    /\ UNCHANGED cwd

(* One variable goes whose name begins with the word. *)
Unset(t) ==
    /\ \E n \in Begins[t] : env[n] # Absent /\ env' = [env EXCEPT ![n] = Absent]
    /\ UNCHANGED cwd

Cd(d) ==
    /\ cwd' = d
    /\ env' = [env EXCEPT
                 !["OLDPWD"] = IF env["PWD"] = Absent THEN Empty ELSE env["PWD"],
                 !["PWD"] = d]

Next ==
    \/ \E n \in Vars : Set(n)
    \/ \E t \in DOMAIN Begins : Unset(t)
    \/ \E d \in Dirs : Cd(d)

Spec == Init /\ [][Next]_<<env, cwd>>
=========================================================================
