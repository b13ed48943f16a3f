---------------------------- MODULE Session ----------------------------
(* The shell around the debugger: init_mysh copies the environment, reads *)
(* its own pid, builds the tree of programs from PATH and enters the      *)
(* builtins; then each line of the user changes the environment, changes  *)
(* directory, runs a builtin or runs a program and prints what it writes. *)
(*                                                                        *)
(* Programs, their children and the limit on descriptors are the          *)
(* environment.  What the debugger's own commands do is in Tracer, Calls  *)
(* and Loader, how a line is typed in Shell.                              *)
EXTENDS LineReader

CONSTANTS
    Vars, Values, Dirs, Empty, Absent, Begins,  \* as in EnvMap
    Inherited,  \* vectors main may be given
    Given,      \* strings NAME=VALUE given to setenv
    Home,       \* the directory the shell is started in
    SearchPath, \* the entries of its PATH
    Here,       \* the relative one among them, "."
    Listed,     \* what each directory holds
    Words,      \* first words of a line
    Builtins,   \* the calls of add_builtins, in order
    Spare       \* descriptors left for programs: those the debugger opens
                \* for the pty and, for good, each library are taken off

Entry == [name : Vars, value : Values]
NoFn == "none"      \* the function of a program that is no builtin
Fns == {NoFn} \cup {Builtins[i].fn : i \in DOMAIN Builtins}
Prog == [dir : Dirs \cup {Here, Absent}, fn : Fns]
NoProg == [dir |-> Absent, fn |-> NoFn]

ASSUME EnvAssumption ==
    /\ {"PATH", "PWD", "OLDPWD"} \subseteq Vars /\ Dirs \cup {Empty} \subseteq Values
    /\ Absent \notin Values /\ Home \in Dirs /\ Here \notin Dirs \cup {Absent}
    /\ \A t \in DOMAIN Begins : Begins[t] \subseteq Vars
    /\ Given \subseteq Entry
    /\ \A e \in Inherited : e \in Seq(Entry) /\ IsInjective([i \in DOMAIN e |-> e[i].name])
ASSUME TreeAssumption ==
    /\ SearchPath \in Seq(Dirs \cup {Here}) /\ Listed \in [Dirs -> SUBSET Words]
    /\ Builtins \in Seq([word : Words, fn : STRING]) /\ Spare \in Nat
    /\ \A i \in DOMAIN Builtins : Builtins[i].fn # NoFn

VARIABLES
    phase,      \* "getpid", "path", "prompt", "reading", "waiting" or "over"
    environ,    \* s_term->environ, the vector of strings
    copied,     \* it was copied; else s_term->environ is NULL
    cwd,        \* the shell's working directory
    tree,       \* s_term->progs: the program of each word
    dirs,       \* entries of PATH read, and
    left,       \* the names readdir still has
    lost,       \* descriptors that were opened for pipes and not closed
    writers,    \* who holds the writing end of the pipe
    child,      \* the program: "none", "alive" or "dead"
    did,        \* history: what became of the last word
    tried       \* history: programs run, with those fork failed for twice

envVars == <<environ, copied, cwd>>
treeVars == <<tree, dirs, left>>
pipeVars == <<writers, child>>
vars == <<readerVars, phase, envVars, treeVars, lost, pipeVars, did, tried>>

-------------------------------------------------------------------------
(* The vector of the environment. *)

Has(n) == \E i \in DOMAIN environ : environ[i].name = n

(* my_getenv: the first of its name. *)
Value(n) ==
    LET First(i) == environ[i].name = n /\ \A j \in 1 .. i - 1 : environ[j].name # n
    IN  IF Has(n) THEN environ[CHOOSE i \in DOMAIN environ : First(i)].value
        ELSE Absent

(* Mutant: no look at what is there. *)
MySetenvAppends(e, n, v) == Append(e, [name |-> n, value |-> v])

(* my_setenv: ow_env_var in place, or add_env_var at the end. *)
MySetenv(e, n, v) ==
    LET at == SelectInSeq(e, LAMBDA x : x.name = n)
    IN  IF at # 0 THEN [e EXCEPT ![at].value = v]
        ELSE Append(e, [name |-> n, value |-> v])

(* del_envvar: the first string that begins with the word. *)
DelEnvvar(e, t) == RemoveFirstMatch(e, LAMBDA x : x.name \in Begins[t])

-------------------------------------------------------------------------
(* init_mysh. *)

(* With fewer than two variables get_environ makes no copy.  Without any  *)
(* init_mysh does nothing and main ends.                                  *)
Init ==
    /\ ReaderInit
    /\ environ \in Inherited /\ copied = (Len(environ) >= 2) /\ cwd = Home
    /\ phase = IF environ = <<>> THEN "over" ELSE "getpid"
    /\ tree = [w \in Words |-> NoProg] /\ dirs = 0 /\ left = {}
    /\ lost = 0 /\ writers = {} /\ child = "none"
    /\ tried = 0
    /\ did = [word |-> "none", how |-> "none", prog |-> NoProg, there |-> TRUE]

Getpid ==
    /\ phase = "getpid" /\ (ReadAgain \/ GetNextLine)
    /\ UNCHANGED <<phase, envVars, treeVars, lost, pipeVars, did, tried>>

(* open fails: get_next_line(-1) reads before the start of its table.     *)
NoStatus ==
    /\ phase = "getpid" /\ rest = Text /\ blocks = <<>>
    /\ phase' = "over"
    /\ UNCHANGED <<readerVars, envVars, treeVars, lost, pipeVars, did, tried>>

(* The PATH of main's own argument decides whether there is a session. *)
GotPid ==
    /\ phase = "getpid" /\ AtEof
    /\ phase' = IF Has("PATH") /\ Value("PATH") # Empty THEN "path" ELSE "over"
    /\ UNCHANGED <<readerVars, envVars, treeVars, lost, pipeVars, did, tried>>

(* The directory an entry of PATH means to a shell that is in d. *)
Resolved(entry, d) == IF entry = Here THEN d ELSE entry

(* add_dir_progs: opendir.  A directory that is not there has no names. *)
OpenDir ==
    /\ phase = "path" /\ left = {} /\ dirs < Len(SearchPath)
    /\ dirs' = dirs + 1
    /\ left' = Listed[Resolved(SearchPath[dirs + 1], cwd)]
    /\ UNCHANGED <<readerVars, phase, envVars, tree, lost, pipeVars, did, tried>>

(* Mutant: a later directory takes the place of an earlier one. *)
AddedLast(w) == [dir |-> SearchPath[dirs], fn |-> NoFn]

(* add_prog keeps the program a word already has.  stat is asked about    *)
(* the directory, and so never fails.                                     *)
Added(w) == IF tree[w] = NoProg THEN [dir |-> SearchPath[dirs], fn |-> NoFn]
            ELSE tree[w]

AddProg(w) ==
    /\ phase = "path" /\ w \in left
    /\ left' = left \ {w}
    /\ tree' = [tree EXCEPT ![w] = Added(w)]
    /\ UNCHANGED <<readerVars, phase, envVars, dirs, lost, pipeVars, did, tried>>

(* add_builtins: each takes the place of a program and of the builtins    *)
(* before it with its name.                                               *)
AddBuiltins ==
    /\ phase = "path" /\ left = {} /\ dirs = Len(SearchPath)
    /\ phase' = "prompt"
    /\ tree' = [w \in Words |->
         LET at == SelectLastInSeq(Builtins, LAMBDA b : b.word = w)
         IN  IF at = 0 THEN tree[w] ELSE [dir |-> Absent, fn |-> Builtins[at].fn]]
    /\ UNCHANGED <<readerVars, envVars, dirs, left, lost, pipeVars, did, tried>>

-------------------------------------------------------------------------
(* process_line: find_prog, and the builtins. *)

(* The file of a program is where execve looks for it. *)
There(w) == tree[w].dir = Absent \/ w \in Listed[Resolved(tree[w].dir, cwd)]

Prompted(w, how) ==
    /\ phase = "prompt"
    /\ did' = [word |-> w, how |-> how, prog |-> tree[w], there |-> There(w)]
    /\ UNCHANGED <<readerVars, copied, treeVars>>

Builtin(w, fn) == tree[w].fn = fn /\ Prompted(w, "builtin")

(* Without a copy of the environment the builtins follow a null pointer. *)
Goes == phase' = IF copied THEN "prompt" ELSE "over"
Still == UNCHANGED <<lost, pipeVars, tried>>

(* setenv asks before it changes a variable. *)
Setenv(w, e, answer) ==
    /\ Builtin(w, "my_setenvi") /\ Goes /\ Still
    /\ environ' = IF copied /\ (answer \/ ~Has(e.name))
                  THEN MySetenv(environ, e.name, e.value)
                  ELSE environ
    /\ UNCHANGED cwd

Unsetenv(w, t) ==
    /\ Builtin(w, "my_unsetenv") /\ Goes /\ Still
    /\ environ' = IF copied THEN DelEnvvar(environ, t) ELSE environ
    /\ UNCHANGED cwd

Env(w) == Builtin(w, "my_env") /\ Goes /\ Still /\ UNCHANGED <<environ, cwd>>

(* Mutant: the old directory is looked up after PWD was changed. *)
AfterCdLate(d) ==
    LET moved == MySetenv(environ, "PWD", d)
    IN  MySetenv(moved, "OLDPWD", d)

(* my_cd: OLDPWD takes what PWD said, PWD takes the working directory. *)
AfterCd(d) ==
    LET old == MySetenv(environ, "OLDPWD", IF Has("PWD") THEN Value("PWD") ELSE Empty)
    IN  MySetenv(old, "PWD", d)

Cd(w, d) ==
    /\ Builtin(w, "my_cd") /\ Goes /\ Still
    /\ IF copied THEN cwd' = d /\ environ' = AfterCd(d)
       ELSE UNCHANGED <<cwd, environ>>

(* setenv without NAME=VALUE and unsetenv without a word do nothing, nor  *)
(* does cd without a directory that can be entered: none of them looks at *)
(* the environment.                                                       *)
Declined(w) ==
    /\ tree[w].fn \in {"my_setenvi", "my_unsetenv", "my_cd"}
    /\ Prompted(w, "builtin") /\ UNCHANGED phase /\ Still
    /\ UNCHANGED <<environ, cwd>>

(* The shell sends SIGTERM to the pid it has read. *)
Exit(w) ==
    /\ Builtin(w, "my_exit") /\ phase' = "over" /\ Still
    /\ UNCHANGED <<environ, cwd>>

(* A command of the debugger.  The descriptors it opens are no part of    *)
(* Spare.                                                                 *)
Debug(w) ==
    /\ tree[w].fn \notin {NoFn, "my_setenvi", "my_unsetenv", "my_env", "my_cd", "my_exit"}
    /\ Prompted(w, "builtin") /\ UNCHANGED phase /\ Still
    /\ UNCHANGED <<environ, cwd>>

NotFound(w) ==
    /\ tree[w] = NoProg /\ Prompted(w, "unknown") /\ UNCHANGED phase /\ Still
    /\ UNCHANGED <<environ, cwd>>

-------------------------------------------------------------------------
(* exe_cmd. *)

External(w, how) ==
    /\ tree[w] # NoProg /\ tree[w].fn = NoFn /\ Prompted(w, how)
    /\ UNCHANGED <<environ, cwd>>

(* pipe fails; nothing is printed. *)
NoPipe(w) ==
    /\ lost + 2 > Spare
    /\ External(w, "refused") /\ UNCHANGED phase /\ Still

(* fork fails: neither end of the pipe is closed. *)
NoFork(w) ==
    /\ lost + 2 <= Spare
    /\ External(w, "nofork") /\ UNCHANGED <<phase, pipeVars>>
    /\ lost' = lost + 2 /\ tried' = tried + 2

(* Mutant: the parent keeps its writing end. *)
ForkKeepsWriter(w) ==
    /\ lost + 2 <= Spare
    /\ External(w, "file") /\ phase' = "reading"
    /\ writers' = {"shell", "child"} /\ child' = "alive"
    /\ tried' = tried + 1 /\ UNCHANGED lost

(* The child has the writing end, the parent closes its own and reads.    *)
(* If the file is not there, the child exits.                             *)
Fork(w) ==
    /\ lost + 2 <= Spare
    /\ External(w, "file") /\ phase' = "reading"
    /\ writers' = {"child"} /\ child' = "alive"
    /\ tried' = tried + 1 /\ UNCHANGED lost

(* End of file: nobody can write any more. *)
ReadEof ==
    /\ phase = "reading" /\ writers = {} /\ phase' = "waiting"
    /\ UNCHANGED <<readerVars, envVars, treeVars, lost, pipeVars, did, tried>>

(* The reading end stays open. *)
Waitpid ==
    /\ phase = "waiting" /\ child = "dead"
    /\ phase' = "prompt" /\ child' = "none" /\ lost' = lost + 1
    /\ UNCHANGED <<readerVars, envVars, treeVars, writers, did, tried>>

(* The program leaves a child of its own behind, which holds the pipe;    *)
(* closes its output; exits.                                              *)
Heirs ==
    /\ \/ /\ child = "alive" /\ writers' = writers \cup {"heir"} /\ UNCHANGED child
       \/ "heir" \in writers /\ writers' = writers \ {"heir"} /\ UNCHANGED child
       \/ /\ child = "alive" /\ "child" \in writers
          /\ writers' = writers \ {"child"} /\ UNCHANGED child
       \/ /\ child = "alive" /\ child' = "dead" /\ writers' = writers \ {"child"}
    /\ UNCHANGED <<readerVars, phase, envVars, treeVars, lost, did, tried>>

-------------------------------------------------------------------------
Command(w) ==
    \/ \E e \in Given, a \in BOOLEAN : Setenv(w, e, a)
    \/ \E t \in DOMAIN Begins : Unsetenv(w, t)
    \/ Env(w) \/ (\E d \in Dirs : Cd(w, d)) \/ Declined(w) \/ Exit(w)
    \/ Debug(w) \/ NotFound(w) \/ NoPipe(w) \/ NoFork(w) \/ Fork(w)

ShellStep ==
    \/ Getpid \/ GotPid \/ OpenDir \/ (\E w \in Words : AddProg(w)) \/ AddBuiltins
    \/ ReadEof \/ Waitpid

Next == ShellStep \/ NoStatus \/ Heirs \/ \E w \in Words : Command(w)

Spec == Init /\ [][Next]_vars /\ WF_vars(ShellStep)

-------------------------------------------------------------------------
(* Properties. *)

(* Every variable has its type, and no variable is in the vector twice,   *)
(* so that my_getenv, ow_env_var and a program that is run agree on its   *)
(* value.                                                                 *)
TypeOK ==
    /\ phase \in {"getpid", "path", "prompt", "reading", "waiting", "over"}
    /\ environ \in Seq(Entry) /\ IsInjective([i \in DOMAIN environ |-> environ[i].name])
    /\ copied \in BOOLEAN /\ cwd \in Dirs /\ tree \in [Words -> Prog]
    /\ dirs \in 0 .. Len(SearchPath) /\ left \subseteq Words
    /\ lost \in 0 .. Spare /\ tried \in Nat
    /\ writers \subseteq {"child", "heir"} /\ child \in {"none", "alive", "dead"}
    /\ phase \in {"reading", "waiting"} <=> child # "none"

Map == INSTANCE EnvMap WITH env <- [n \in Vars |-> Value(n)]

(* The vector is a map: setenv changes one variable, cd PWD and OLDPWD,   *)
(* unsetenv takes out one that begins with its word, and nothing else     *)
(* changes any (MySetenv, del_envvar, my_cd).                             *)
IsEnvMap == Map!Spec

(* The place of a word in PATH as it was when the shell started. *)
FirstDir(w) ==
    SelectInSeq(SearchPath, LAMBDA p : w \in Listed[Resolved(p, Home)])

(* What a word runs: the last builtin entered under it, or else the       *)
(* program of the first directory that had it when the shell started,     *)
(* whatever setenv and cd did since.  It is there to be run, unless it    *)
(* was found in "." and the shell has left that directory (find_prog,     *)
(* exe_cmd).  A program is refused only after as many were run as there   *)
(* were descriptors, but one: each loses the reading end of its pipe.     *)
WordMeans ==
    LET w == did.word
        last == SelectLastInSeq(Builtins, LAMBDA b : b.word = w)
    IN  CASE did.how = "none" -> TRUE
          [] did.how = "builtin" -> last # 0 /\ did.prog.fn = Builtins[last].fn
          [] did.how = "unknown" -> last = 0 /\ FirstDir(w) = 0
          [] OTHER ->
               /\ last = 0 /\ did.prog.dir = SearchPath[FirstDir(w)]
               /\ did.there \/ (did.prog.dir = Here /\ cwd # Home)
               /\ did.how = "refused" => tried + 2 > Spare

(* The prompt comes back when the program has exited and nobody it left   *)
(* behind holds the pipe.                                                 *)
PromptReturns ==
    (child = "dead" /\ "heir" \notin writers) ~> (phase = "prompt")
=========================================================================
