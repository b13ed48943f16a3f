----------------------------- MODULE Loader -----------------------------
(* What the debugger knows of the slave's ELF file and of its libraries:  *)
(* start_slave and elf_get read the tables once, and every stop asks      *)
(* update_elf for what the dynamic linker has done since: the link map    *)
(* and the addresses of the imported symbols.  The info commands read     *)
(* whatever is there.                                                     *)
(*                                                                        *)
(* The program's file, its dynamic linker and a third process that kills  *)
(* it are the environment.  A read of the slave's memory fails when the   *)
(* slave is dead or the library is not mapped; a kill in the middle of    *)
(* one update is taken for one just before or just after it.              *)
(*                                                                        *)
(* A definition marked "mutant" is no part of the model: it is the slip   *)
(* in the code that the property named in PROJECT.json would catch.       *)
EXTENDS Integers, Sequences, Functions

CONSTANTS
    Libraries,  \* the shared objects there are
    Names,      \* names of dynamic symbols
    Dynsym,     \* the table of dynamic symbols of each library
    Hashed,     \* libraries with a DT_HASH table
    Openable,   \* those whose file can be opened; the vdso has none
    Main,       \* the program itself, the first entry of the link map
    Programs,   \* programs to try
    Words       \* values of an Elf64_Word, 2^32 scaled down

Files == {"none", "bare", "stripped", "full"}

(* An entry of a library's table: off is its st_value, 0 where the name   *)
(* is only mentioned.  A name has an entry for each of its versions, and  *)
(* nothing here tells them apart.                                         *)
Entry == [name : Names, off : Nat]
Symbol == [name : Names, own : BOOLEAN]
Program == [runs : BOOLEAN,     \* execve loads it
            fixed : BOOLEAN,    \* ET_EXEC, mapped at 0x400000
            file : Files,       \* what open and the sections give
            dynamic : BOOLEAN,  \* has a PT_DYNAMIC segment
            lazy : BOOLEAN,     \* binds its PLT lazily
            syms : Seq(Symbol), \* .dynsym behind the null symbol; own: has
                                \* a value in the file
            plt : Seq(Nat),     \* symbols of .rela.plt
            needs : Seq(Libraries)]

ASSUME LibraryAssumption ==
    /\ Main \notin Libraries
    /\ Dynsym \in [Libraries -> Seq(Entry)]
    /\ Hashed \subseteq Libraries /\ Openable \subseteq Libraries
ASSUME ProgramAssumption ==
    /\ Programs \subseteq Program
    /\ \A p \in Programs : /\ Len(p.plt) <= Len(p.syms)
                           /\ \A i \in DOMAIN p.plt : p.plt[i] \in 1 .. Len(p.syms)
ASSUME WordAssumption ==
    Words \in Nat /\ \A p \in Programs : Len(p.plt) + 2 < Words

VARIABLES
    prog,       \* the program, and its environment
    mode,       \* "start", "load", "stop", "prompt", "run" or "over"
    pid,        \* t_slave.pid: "zero", "child" or "gone" (-1)
    slave,      \* the process: "none", "alive" or "dead"
    linker,     \* the dynamic linker has run
    loaded,     \* the libraries mapped, in the order of the link map
    elf,        \* t_slave.elf is there, and of its fields:
    symtab,     \* symtab is there
    dynsym,     \* st_value of dynsym, from the entry behind the null symbol
    linkMap,    \* link_map as read, empty for NULL
    sha,        \* sha: the libraries fnt.c searches, its order left out
    linked,     \* linked
    crash,      \* "none", or which null pointer or overrun was met
    shown,      \* the rows the last info command printed
    moved       \* history: libraries that came or went since the map was read

elfVars == <<elf, symtab, dynsym, linkMap, sha, linked>>
slaveVars == <<slave, linker, loaded, moved>>
vars == <<prog, mode, pid, slaveVars, elfVars, crash, shown>>

-------------------------------------------------------------------------
(* Symbols and addresses. *)

(* An address is the base of an object and an offset in it. *)
Addr == [base : Libraries \cup {Main}, off : Nat]
At(l, off) == [base |-> l, off |-> off]
Null == At(Main, 0)

(* Mutant: the null symbol is not counted. *)
NchainsWithoutNull(p) == IF p.plt = <<>> THEN Words - 1 ELSE Len(p.plt)

(* elf_pseudo_nchains: the PLT's relocations have the size of a symbol. *)
Nchains(p) == IF p.plt = <<>> THEN Words - 1 ELSE Len(p.plt) + 1

(* elf_dynsym makes room for nchains + 1 pointers, an Elf64_Word, and     *)
(* fills nchains of them.                                                 *)
Overruns(p) == (Nchains(p) + 1) % Words < Nchains(p)

(* elf_sha_tables: the dynamic section of a mapped library, in which all  *)
(* three tables must be found, DT_HASH among them.                        *)
ElfShaTables(l) ==
    slave = "alive" /\ (\E i \in DOMAIN loaded : loaded[i] = l) /\ l \in Hashed

(* The places of a name in a library's table, and the last of them. *)
Places(l, n) == {e \in DOMAIN Dynsym[l] : Dynsym[l][e].name = n}
LastPlace(l, n) == CHOOSE e \in Places(l, n) : \A f \in Places(l, n) : f <= e

(* elf_dynsym_addr goes through the whole table and keeps the last entry  *)
(* of the name, whichever version it is and whether defined or not.       *)
ElfDynsymAddr(l, n) ==
    IF ElfShaTables(l) /\ Places(l, n) # {}
    THEN At(l, Dynsym[l][LastPlace(l, n)].off)
    ELSE Null

(* Mutant: the search does not stop at the first. *)
GetDynsymLast(map, n) ==
    LET Last(i) == /\ ElfDynsymAddr(map[i], n) # Null
                   /\ \A j \in i + 1 .. Len(map) : ElfDynsymAddr(map[j], n) = Null
    IN  IF \E i \in DOMAIN map : Last(i)
        THEN ElfDynsymAddr(map[CHOOSE i \in DOMAIN map : Last(i)], n)
        ELSE Null

(* get_dynsym: the first object of the map that gives an address.  The    *)
(* program itself, at base 0, gives none for what it imports.             *)
GetDynsym(map, n) ==
    LET First(i) == /\ ElfDynsymAddr(map[i], n) # Null
                    /\ \A j \in 1 .. i - 1 : ElfDynsymAddr(map[j], n) = Null
    IN  IF \E i \in DOMAIN map : First(i)
        THEN ElfDynsymAddr(map[CHOOSE i \in DOMAIN map : First(i)], n)
        ELSE Null

(* elf_populate_dynsym: only symbols without a value are looked for. *)
Populated(map) ==
    [i \in 1 .. Len(dynsym) |-> IF dynsym[i] = Null
                                THEN GetDynsym(map, prog.syms[i].name)
                                ELSE dynsym[i]]

-------------------------------------------------------------------------
(* start_slave. *)

Init ==
    /\ prog \in Programs /\ mode = "start"
    /\ pid = "zero" /\ slave = "none" /\ linker = FALSE /\ loaded = <<>>
    /\ elf = FALSE /\ symtab = FALSE /\ dynsym = <<>> /\ linkMap = <<>>
    /\ sha = {} /\ linked = FALSE
    /\ crash = "none" /\ shown = <<>> /\ moved = {}

(* open_pty or fork fails: main goes on to the prompt all the same, with  *)
(* the pid that was zeroed or with -1.                                    *)
NoSlave(to) ==
    /\ mode = "start" /\ mode' = "prompt" /\ pid' = to
    /\ UNCHANGED <<prog, slaveVars, elfVars, crash, shown>>

(* ptrace_exec; handle_pty returns when the program is loaded, or when    *)
(* the child that could not execute it has exited.                        *)
Exec ==
    /\ mode = "start" /\ mode' = "load" /\ pid' = "child"
    /\ slave' = IF prog.runs THEN "alive" ELSE "dead"
    /\ UNCHANGED <<prog, linker, loaded, moved, elfVars, crash, shown>>

(* elf_ehdr: the header at 0x400000 of a process that is there. *)
ElfEhdr == slave = "alive" /\ prog.fixed

(* Mutant: the pid of the killed child is kept. *)
RefusedKeepsPid ==
    /\ mode = "load" /\ ~ElfEhdr
    /\ slave' = "dead" /\ mode' = "prompt"
    /\ UNCHANGED <<prog, pid, linker, loaded, moved, elfVars, crash, shown>>

(* elf_get returns NULL; the child is killed and waited for, also one     *)
(* that could not execute the program and was reaped by handle_pty: the   *)
(* signal and the wait then find nobody.  The status is overwritten with  *)
(* what waitpid returned, a pid or -1, and read as some message; every    *)
(* reading leaves pid -1 and goes on to the prompt.                       *)
Refused ==
    /\ mode = "load" /\ ~ElfEhdr
    /\ slave' = "dead" /\ pid' = "gone" /\ mode' = "prompt"
    /\ UNCHANGED <<prog, linker, loaded, moved, elfVars, crash, shown>>

(* elf_file_shdr reads the section headers, elf_file_symtab a .symtab. *)
ElfFileShdr == prog.file \in {"stripped", "full"}
ElfFileSymtab == prog.file = "full"

(* What elf_get meets on its way: elf_from_file without a first section   *)
(* header or, if the file cannot be opened, fnt_fsym_strpd without any;   *)
(* elf_dyn without a PT_DYNAMIC segment; elf_dynsym without DT_PLTRELSZ.  *)
LoadCrash ==
    IF ~ElfFileShdr THEN "sections"
    ELSE IF ~prog.dynamic THEN "static"
    ELSE IF Overruns(prog) THEN "nchains"
    ELSE "none"

(* elf_from_file and elf_from_process.  linked says that the file has     *)
(* given one of the symbols a value.                                      *)
Load ==
    /\ mode = "load" /\ ElfEhdr
    /\ crash' = LoadCrash
    /\ IF LoadCrash = "none"
       THEN LET ValueOf(s) == IF s.own THEN At(Main, 1) ELSE Null
            IN  /\ elf' = TRUE /\ symtab' = ElfFileSymtab
                /\ dynsym' = [i \in 1 .. Nchains(prog) - 1 |->
                                 ValueOf(prog.syms[i])]
                /\ linked' = \E i \in 1 .. Nchains(prog) - 1 : prog.syms[i].own
                /\ mode' = "stop"
       ELSE mode' = "over" /\ UNCHANGED <<elf, symtab, dynsym, linked>>
    /\ UNCHANGED <<prog, pid, slaveVars, linkMap, sha, shown>>

-------------------------------------------------------------------------
(* The slave, its dynamic linker and a third process. *)

Running == mode = "run" /\ slave = "alive"

(* ld.so maps what the program needs and, if the PLT is bound lazily,     *)
(* leaves the address of the link map in the second entry of the GOT.     *)
Link ==
    /\ Running /\ ~linker
    /\ linker' = TRUE /\ loaded' = prog.needs
    /\ UNCHANGED <<prog, mode, pid, slave, moved, elfVars, crash, shown>>

Moves(l) == moved' = IF linkMap = <<>> THEN moved ELSE moved \cup {l}

DlOpen(l) ==
    /\ Running /\ linker /\ \A i \in DOMAIN loaded : loaded[i] # l
    /\ loaded' = Append(loaded, l) /\ Moves(l)
    /\ UNCHANGED <<prog, mode, pid, slave, linker, elfVars, crash, shown>>

DlClose(i) ==
    /\ Running /\ \A j \in DOMAIN prog.needs : prog.needs[j] # loaded[i]
    /\ loaded' = SubSeq(loaded, 1, i - 1) \o SubSeq(loaded, i + 1, Len(loaded))
    /\ Moves(loaded[i])
    /\ UNCHANGED <<prog, mode, pid, slave, linker, elfVars, crash, shown>>

(* It exits while it runs, or is killed at any time. *)
Die ==
    /\ slave = "alive" /\ slave' = "dead" /\ mode # "over"
    /\ UNCHANGED <<prog, mode, pid, linker, loaded, moved, elfVars, crash, shown>>

-------------------------------------------------------------------------
(* Commands that let the slave run, and its stops. *)

(* step_slave or cont_slave, for every command that gives a pid > -1.  A  *)
(* slave found dead is waited for at once.                                *)
Resume ==
    /\ mode = "prompt" /\ pid = "child"
    /\ shown' = <<>>
    /\ IF slave = "alive" THEN mode' = "run" /\ UNCHANGED pid
       ELSE pid' = "gone" /\ UNCHANGED mode
    /\ UNCHANGED <<prog, slaveVars, elfVars, crash>>

(* After open_pty has failed pid is 0: there is no child to wait for, and *)
(* slave_status is given a status nobody wrote.  Unless it reads as an    *)
(* exit, update_func goes on without an elf.                              *)
ResumeNobody ==
    /\ mode = "prompt" /\ pid = "zero"
    /\ shown' = <<>>
    /\ \/ pid' = "gone" /\ UNCHANGED <<mode, crash>>
       \/ crash' = "noelf" /\ mode' = "over" /\ UNCHANGED pid
    /\ UNCHANGED <<prog, slaveVars, elfVars>>

Stop ==
    /\ Running /\ mode' = "stop"
    /\ UNCHANGED <<prog, pid, slaveVars, elfVars, crash, shown>>

(* The address of the link map is in the GOT. *)
Got == slave = "alive" /\ linker /\ prog.lazy

(* elf_linkmap: names and addresses, copied entry by entry. *)
ElfLinkmap == IF linkMap = <<>> /\ Got THEN <<Main>> \o loaded ELSE linkMap

(* elf_sha_new wants the file; elf_sha leaves out those it has none of. *)
ElfShaNew(l) == l \in Openable
ElfSha(map) == {map[i] : i \in {j \in DOMAIN map : ElfShaNew(map[j])}}

(* Mutant: the imports are looked for before the map is read. *)
UpdateElfImportsFirst ==
    LET map == ElfLinkmap IN
    /\ linkMap' = map
    /\ sha' = IF linkMap = map THEN sha ELSE ElfSha(map)
    /\ IF linked THEN UNCHANGED <<dynsym, linked>>
       ELSE /\ dynsym' = Populated(linkMap)
            /\ linked' = (dynsym' # dynsym)
    /\ UNCHANGED <<elf, symtab>>

(* update_elf, once for each update a stop brings: a second one finds     *)
(* what the first has found.                                              *)
UpdateElf ==
    LET map == ElfLinkmap IN
    /\ linkMap' = map
    /\ sha' = IF linkMap = map THEN sha ELSE ElfSha(map)
    /\ IF linked THEN UNCHANGED <<dynsym, linked>>
       ELSE /\ dynsym' = Populated(map)
            /\ linked' = (dynsym' # dynsym)
    /\ UNCHANGED <<elf, symtab>>

TakeStop ==
    /\ mode = "stop" /\ mode' = "prompt"
    /\ UpdateElf
    /\ UNCHANGED <<prog, pid, slaveVars, crash, shown>>

(* slave_exit; elf stays. *)
TakeExit ==
    /\ mode = "run" /\ slave = "dead"
    /\ pid' = "gone" /\ mode' = "prompt"
    /\ UNCHANGED <<prog, slaveVars, elfVars, crash, shown>>

-------------------------------------------------------------------------
(* The info commands: the rows each prints, and what it needs to be       *)
(* there.  The row of the null symbol is left out.                        *)

Prints(rows, fault) ==
    /\ mode = "prompt"
    /\ IF fault = "none" THEN shown' = rows /\ UNCHANGED <<mode, crash>>
       ELSE crash' = fault /\ mode' = "over" /\ UNCHANGED shown
    /\ UNCHANGED <<prog, pid, slaveVars, elfVars>>

NoElf == IF elf THEN "none" ELSE "noelf"

(* Mutant: the second entry is passed over, too. *)
LinkmapRowsLess ==
    [i \in 1 .. Len(linkMap) - 2 |->
        [name |-> linkMap[i + 2], value |-> At(linkMap[i + 2], 0)]]

(* il: the program's own entry, without name and base, is passed over. *)
LinkmapRows ==
    [i \in 1 .. Len(linkMap) - 1 |->
        [name |-> linkMap[i + 1], value |-> At(linkMap[i + 1], 0)]]

InfoLinkmap == Prints(LinkmapRows, NoElf)

(* ids *)
DynsymRows ==
    [i \in 1 .. Len(dynsym) |-> [name |-> prog.syms[i].name, value |-> dynsym[i]]]

InfoDynsym == Prints(DynsymRows, NoElf)

(* is: the table of a stripped program is NULL.  Its rows are left out. *)
InfoSymtab == Prints(<<>>, IF elf /\ ~symtab THEN "nosyms" ELSE NoElf)

(* id and ip print tables that never change, and look for elf first. *)
InfoDyntab == Prints(<<>>, "none")
InfoSegment == Prints(<<>>, "none")

(* ish prints the sections of the file. *)
InfoSections == Prints(<<>>, NoElf)

(* ir: the symbol of a relocation is looked for in the copy of .dynsym,   *)
(* and compared with the size of .dynsym itself.                          *)
RelaRows ==
    [i \in 1 .. Len(prog.plt) |->
        [name |-> prog.syms[prog.plt[i]].name, value |-> Null]]

InfoRela ==
    Prints(RelaRows,
           IF elf /\ \E i \in DOMAIN prog.plt : prog.plt[i] >= Nchains(prog)
           THEN "index" ELSE NoElf)

(* exit: free_stuff frees the elf with all that was read. *)
Quit ==
    /\ mode = "prompt" /\ mode' = "over"
    /\ elf' = FALSE /\ symtab' = FALSE /\ dynsym' = <<>> /\ linkMap' = <<>>
    /\ sha' = {} /\ linked' = FALSE
    /\ UNCHANGED <<prog, pid, slaveVars, crash, shown>>

Next ==
    \/ NoSlave("zero") \/ NoSlave("gone") \/ Exec \/ Refused \/ Load
    \/ Link \/ Die \/ Stop
    \/ (\E l \in Libraries : DlOpen(l)) \/ (\E i \in DOMAIN loaded : DlClose(i))
    \/ Resume \/ ResumeNobody \/ TakeStop \/ TakeExit
    \/ InfoLinkmap \/ InfoDynsym \/ InfoSymtab \/ InfoDyntab
    \/ InfoSegment \/ InfoSections \/ InfoRela \/ Quit

Spec == Init /\ [][Next]_vars

-------------------------------------------------------------------------
(* Properties. *)

(* Every variable has its type, the debugger has an elf whenever the user *)
(* may let a child run, and forgets the pid of a child it has reaped      *)
(* (slave_exit in start_slave and slave_status).                          *)
TypeOK ==
    /\ prog \in Programs
    /\ mode \in {"start", "load", "stop", "prompt", "run", "over"}
    /\ pid \in {"zero", "child", "gone"} /\ slave \in {"none", "alive", "dead"}
    /\ linker \in BOOLEAN /\ loaded \in Seq(Libraries) /\ moved \subseteq Libraries
    /\ elf \in BOOLEAN /\ symtab \in BOOLEAN /\ linked \in BOOLEAN
    /\ dynsym \in Seq(Addr) /\ linkMap \in Seq(Libraries \cup {Main})
    /\ sha \subseteq Libraries
    /\ crash \in {"none", "sections", "static", "nchains", "noelf", "nosyms", "index"}
    /\ shown \in Seq([name : Names \cup Libraries, value : Addr])
    /\ mode \in {"prompt", "run", "stop"} /\ pid = "child" => elf
    /\ mode \in {"run", "stop"} => pid = "child"

(* A program as the debugger wants it: a complete file, and a PLT whose   *)
(* symbols come first in .dynsym.                                         *)
Complete(p) ==
    /\ p.runs /\ p.fixed /\ p.file = "full" /\ p.dynamic
    /\ p.plt # <<>> /\ \A i \in DOMAIN p.plt : p.plt[i] <= Len(p.plt)

(* With such a program, once it was loaded, no order of commands, stops,  *)
(* deaths and libraries makes the reading of the tables or an info        *)
(* command follow a null pointer or leave an array (elf_dynsym, info_rela *)
(* and the others).                                                       *)
CompleteIsSafe ==
    Complete(prog) /\ (elf \/ crash \in {"sections", "static", "nchains"})
        => crash = "none"

(* The program's value for a symbol came with the file. *)
Preset == \E i \in 1 .. Len(dynsym) : prog.syms[i].own

(* When the prompt comes back with a slave whose dynamic linker has run   *)
(* and left the address of its link map in the GOT, the map was read,     *)
(* fnt.c has the files of the libraries to search, and every import some  *)
(* mapped library mentions has an address, however often the slave        *)
(* stopped before (update_elf tries again until both are done).  The      *)
(* linker leaves the address for programs that bind lazily only: of one   *)
(* that binds at once the debugger never has a map.  And the imports are  *)
(* not looked for if a symbol had a value in the file (elf_dynsym sets    *)
(* linked).                                                               *)
PromptSeesLinks ==
    mode = "prompt" /\ elf /\ Got =>
        /\ linkMap # <<>>
        /\ \A i \in DOMAIN loaded : loaded[i] \in Openable \ moved => loaded[i] \in sha
        /\ ~Preset => \A i \in 1 .. Len(dynsym), j \in DOMAIN linkMap :
              ElfDynsymAddr(linkMap[j], prog.syms[i].name) # Null
                  => dynsym[i] # Null

Defines(l, n) == \E e \in Places(l, n) : Dynsym[l][e].off # 0
IsLastOf(l, n, addr) ==
    \E e \in Places(l, n) : /\ \A f \in Places(l, n) : f <= e
                            /\ addr = At(l, Dynsym[l][e].off)

(* The address ids shows for an import is that of the name in the library *)
(* the dynamic linker binds it to, the first that defines it              *)
(* (get_dynsym): the one it is bound to, if the library has one version   *)
(* of the name; of several, the last in the table, whatever version the   *)
(* program asks for (elf_dynsym_addr).  It is none if that library's      *)
(* table cannot be read (elf_sha_tables wants DT_HASH), and not this one  *)
(* if a library before it merely mentions the name, which elf_dynsym_addr *)
(* takes for a definition.  Of an indirect function it is the resolver,   *)
(* not what that returned.                                                *)
ShowsBindings ==
    \A i \in 1 .. Len(dynsym), j \in DOMAIN prog.needs :
        LET n == prog.syms[i].name  l == prog.needs[j] IN
        /\ dynsym[i] # Null /\ ~prog.syms[i].own
        /\ Defines(l, n) /\ l \in Hashed
        /\ \A k \in 1 .. j - 1 : Places(prog.needs[k], n) = {}
        => IsLastOf(l, n, dynsym[i])

(* What two lists have outside M is the same, in the same order and       *)
(* number: a rising map takes the places it has in one onto those it has  *)
(* in the other.                                                          *)
SameOutside(M, s, t) ==
    LET Kept(u) == {i \in DOMAIN u : u[i] \notin M} IN
    \E f \in Surjection(Kept(s), Kept(t)) :
        /\ \A i, j \in Kept(s) : i < j => f[i] < f[j]
        /\ \A i \in Kept(s) : t[f[i]] = s[i]

(* il lists the libraries that are mapped, in their order, but for those  *)
(* that came or went since the map was read: it is read once (update_elf).*)
ListsLoaded ==
    LET names == [i \in 1 .. Len(LinkmapRows) |-> LinkmapRows[i].name]
    IN  linkMap # <<>> => SameOutside(moved, names, loaded)
=========================================================================
