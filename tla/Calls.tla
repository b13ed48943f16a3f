------------------------------ MODULE Calls ------------------------------
(* The "Calls / Jumps list": update_func and fnt.c, which guess at every  *)
(* stop, from the instruction at the place seen before, whether the slave *)
(* called, jumped or returned.                                            *)
(*                                                                        *)
(* The slave's program, its stack and the kernel's traps are the          *)
(* environment.  s and c are one action for each instruction (c is s      *)
(* again and again until a breakpoint); rb looks at nothing on its way.   *)
(* Soft breakpoints are here as far as they change what is decoded and    *)
(* which updates a stop brings; Tracer has the rest.                      *)
(*                                                                        *)
(* A definition marked "mutant" is no part of the model: it is the slip   *)
(* in the code that the property named in PROJECT.json would catch.       *)
EXTENDS Integers, SequencesExt, FiniteSetsExt

CONSTANTS
    Code,       \* the mapped addresses of the slave's code
    Local,      \* those in its own .text section
    Symbols,    \* what the symbol tables and the PLT section say
    Programs,   \* programs to try: what each address decodes to
    Entry,      \* where the program starts
    BreakAddrs, \* addresses given to b
    MaxRuns,    \* bound: times rb is given
    MaxDepth,   \* bound: calls the slave is in
    MaxList     \* bound: entries on the list when the slave goes on;
                \* with MaxDepth, those that should be on it

Ops == {"other", "jcc", "jmp", "call", "ret"}

ASSUME ProgramAssumption ==
    /\ Code \subseteq Nat \ {0} /\ IsFiniteSet(Code)
    /\ Local \subseteq Code /\ Entry \in Code
    /\ \A i \in DOMAIN Programs :
          Programs[i] \in [Code -> [op : Ops, to : Code, next : Code]]
    /\ \A a \in BreakAddrs : {a, a + 1} \subseteq Code
ASSUME SymbolAssumption ==
    /\ Symbols \subseteq
          [start : Code, size : Nat, plt : BOOLEAN, own : BOOLEAN]
    /\ \A s \in Symbols : s.own => s.start \notin Local
ASSUME BoundAssumption == {MaxRuns, MaxDepth, MaxList} \subseteq Nat

VARIABLES
    prog,       \* which program it is
    stripped,   \* elf->stripped
    fsym,       \* elf->fsym: the addresses of its nodes, in order
    pc,         \* the slave's instruction pointer
    frames,     \* its stack, innermost call first
    mode,       \* "stop": stopped, "cont": under rb, "exited"
    armed,      \* addresses of the enabled breakpoints
    off,        \* those of the disabled ones, in order
    lst,        \* t_slave.fnt, the newest entry first
    crashed,    \* fnt_prev was called on an empty list
    last,       \* history: the addresses of the last two updates
    returned,   \* history: the last instruction was a return
    runs,       \* history: how often rb was given
    doubt       \* history: which hazards of the list were met

programVars == <<prog, stripped, fsym>>
slaveVars == <<programVars, pc, frames>>
listVars == <<lst, crashed, last>>
vars == <<slaveVars, mode, armed, off, listVars, returned, runs, doubt>>

code == Programs[prog]

-------------------------------------------------------------------------
(* fnt_new: the function an address is in.                                *)

Covers(s, a) == s.start <= a /\ a < s.start + s.size

(* The symbols of the program's file; a stripped file has none.  Its own  *)
(* dynamic table outside of .text, the imports filled in with their       *)
(* addresses and without a size, and the tables of the shared libraries,  *)
(* whose link map is taken to be there from the start.                    *)
LocalTable(strip) ==
    {s \in Symbols : ~s.plt /\ ~s.own /\ s.start \in Local /\ ~strip}
OwnTable == {s \in Symbols : ~s.plt /\ s.own}
SharedTable == {s \in Symbols : ~s.plt /\ ~s.own /\ s.start \notin Local}

(* fnt_extern asks the own table first.                                   *)
FntPltSym(a) == {s \in Symbols : s.plt /\ Covers(s, a)}
FntSym(a, strip) ==
    LET at(table) == {s \in table : s.start = a \/ Covers(s, a)}
    IN  IF a \in Local THEN at(LocalTable(strip))
        ELSE IF at(OwnTable) # {} THEN at(OwnTable)
        ELSE at(SharedTable)

(* fsym_new, on the addresses of the list.  A node linked in behind       *)
(* another never gets its own address.                                    *)
FsymNew(l, a) ==
    LET at == Max({i \in DOMAIN l : \A j \in 2 .. i : l[j] < a})
    IN  IF l = << >> \/ l[1] > a THEN <<a>> \o l
        ELSE IF \E j \in {at, at + 1} \cap DOMAIN l : l[j] = a THEN l
        ELSE InsertAt(l, at + 1, 0)

(* The calls in the text of a stripped program, those of the PLT left     *)
(* out; a target right behind the PLT counts as in it.                    *)
InPlt(a) == \E s \in Symbols : s.plt /\ a \in s.start .. s.start + s.size
IsTarget(p, a) ==
    a \in Local /\ Programs[p][a].op = "call" /\ ~InPlt(Programs[p][a].to)
Fsym(p) ==
    LET upTo[a \in 0 .. Max(Code)] ==
            IF a = 0 THEN << >>
            ELSE IF IsTarget(p, a) THEN FsymNew(upTo[a - 1], Programs[p][a].to)
            ELSE upTo[a - 1]
    IN  upTo[Max(Code)]

(* From the target before the first one not below the address: prv leads  *)
(* past the nodes without an address.  The list is empty if not stripped. *)
FntStripped(a) ==
    LET notBelow == {i \in DOMAIN fsym : fsym[i] >= a}
        before == {i \in DOMAIN fsym :
                      fsym[i] # 0 /\ \A j \in notBelow : i < j}
    IN  IF a \notin Local \/ notBelow = {} \/ before = {} THEN {}
        ELSE LET start == fsym[Max(before)]
             IN  {[start |-> start, size |-> fsym[Min(notBelow)] - start,
                   plt |-> FALSE, own |-> FALSE]}

(* fnt_sym_nosz: the nearest symbol without a size before the address.    *)
(* That of a shared library is never found, its distance wraps around.    *)
FntSymNosz(a, strip) ==
    LET table == IF a \in Local THEN LocalTable(strip) ELSE OwnTable
        before == {s \in table : s.size = 0 /\ s.start < a}
    IN  {s \in before : \A t \in before : t.start <= s.start}

Entered(s, a, unknown) ==
    [start |-> s.start, end |-> s.start + s.size, size |-> s.size,
     unknown |-> unknown, jmp |-> s.plt, rip |-> a]

(* What the tables say, the same at any time.                             *)
Named == [strip \in BOOLEAN |-> [a \in Code |->
            IF FntPltSym(a) # {} THEN FntPltSym(a) ELSE FntSym(a, strip)]]
Unsized == [strip \in BOOLEAN |-> [a \in Code |-> FntSymNosz(a, strip)]]

FntNew(a) ==
    LET found == IF Named[stripped][a] # {} THEN Named[stripped][a]
                 ELSE IF FntStripped(a) # {} THEN FntStripped(a)
                 ELSE Unsized[stripped][a]
    IN  IF found # {} THEN Entered(CHOOSE s \in found : TRUE, a, FALSE)
        ELSE Entered([start |-> a, size |-> 0, plt |-> FALSE, own |-> FALSE],
                     a, TRUE)

(* An address in a function that may be listed without a size: it has no  *)
(* size, or at its start a symbol that has none is found.                 *)
NoSize(a) ==
    \/ FntNew(a).size = 0
    \/ \E s \in Symbols : s.start = FntNew(a).start /\ s.size = 0

(* Two entries fnt_same takes for one function.                           *)
SameFnt(f, g) == f.start = g.start \/ (f.unknown /\ g.unknown)

-------------------------------------------------------------------------
(* update_func.                                                           *)

(* get_code reads the slave's memory: under an int3 it finds the int3.    *)
Decoded(a, int3) == IF a \in int3 THEN "int3" ELSE code[a].op

DropJumps(l) ==
    LET calls == {i \in DOMAIN l : ~l[i].jmp}
    IN  IF calls = {} THEN << >> ELSE SubSeq(l, Min(calls), Len(l))

(* fnt_ret: jumps, the entry returned from, and the jumps below it.       *)
Returns(l, int3) == Len(l) >= 2 /\ Decoded(l[1].rip, int3) = "ret"
PoppedKeepsCallee(l) == DropJumps(l)    \* mutant: nothing below the jumps
PoppedJump(l) == DropJumps(Tail(l))     \* mutant: one entry, not the jumps
Popped(l) == DropJumps(Tail(DropJumps(l)))

(* fnt_call_jmp.                                                          *)
PushedFlagged(l, fnt, int3) ==          \* mutant: the first one is a jump
    LET jumped == l = << >> \/ Decoded(l[1].rip, int3) # "call"
    IN  <<[fnt EXCEPT !.jmp = @ \/ jumped]>> \o l
Pushed(l, fnt, int3) ==
    LET jumped == l # << >> /\ Decoded(l[1].rip, int3) # "call"
    IN  <<[fnt EXCEPT !.jmp = @ \/ jumped]>> \o l

(* fnt_same: an entry without a size ends where it was last seen.         *)
SeenAt(l, a) ==
    <<[l[1] EXCEPT !.rip = a, !.end = IF l[1].size = 0 THEN a ELSE @]>>
        \o Tail(l)

(* The test of update_func that spares it everything else.                *)
InTopAtEnd(l, a) ==                     \* mutant: the end is inside
    l # << >> /\ l[1].start <= a /\ a <= l[1].end
InTop(l, a) == l # << >> /\ l[1].start <= a /\ a < l[1].end

(* The list and whether fnt_prev ran off its end, before and after.       *)
UpdateFunc(st, a, int3) ==
    LET l == st.lst IN
    IF st.crashed THEN st
    ELSE IF InTop(l, a)
         THEN [st EXCEPT !.lst[1].rip = a]
    ELSE IF Returns(l, int3)
         THEN IF DropJumps(l) = << >> THEN [st EXCEPT !.crashed = TRUE]
              ELSE [st EXCEPT !.lst = Popped(l)]
    ELSE IF l # << >> /\ SameFnt(FntNew(a), l[1])
         THEN [st EXCEPT !.lst = SeenAt(l, a)]
    ELSE [st EXCEPT !.lst = Pushed(l, FntNew(a), int3)]

List == [lst |-> lst, crashed |-> crashed]
Becomes(st) == lst' = st.lst /\ crashed' = st.crashed

-------------------------------------------------------------------------
(* The slave: its stack.  Each frame has what should be on the list while *)
(* the slave is in that call: its function, those it has jumped to from   *)
(* there, and what was to be listed before.                               *)

FnOf(a) == IF FntNew(a).unknown THEN 0 ELSE FntNew(a).start
In(a, jmp) == [fn |-> FnOf(a), jmp |-> jmp]

(* An entry of the PLT counts as a jump however it was come to.           *)
Plt(a) == IF FntPltSym(a) # {} THEN {"plt"} ELSE {}

Init ==
    /\ prog \in DOMAIN Programs /\ stripped \in BOOLEAN /\ pc = Entry
    /\ fsym = IF stripped THEN Fsym(prog) ELSE << >>
    /\ frames = <<[back |-> Entry, list |-> <<In(Entry, FALSE)>>,
                   listed |-> TRUE]>>
    /\ mode = "stop" /\ armed = {} /\ off = << >>
    /\ lst = Pushed(<< >>, FntNew(Entry), {}) /\ crashed = FALSE
    /\ last = <<Entry, Entry>> /\ returned = FALSE /\ runs = 0
    /\ doubt = Plt(Entry) \cup IF stripped THEN {"stripped"} ELSE {}

(* A call or jump to where the slave is already is no new function.       *)
Call ==
    /\ code[pc].op = "call" /\ Len(frames) < MaxDepth
    /\ pc' = code[pc].to
    /\ frames' = <<[back |-> code[pc].next, listed |-> FnOf(pc') # FnOf(pc),
                    list |-> IF FnOf(pc') = FnOf(pc) THEN frames[1].list
                             ELSE <<In(pc', FALSE)>> \o frames[1].list]>>
                   \o frames
    /\ returned' = FALSE

Ret ==
    /\ code[pc].op = "ret" /\ Len(frames) > 1
    /\ pc' = frames[1].back /\ frames' = Tail(frames)
    /\ returned' = TRUE

GoOn ==
    /\ \/ code[pc].op \in {"jmp", "jcc"} /\ pc' = code[pc].to
       \/ code[pc].op \in {"other", "jcc"} /\ pc' = code[pc].next
    /\ frames' = IF FnOf(pc') = FnOf(pc) THEN frames
                 ELSE [frames EXCEPT ![1].list = <<In(pc', TRUE)>> \o @]
    /\ Len(frames'[1].list) <= MaxDepth + MaxList
    /\ returned' = FALSE

(* One instruction, or the int3 in its place.                             *)
Execute ==
    \/ pc \notin armed /\ (Call \/ Ret \/ GoOn)
    \/ pc \in armed /\ pc' = pc + 1 /\ UNCHANGED <<frames, returned>>

Exit ==
    /\ mode \in {"stop", "cont"} /\ ~crashed
    /\ pc \notin armed /\ code[pc].op = "ret" /\ Len(frames) = 1
    /\ mode' = "exited"
    /\ UNCHANGED <<slaveVars, armed, off, listVars, returned, runs, doubt>>

-------------------------------------------------------------------------
(* The commands.                                                          *)

(* What one instruction may do that the updates cannot see, or take for   *)
(* something else.  A return is seen when it leaves the function, and is  *)
(* taken for one from a call that is listed.                              *)
Mistaken ==
    IF frames[1].listed THEN FnOf(pc') = FnOf(pc)
    ELSE frames[1].list # frames[2].list \/ NoSize(pc)

(* Such a return; one to a function other than that of the call; to leave *)
(* the place returned to at once; and an int3 at a function's last byte.  *)
Hidden ==
    (IF pc \notin armed /\ returned' /\ Mistaken THEN {"self"} ELSE {}) \cup
    (IF pc \notin armed /\ returned' /\ FnOf(pc') # frames[2].list[1].fn
     THEN {"astray"} ELSE {}) \cup
    (IF returned /\ (FnOf(pc') # FnOf(pc) \/ code[pc].op \in {"call", "ret"})
     THEN {"quick"} ELSE {}) \cup
    (IF pc \in armed /\ FnOf(pc') # FnOf(pc) THEN {"edge"} ELSE {})

(* s and c: one instruction, and a trap.                                  *)
Step ==
    /\ mode = "stop" /\ ~crashed /\ Len(lst) < MaxList
    /\ \/ Execute /\ mode' = "trap" /\ doubt' = doubt \cup Hidden
       \/ mode' = "signal" /\ UNCHANGED <<pc, frames, returned, doubt>>
    /\ UNCHANGED <<programVars, armed, off, listVars, runs>>

RestoreOneKeeps ==                      \* mutant: not taken off d_sbp
    IF off = << >> THEN UNCHANGED <<armed, off>>
    ELSE armed' = armed \cup {Head(off)} /\ UNCHANGED off
RestoreOne ==
    IF off = << >> THEN UNCHANGED <<armed, off>>
    ELSE armed' = armed \cup {Head(off)} /\ off' = Tail(off)

(* rb: with something to restore, one instruction that nobody looks at.   *)
BlindCont ==
    /\ mode = "stop" /\ ~crashed /\ Len(lst) < MaxList /\ runs < MaxRuns
    /\ \/ off # << >> /\ Execute
       \/ UNCHANGED <<pc, frames, returned>>
    /\ RestoreOne
    /\ mode' = "cont" /\ runs' = runs + 1
    /\ UNCHANGED <<programVars, listVars, doubt>>

(* The slave under rb, until an int3, a watchpoint or a signal stops it.  *)
Run ==
    /\ mode = "cont"
    /\ \/ Execute /\ mode' = IF pc \in armed THEN "trap" ELSE "cont"
       \/ mode' \in {"watch", "signal"} /\ UNCHANGED <<pc, frames, returned>>
    /\ UNCHANGED <<programVars, armed, off, listVars, runs, doubt>>

NewSbp(a) ==
    /\ mode = "stop" /\ ~crashed
    /\ a \notin armed \cup ToSet(off)
    /\ armed' = armed \cup {a}
    /\ UNCHANGED <<slaveVars, mode, off, listVars, returned, runs, doubt>>

-------------------------------------------------------------------------
(* A stop is taken by take_step and bp_hdl: the list is brought up to     *)
(* date once, and again by whoever knows the stop.                        *)

Hit(a) == IF a \in armed THEN {a} ELSE {a - 1} \cap armed

(* In a function listed without a size every update asks fnt_ret again.   *)
Reread(a) == IF NoSize(a) /\ code[a].op = "ret" THEN {"reread"} ELSE {}

(* is_fnt_ret reads memory without the saved words: a breakpoint on the   *)
(* return that an entry was last seen at hides it.                        *)
Covered ==
    IF \E i \in DOMAIN lst : /\ lst[i].rip \in armed
                             /\ code[lst[i].rip].op = "ret"
    THEN {"covered"} ELSE {}

(* The list as it is.                                                     *)
Seen == [i \in DOMAIN lst |->
           [fn |-> IF lst[i].unknown THEN 0 ELSE lst[i].start,
            jmp |-> lst[i].jmp]]

(* An entry without a size reaches from its symbol to where the slave was *)
(* last seen in it, and so over the functions between.                    *)
Wide(a) ==
    IF \E i \in DOMAIN lst : /\ lst[i].start <= a /\ a < lst[i].end
                             /\ Seen[i].fn # FnOf(a)
    THEN {"wide"} ELSE {}

(* sbp_hdl updates before sbp_disable moves rip, breaked_update after.    *)
TakeBreak ==
    /\ mode \in {"trap", "watch"}
    /\ \E b \in Hit(pc) :
        /\ Becomes(UpdateFunc(UpdateFunc(UpdateFunc(List, pc, armed),
                                         pc, armed), b, armed \ {b}))
        /\ pc' = b /\ last' = <<pc, b>>
        /\ armed' = armed \ {b} /\ off' = Append(off, b)
        /\ doubt' = doubt \cup Plt(pc) \cup Plt(b) \cup Reread(pc) \cup Covered
                         \cup Wide(pc) \cup Wide(b)
                         \cup (IF FnOf(pc) = FnOf(b) THEN {} ELSE {"edge"})
    /\ mode' = "stop"
    /\ UNCHANGED <<programVars, frames, returned, runs>>

(* hbp_hdl: a second update, and nothing restored.                        *)
TakeWatch ==
    /\ mode \in {"trap", "watch"} /\ Hit(pc) = {}
    /\ Becomes(UpdateFunc(UpdateFunc(List, pc, armed), pc, armed))
    /\ last' = <<pc, pc>>
    /\ mode' = "stop"
    /\ doubt' = doubt \cup Plt(pc) \cup Reread(pc) \cup Covered \cup Wide(pc)
    /\ UNCHANGED <<slaveVars, armed, off, returned, runs>>

(* A single step, a data watchpoint (hbp_hdl knows those at rip only), or *)
(* a signal.                                                              *)
TakeOther ==
    /\ mode \in {"trap", "watch", "signal"}
    /\ Hit(pc) = {} \/ mode = "signal"
    /\ Becomes(UpdateFunc(List, pc, armed))
    /\ last' = <<last[2], pc>>
    /\ RestoreOne
    /\ mode' = "stop"
    /\ doubt' = doubt \cup Plt(pc) \cup Covered \cup Wide(pc)
                     \cup (IF last[2] = pc THEN Reread(pc) ELSE {})
    /\ UNCHANGED <<slaveVars, returned, runs>>

Next ==
    \/ Step \/ BlindCont \/ Run \/ Exit
    \/ \E a \in BreakAddrs : NewSbp(a)
    \/ TakeBreak \/ TakeWatch \/ TakeOther

Spec == Init /\ [][Next]_vars

-------------------------------------------------------------------------
(* Properties.                                                            *)

Entries == [start : Code, end : Nat, size : Nat, unknown : BOOLEAN,
            jmp : BOOLEAN, rip : Nat]

(* Every variable has its type.                                           *)
TypeOK ==
    /\ prog \in DOMAIN Programs /\ pc \in Nat
    /\ stripped \in BOOLEAN /\ fsym \in Seq(Code \cup {0})
    /\ mode \in {"stop", "cont", "trap", "watch", "signal", "exited"}
    /\ armed \subseteq BreakAddrs /\ ToSet(off) \subseteq BreakAddrs
    /\ armed \cap ToSet(off) = {}
    /\ lst \in Seq(Entries) /\ crashed \in BOOLEAN
    /\ runs \in 0 .. MaxRuns /\ doubt \subseteq
          {"astray", "covered", "edge", "plt", "quick", "reread", "self",
           "stripped", "wide"}

(* fnt_ret takes jumps off the list, the function returned from, and more *)
(* jumps, and never runs past the end while it does -- as long as nothing *)
(* of the PLT was entered on the list.                                    *)
WalksOnlyOverPlt == crashed => "plt" \in doubt

(* The function shown as the current one is that of the instruction the   *)
(* slave is at, as soon as two updates found it in that function and no   *)
(* table has it without a size, unless an entry without one has stretched *)
(* over it; whatever ran unseen and whatever was guessed wrong before.    *)
(* Where a breakpoint ever covered a return that an entry was left at,    *)
(* fnt_ret may take a function for over, again and again, once the int3   *)
(* is gone.                                                               *)
Stretched == lst[1].size = 0 /\ InTop(lst, last[2])
TopIsCurrent ==
    mode = "stop" /\ ~crashed /\ ~stripped /\ "covered" \notin doubt
        /\ FnOf(last[1]) = FnOf(last[2]) /\ ~NoSize(last[2]) =>
        /\ lst # << >>
        /\ SameFnt(lst[1], FntNew(last[2])) \/ Stretched

(* The tables as compilers and linkers make them: a symbol that starts in *)
(* another starts with it, under its size or, an import, without one; and *)
(* none runs on past .text.                                               *)
SymbolsApart ==
    /\ \A s, t \in Symbols :
          Covers(s, t.start) => t.start = s.start /\ t.size \in {0, s.size}
    /\ \A s \in Symbols : \A a \in Code :
          Covers(s, a) => (a \in Local <=> s.start \in Local)

(* The list as the slave's stack says it should be.                       *)
Real == frames[1].list
Calls(l) == {i \in DOMAIN l : ~l[i].jmp}

(* f finds the entries of l in m, in the order they have there.           *)
Places(f, l, m) == /\ \A i, j \in DOMAIN f : i < j => f[i] < f[j]
                   /\ \A i \in DOMAIN f : l[i] = m[f[i]]

(* Nothing the code cannot see has happened: the slave was stepped.       *)
Clear == mode = "stop" /\ runs = 0 /\ doubt \subseteq {"covered"}

(* The calls listed are those the slave is in, in their order, through    *)
(* recursion, jumps between functions, breakpoints, watchpoints, signals. *)
CallsAreListed ==
    Clear => \E f \in Bijection(Calls(Seen), Calls(Real)) :
                Places(f, Seen, Real)

(* Nothing is listed, as a call or as a jump, that is over.               *)
NoStaleEntries ==
    Clear => \E f \in [DOMAIN Seen -> DOMAIN Real] : Places(f, Seen, Real)
=========================================================================
