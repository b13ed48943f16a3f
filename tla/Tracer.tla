----------------------------- MODULE Tracer -----------------------------
(* The traced process and the debugger that drives it: the shell commands *)
(* s, c, cb/rb, b, bd, hb and hbd, what each leaves in the slave's text   *)
(* and debug registers, and how the debugger takes a stop.                *)
(*                                                                        *)
(* run_slave.c (start_slave, take_step, step_prog, cont_loop,             *)
(* blind_cont_prog, slave_status), bp.c, sbp.c, hbp.c, cmd_sbp.c and      *)
(* cmd_hbp.c.  The slave's own program, the processor and ptrace are the  *)
(* environment.  The debugger is one thread that waits whenever the slave *)
(* runs, so a command is cut in actions at its waits only.                *)
(*                                                                        *)
(* A definition marked "mutant" is no part of the model: it is the slip   *)
(* in the code that the property named in PROJECT.json would catch.       *)
EXTENDS BpList, DebugRegs

CONSTANTS
    Text,       \* the mapped addresses of the slave's code
    Instr,      \* those where an instruction of the program begins
    Flow,       \* the instructions that may follow one; {} where it exits
    Entry,      \* where the program stands after execve
    WordSize,   \* bytes PTRACE_PEEKTEXT and POKETEXT move (8 on x86-64)
    BreakAddrs, \* addresses given to b
    WatchArgs,  \* arguments given to hb
    MaxSbp,     \* bound: soft breakpoints alive at once
    MaxHbp,     \* bound: watchpoints alive at once
    MaxId       \* bound: commands resume the slave or add to a list while
                \* every id is within MaxId of zero

ASSUME ProgramAssumption ==
    /\ Text \subseteq Nat
    /\ Instr \subseteq Text
    /\ Entry \in Instr
    /\ Flow \in [Instr -> SUBSET Instr]

ASSUME WordAssumption == WordSize \in Nat \ {0, 1}

(* A watchpoint's type is decoded by set_access from one letter; new_hbp  *)
(* takes a len only if it is even, at most 8 and not 6.                   *)
LenTaken(len) == len <= 8 /\ len % 2 = 0 /\ len # 6

ASSUME CommandAssumption ==
    /\ BreakAddrs \subseteq Nat
    /\ WatchArgs \subseteq [addr : Nat, access : Accesses, len : 0 .. 8,
                            scope : {0, 1}]

ASSUME BoundAssumption ==
    MaxSbp \in Nat /\ MaxHbp \in Nat /\ MaxId \in Nat

VARIABLES
    slave,  \* the process, as ptrace and waitpid see it
    int3,   \* the text addresses that hold 0xcc
    rip,    \* its instruction pointer
    due,    \* history: the instruction its program has reached
    dr,     \* its debug registers 0 to 3
    dr7,    \* its debug register 7
    pid,    \* TRUE when t_slave.pid is not -1
    regs,   \* t_slave.regs.rip, the debugger's copy
    e_sbp, d_sbp, e_hbp, d_hbp,     \* the lists of t_slave
    cmd,    \* the command the debugger is in
    taint   \* history: which hazards of the command set were met

process == <<slave, rip, due>>
debugRegs == <<dr, dr7>>
softBps == <<int3, e_sbp, d_sbp>>
hardBps == <<dr, dr7, e_hbp, d_hbp>>
vars == <<slave, int3, rip, due, dr, dr7, pid, regs, e_sbp, d_sbp,
          e_hbp, d_hbp, cmd, taint>>

(* "running"; "trap" and "signal": stopped by SIGTRAP or by another       *)
(* signal, "exited" and "killed": dead, each not waited for yet;          *)
(* "stopped": the stop was waited for; "reaped": the death was.           *)
SlaveStates ==
    {"running", "trap", "signal", "exited", "killed", "stopped", "reaped"}

(* "start": start_slave waits for the execve; "shell": reading commands;  *)
(* "step", "loop", "cont": inside take_step for s, for c and for rb;      *)
(* "arm": rb's first step; "quit": the debugger is gone.                  *)
Commands == {"start", "shell", "step", "loop", "arm", "cont", "quit"}

Addr == Nat
Sbp == [addr : Addr, saved : SUBSET Text, current : BOOLEAN, id : Int]
Hbp == [addr : Addr, access : Accesses, len : 0 .. 8, scope : {0, 1},
        regnum : Slots, current : BOOLEAN, id : Int]

Init ==
    /\ slave = "running" /\ rip = Entry /\ due = Entry
    /\ int3 = {}
    /\ dr = [i \in Slots |-> 0] /\ dr7 = {}
    /\ pid = TRUE /\ regs = 0
    /\ e_sbp = << >> /\ d_sbp = << >> /\ e_hbp = << >> /\ d_hbp = << >>
    /\ cmd = "start"
    /\ taint = {}

-------------------------------------------------------------------------
(* The slave's side.  A ptrace-stop is entered by what it executes or by  *)
(* a signal.                                                              *)

(* ptrace serves requests on a stopped tracee only.                       *)
Traceable == slave \in {"stopped", "trap", "signal"}

(* After one instruction: a single step traps, PTRACE_CONT goes on.       *)
AfterInstr == IF cmd = "cont" THEN "running" ELSE "trap"

ExecTrap ==
    /\ slave = "running" /\ cmd = "start"
    /\ slave' \in {"trap", "exited"}
    /\ UNCHANGED <<rip, due>>

Execute ==
    /\ slave = "running" /\ cmd # "start"
    /\ rip \in Instr /\ rip \notin int3
    /\ \E next \in Flow[rip] : rip' = next /\ due' = next
    /\ slave' = AfterInstr

(* The pointer is inside an instruction: whatever the bytes there do, it  *)
(* comes out at some instruction, or is signalled.                        *)
Derail ==
    /\ slave = "running" /\ cmd # "start"
    /\ rip \in Text \ Instr /\ rip \notin int3
    /\ \E next \in Instr : rip' = next /\ due' = next
    /\ slave' = AfterInstr

ExecInt3 ==
    /\ slave = "running" /\ cmd # "start"
    /\ rip \in int3
    /\ rip' = rip + 1
    /\ slave' = "trap"
    /\ UNCHANGED due

(* An execute watchpoint traps before the instruction; a data one after   *)
(* the access, that is, before the instruction that follows it.           *)
HwTrap ==
    /\ slave = "running" /\ cmd # "start"
    /\ \E i \in Slots :
        Enables(dr7, i) /\ (OnExecute(dr7, i) => dr[i] = rip)
    /\ slave' = "trap"
    /\ UNCHANGED <<rip, due>>

ExitSlave ==
    /\ slave = "running" /\ cmd # "start"
    /\ rip \in Instr /\ rip \notin int3 /\ Flow[rip] = {}
    /\ slave' = "exited"
    /\ UNCHANGED <<rip, due>>

Signalled ==
    /\ slave = "running" /\ cmd # "start"
    /\ slave' = "signal"
    /\ UNCHANGED <<rip, due>>

(* SIGKILL needs no tracer: it also takes a stopped slave.                *)
Killed ==
    /\ slave \in {"running", "stopped"} /\ cmd # "quit"
    /\ slave' = "killed"
    /\ UNCHANGED <<rip, due>>

SlaveStep ==
    /\ \/ ExecTrap \/ Execute \/ Derail \/ ExecInt3 \/ HwTrap
       \/ ExitSlave \/ Signalled \/ Killed
    /\ UNCHANGED <<int3, dr, dr7, pid, regs, e_sbp, d_sbp, e_hbp, d_hbp,
                   cmd, taint>>

-------------------------------------------------------------------------
(* Soft breakpoints: sbp_set, sbp_unset and the moves between the lists.  *)

Word(a) == a .. a + WordSize - 1
PatchableUnchecked(a) == Traceable      \* mutant: errno is not looked at
Patchable(a) == Traceable /\ Word(a) \subseteq Text

(* sbp_set saves the word and writes it back with 0xcc in its low byte;   *)
(* sbp_enable ignores its failure and moves the node all the same.        *)
SbpEnableKeepsFlag(bp) ==       \* mutant: current is not cleared
    /\ int3' = IF Patchable(bp.addr) THEN int3 \cup {bp.addr} ELSE int3
    /\ e_sbp' = BpAppend(e_sbp, [bp EXCEPT !.saved = {}], 1)
SbpEnable(bp) ==
    LET saved == IF Patchable(bp.addr) THEN int3 \cap Word(bp.addr) ELSE {}
    IN  /\ int3' = IF Patchable(bp.addr) THEN int3 \cup {bp.addr} ELSE int3
        /\ e_sbp' = BpAppend(e_sbp,
                      [bp EXCEPT !.saved = saved, !.current = FALSE], 1)

(* sbp_unset: the debugger's copy of rip is set to the breakpoint's       *)
(* address and written to the slave, then the whole saved word is.        *)
SbpUnsetOnlyRegs(bp) ==         \* mutant: the saved word is not put back
    /\ regs' = bp.addr
    /\ rip' = IF Traceable THEN bp.addr ELSE rip
    /\ UNCHANGED int3
SbpUnset(bp) ==
    /\ regs' = bp.addr
    /\ rip' = IF Traceable THEN bp.addr ELSE rip
    /\ int3' = IF Patchable(bp.addr)
               THEN (int3 \ Word(bp.addr)) \cup bp.saved ELSE int3

(* sbp_disable, after sbp_hdl set current to BP_CURRENT.                  *)
SbpDisableFrees(i) ==           \* mutant: every breakpoint is a one-shot
    /\ SbpUnset(e_sbp[i])
    /\ e_sbp' = BpRemove(e_sbp, i)
    /\ UNCHANGED d_sbp
SbpDisable(i) ==
    /\ SbpUnset(e_sbp[i])
    /\ e_sbp' = BpRemove(e_sbp, i)
    /\ d_sbp' = BpAppend(d_sbp, [e_sbp[i] EXCEPT !.current = TRUE], -1)

(* sbp_restore, first loop: sbp_enable clears the node's nxt before the   *)
(* loop follows it, so the head of d_sbp is all it ever restores.         *)
RestoreSbp ==
    \/ d_sbp = << >> /\ UNCHANGED softBps
    \/ /\ d_sbp # << >>
       /\ SbpEnable(d_sbp[1])
       /\ d_sbp' = BpRemove(d_sbp, 1)

-------------------------------------------------------------------------
(* Watchpoints: hbp_enable, hbp_disable and the second restore loop.      *)

HbpSet(bp) ==
    /\ dr7' = IF Traceable THEN SetDr7(dr7, bp) ELSE dr7
    /\ dr' = IF Traceable THEN [dr EXCEPT ![bp.regnum] = bp.addr] ELSE dr

HbpUnset(bp) ==
    /\ dr7' = IF Traceable THEN UnsetDr7(dr7, bp) ELSE dr7
    /\ UNCHANGED dr

HbpDisableUpwards(i) ==         \* mutant: appended with +1
    /\ HbpUnset(e_hbp[i])
    /\ e_hbp' = BpRemove(e_hbp, i)
    /\ d_hbp' = BpAppend(d_hbp, [e_hbp[i] EXCEPT !.current = TRUE], 1)
HbpDisableKeeps(i) ==           \* mutant: not removed from e_hbp
    /\ HbpUnset(e_hbp[i])
    /\ d_hbp' = BpAppend(d_hbp, [e_hbp[i] EXCEPT !.current = TRUE], -1)
    /\ UNCHANGED e_hbp
HbpDisable(i) ==
    /\ HbpUnset(e_hbp[i])
    /\ e_hbp' = BpRemove(e_hbp, i)
    /\ d_hbp' = BpAppend(d_hbp, [e_hbp[i] EXCEPT !.current = TRUE], -1)

RestoreHbpKeepsFlag ==          \* mutant: current is not cleared
    \/ d_hbp = << >> /\ UNCHANGED hardBps
    \/ /\ d_hbp # << >>
       /\ HbpSet(d_hbp[1])
       /\ e_hbp' = BpAppend(e_hbp, d_hbp[1], 1)
       /\ d_hbp' = BpRemove(d_hbp, 1)
RestoreHbp ==
    \/ d_hbp = << >> /\ UNCHANGED hardBps
    \/ /\ d_hbp # << >>
       /\ HbpSet(d_hbp[1])
       /\ e_hbp' = BpAppend(e_hbp, [d_hbp[1] EXCEPT !.current = FALSE], 1)
       /\ d_hbp' = BpRemove(d_hbp, 1)

SbpRestore == RestoreSbp /\ RestoreHbp

-------------------------------------------------------------------------
(* bp_hdl: which breakpoints a stop at rip is taken for.                  *)

(* step_hdl passes the instruction pointer where get_debug_register wants *)
(* a pid; the request fails, returns -1 and always reads as a single      *)
(* step.  So an enabled breakpoint at rip wins, then one at rip - 1.      *)
SbpHitAtRip == FirstArmed(e_sbp, rip)   \* mutant: rip - 1 is forgotten
SbpHit ==
    IF FirstArmed(e_sbp, rip) # {} THEN FirstArmed(e_sbp, rip)
    ELSE FirstArmed(e_sbp, rip - 1)

HbpHit == FirstAt(e_hbp, rip)

-------------------------------------------------------------------------
(* The commands.  Each begins at the shell and either completes there or  *)
(* lets the slave go and completes when the stop is waited for.           *)

AtShell == cmd = "shell"

IdRoom ==
    \A l \in {e_sbp, d_sbp, e_hbp, d_hbp} :
        \A i \in DOMAIN l : l[i].id \in -MaxId .. MaxId

(* start_slave when waitpid returns.  Without an ELF the child is killed  *)
(* and waited for, also one handle_pty has reaped already.  status then   *)
(* holds what waitpid returned, a pid or -1; whichever message it is read *)
(* as, no pid is kept and nothing is drawn of the slave.                  *)
StartSlave ==
    /\ cmd = "start" /\ slave \in {"trap", "exited", "killed"}
    /\ \E elf \in BOOLEAN :
        IF elf /\ slave = "trap"
        THEN slave' = "stopped" /\ regs' = rip /\ UNCHANGED pid
        ELSE slave' = "reaped" /\ pid' = FALSE /\ UNCHANGED regs
    /\ cmd' = "shell"
    /\ UNCHANGED <<rip, due, int3, dr, dr7, e_sbp, d_sbp, e_hbp, d_hbp,
                   taint>>

(* step_prog, cont_loop: PTRACE_SINGLESTEP.                               *)
Step ==
    /\ AtShell /\ pid /\ slave = "stopped" /\ IdRoom
    /\ slave' = "running"
    /\ cmd' \in {"step", "loop"}
    /\ UNCHANGED <<rip, due, int3, dr, dr7, pid, regs, e_sbp, d_sbp,
                   e_hbp, d_hbp, taint>>

(* blind_cont_prog: with something to restore it steps first, and nothing *)
(* looks at why that step stopped; otherwise it continues at once.        *)
BlindCont ==
    /\ AtShell /\ pid /\ slave = "stopped" /\ IdRoom
    /\ slave' = "running"
    /\ IF d_sbp # << >> \/ d_hbp # << >>
       THEN /\ cmd' = "arm"
            /\ taint' = IF rip \in int3 THEN taint \cup {"blind"} ELSE taint
       ELSE cmd' = "cont" /\ UNCHANGED taint
    /\ UNCHANGED <<rip, due, int3, dr, dr7, pid, regs, e_sbp, d_sbp,
                   e_hbp, d_hbp>>

(* The slave died at the prompt: the resuming request fails, waitpid      *)
(* collects it and slave_status makes slave_exit.  take_step goes on to   *)
(* restore the lists; rb's first step returns before that.                *)
ResumeDead ==
    /\ AtShell /\ pid /\ slave = "killed"
    /\ slave' = "reaped" /\ pid' = FALSE
    /\ \/ SbpRestore
       \/ /\ d_sbp # << >> \/ d_hbp # << >>
          /\ UNCHANGED <<softBps, hardBps>>
    /\ UNCHANGED <<rip, due, regs, cmd, taint>>

InTakeStep == cmd \in {"step", "loop", "cont"}

(* take_step, SIGTRAP and bp_hdl knows the stop: the breakpoint goes to   *)
(* the disabled list and nothing is restored.                             *)
TakeBreak ==
    /\ InTakeStep /\ slave = "trap"
    /\ SbpHit # {} \/ HbpHit # {}
    /\ IF HbpHit # {} THEN \E i \in HbpHit : HbpDisable(i)
       ELSE UNCHANGED hardBps
    /\ IF SbpHit # {} THEN \E i \in SbpHit : SbpDisable(i)
       ELSE regs' = rip /\ UNCHANGED <<rip, softBps>>
    /\ slave' = "stopped" /\ cmd' = "shell"
    /\ UNCHANGED <<due, pid, taint>>

(* take_step, any other SIGTRAP: restore; s and rb are over, c steps on.  *)
TakeTrap ==
    /\ InTakeStep /\ slave = "trap"
    /\ SbpHit = {} /\ HbpHit = {}
    /\ SbpRestore
    /\ regs' = rip
    /\ IF cmd = "loop" THEN slave' = "running" /\ UNCHANGED cmd
       ELSE slave' = "stopped" /\ cmd' = "shell"
    /\ UNCHANGED <<rip, due, pid, taint>>

(* take_step, stopped by another signal, which is never delivered.        *)
TakeSignalBlind ==              \* mutant: no update_slave_state
    /\ InTakeStep /\ slave = "signal"
    /\ SbpRestore
    /\ slave' = "stopped" /\ cmd' = "shell"
    /\ UNCHANGED <<rip, due, pid, regs, taint>>
TakeSignal ==
    /\ InTakeStep /\ slave = "signal"
    /\ SbpRestore
    /\ regs' = rip
    /\ slave' = "stopped" /\ cmd' = "shell"
    /\ UNCHANGED <<rip, due, pid, taint>>

(* take_step, the slave is dead: the lists are restored without it.       *)
TakeDeath ==
    /\ InTakeStep /\ slave \in {"exited", "killed"}
    /\ SbpRestore
    /\ slave' = "reaped" /\ pid' = FALSE /\ cmd' = "shell"
    /\ UNCHANGED <<rip, due, regs, taint>>

(* The end of rb's first step: unless the slave died, restore and         *)
(* continue.                                                              *)
TakeArm ==
    /\ cmd = "arm" /\ slave \in {"trap", "signal"}
    /\ SbpRestore
    /\ slave' = "running" /\ cmd' = "cont"
    /\ UNCHANGED <<rip, due, pid, regs, taint>>

TakeArmDeathKeepsPid ==         \* mutant: slave_exit is not called
    /\ cmd = "arm" /\ slave \in {"exited", "killed"}
    /\ slave' = "reaped" /\ cmd' = "shell"
    /\ UNCHANGED <<rip, due, pid, regs, softBps, hardBps, taint>>
TakeArmDeath ==
    /\ cmd = "arm" /\ slave \in {"exited", "killed"}
    /\ slave' = "reaped" /\ pid' = FALSE /\ cmd' = "shell"
    /\ UNCHANGED <<rip, due, regs, softBps, hardBps, taint>>

(* new_sbp.  Nothing is checked about the slave or the address.           *)
NewSbp(a) ==
    /\ AtShell /\ IdRoom
    /\ Len(e_sbp) + Len(d_sbp) < MaxSbp
    /\ SbpEnable([addr |-> a, saved |-> {}, current |-> FALSE, id |-> 0])
    /\ taint' = IF \E b \in Addrs(e_sbp) \cup Addrs(d_sbp) :
                       Word(a) \cap Word(b) # {}
                THEN taint \cup {"overlap"} ELSE taint
    /\ UNCHANGED <<process, hardBps, pid, regs, d_sbp, cmd>>

(* sbp_delete: a negative id is looked for in the disabled list.          *)
DeleteSbp(id) ==
    /\ AtShell
    /\ LET l == IF id < 0 THEN d_sbp ELSE e_sbp IN
       \E i \in BpById(l, id) :
        /\ SbpUnset(l[i])
        /\ taint' = IF l[i].addr # rip THEN taint \cup {"moved"} ELSE taint
        /\ IF id < 0 THEN d_sbp' = BpRemove(d_sbp, i) /\ UNCHANGED e_sbp
           ELSE e_sbp' = BpRemove(e_sbp, i) /\ UNCHANGED d_sbp
    /\ UNCHANGED <<slave, due, hardBps, pid, cmd>>

(* new_hbp: the register is one no enabled watchpoint uses; on a slave    *)
(* that cannot be traced the last read fails and nothing is kept.         *)
NewHbp(arg) ==
    /\ AtShell /\ slave = "stopped" /\ IdRoom
    /\ Len(e_hbp) + Len(d_hbp) < MaxHbp
    /\ LenTaken(arg.len)
    /\ \E r \in FreeSlot(e_hbp) :
        LET bp == [addr |-> arg.addr, access |-> arg.access,
                   len |-> arg.len, scope |-> arg.scope, regnum |-> r,
                   current |-> FALSE, id |-> 0]
        IN  HbpSet(bp) /\ e_hbp' = BpAppend(e_hbp, bp, 1)
    /\ UNCHANGED <<process, softBps, d_hbp, pid, regs, cmd, taint>>

(* hbp_delete.                                                            *)
DeleteHbp(id) ==
    /\ AtShell
    /\ LET l == IF id < 0 THEN d_hbp ELSE e_hbp IN
       \E i \in BpById(l, id) :
        /\ HbpUnset(l[i])
        /\ IF id < 0 THEN d_hbp' = BpRemove(d_hbp, i) /\ UNCHANGED e_hbp
           ELSE e_hbp' = BpRemove(e_hbp, i) /\ UNCHANGED d_hbp
    /\ UNCHANGED <<process, softBps, pid, regs, cmd, taint>>

(* The end of the session: nothing is given back to the slave.            *)
Quit ==
    /\ AtShell
    /\ cmd' = "quit"
    /\ UNCHANGED <<process, softBps, hardBps, pid, regs, taint>>

Command ==
    \/ StartSlave \/ Step \/ BlindCont \/ ResumeDead
    \/ TakeBreak \/ TakeTrap \/ TakeSignal \/ TakeDeath
    \/ TakeArm \/ TakeArmDeath
    \/ \E a \in BreakAddrs : NewSbp(a)
    \/ \E id \in Ids(e_sbp) \cup Ids(d_sbp) : DeleteSbp(id)
    \/ \E arg \in WatchArgs : NewHbp(arg)
    \/ \E id \in Ids(e_hbp) \cup Ids(d_hbp) : DeleteHbp(id)
    \/ Quit

Next == SlaveStep \/ Command

Spec == Init /\ [][Next]_vars

-------------------------------------------------------------------------
(* Properties.                                                            *)

(* Every variable has its type.                                           *)
TypeOK ==
    /\ slave \in SlaveStates /\ cmd \in Commands
    /\ rip \in Addr /\ due \in Instr /\ regs \in Addr
    /\ int3 \subseteq Text
    /\ dr \in [Slots -> Addr] /\ dr7 \subseteq 0 .. 31
    /\ pid \in BOOLEAN
    /\ e_sbp \in Seq(Sbp) /\ d_sbp \in Seq(Sbp)
    /\ e_hbp \in Seq(Hbp) /\ d_hbp \in Seq(Hbp)
    /\ taint \subseteq {"overlap", "moved", "blind"}

(* bd and hbd choose a list by the sign of the id and then take the first *)
(* node with that id: however the nodes were moved, an id names one node, *)
(* in the list its sign says.                                             *)
IdsNameOneBp ==
    /\ Rising(e_sbp) /\ Falling(d_sbp)
    /\ Rising(e_hbp) /\ Falling(d_hbp)

(* The flag the stop handlers test and the list a node is on agree, so    *)
(* the test never hides an enabled breakpoint.                            *)
FlagMatchesList ==
    /\ \A i \in DOMAIN e_sbp : ~e_sbp[i].current
    /\ \A i \in DOMAIN d_sbp : d_sbp[i].current
    /\ \A i \in DOMAIN e_hbp : ~e_hbp[i].current
    /\ \A i \in DOMAIN d_hbp : d_hbp[i].current

(* The debugger forgets the pid exactly when it has reaped the process:   *)
(* no later command can reach another process under a reused pid, and no  *)
(* zombie is left behind by a command that saw the death.                 *)
PidUntilReaped == pid <=> slave # "reaped"

(* While commands are read, the debugger's copy of rip, which bd writes   *)
(* back with every other register and the next handlers start from, is    *)
(* where the stopped slave really is (bp_hdl, sbp_unset).  What is drawn  *)
(* is another matter: bd moves the slave and redraws no window.           *)
RegsAreSlaves == cmd = "shell" /\ slave = "stopped" => regs = rip

(* Unless breakpoints closer than a word were set, the 0xcc bytes of the  *)
(* text are those of the enabled breakpoints, the saved words are the     *)
(* program's own, and so deleting and restoring never damages code.       *)
TextMatchesLists ==
    "overlap" \notin taint /\ slave \notin {"exited", "killed", "reaped"} =>
        /\ int3 = {a \in Addrs(e_sbp) : Word(a) \subseteq Text}
        /\ \A i \in DOMAIN e_sbp : e_sbp[i].saved = {}
        /\ \A i \in DOMAIN d_sbp : d_sbp[i].saved = {}

(* No address a breakpoint may be set at is directly followed by an       *)
(* instruction that can be reached without it.                            *)
Spaced == \A a \in BreakAddrs : a + 1 \notin Instr

(* Breakpoints are transparent: whenever the slave is let go, it goes on  *)
(* from the instruction its program had reached, the one under a          *)
(* breakpoint included -- unless breakpoints overlapped, one away from    *)
(* rip was deleted, or rb stepped onto an int3.                           *)
GoesOnWhereDue ==
    Spaced /\ taint = {} /\ slave = "running" => rip = due

(* With one-byte watchpoints only, every bit of DR7 was asked for by some *)
(* watchpoint on the enabled list, so that with none there no register is *)
(* enabled.  It need not be the register's own: the fields are misplaced  *)
(* (hbp.h), and the bits of one may keep that of a deleted one enabled.   *)
BitsAreWanted ==
    (\A arg \in WatchArgs : arg.len = 0)
        /\ slave \notin {"exited", "killed", "reaped"} =>
        dr7 \subseteq UNION {BitsOfBp(e_hbp[i]) : i \in DOMAIN e_hbp}

(* Stops, steps and restores move breakpoints between the lists, also     *)
(* those after a resuming request that failed because the slave was dead, *)
(* and only b, hb, bd and hbd, which leave the slave where it is, create  *)
(* or destroy one: no breakpoint is lost or doubled.                      *)
StopsKeepBps ==
    [][cmd # "shell" \/ slave' # slave =>
        /\ \A a \in BreakAddrs :
            CountAt(e_sbp', a) + CountAt(d_sbp', a)
                = CountAt(e_sbp, a) + CountAt(d_sbp, a)
        /\ Len(e_hbp') + Len(d_hbp') = Len(e_hbp) + Len(d_hbp)]_vars

-------------------------------------------------------------------------
(* What the sources say of breakpoints and the code does not do.          *)

(* see_stack.h: e_sbp holds the "Enabled soft breakpoints".               *)
EnabledIsArmed ==
    cmd = "shell" /\ slave = "stopped" =>
        \A i \in DOMAIN e_sbp : e_sbp[i].addr \in int3

(* cmd_help.c: "b 0xdeadbeef - break at address 0xdeadbeef"; under        *)
(* PTRACE_CONT the slave never executes the instruction at a listed       *)
(* breakpoint, other than the one it was stopped at when rb was given,    *)
(* without a stop.                                                        *)
ContStopsAtListed ==
    [][taint = {} /\ cmd = "cont" /\ Execute /\ rip # regs =>
        rip \notin Addrs(e_sbp) \cup Addrs(d_sbp)]_vars

(* cmd_help.c: "hb 0xdeadbeef type ... - break at address 0xdeadbeef";    *)
(* an enabled watchpoint's register holds its address and is enabled.     *)
WatchIsArmed ==
    cmd = "shell" /\ slave = "stopped" =>
        \A i \in DOMAIN e_hbp :
            /\ dr[e_hbp[i].regnum] = e_hbp[i].addr
            /\ Enables(dr7, e_hbp[i].regnum)
=========================================================================
