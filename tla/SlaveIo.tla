----------------------------- MODULE SlaveIo -----------------------------
(* The slave's terminal while the slave runs: handle_pty, slave_input and *)
(* slave_output of slave_io.c, between the user's terminal, the pty and a *)
(* slave that reads and writes as it likes.                               *)
(*                                                                        *)
(* The pty keeps its default line discipline: what is written to the      *)
(* master is echoed to it, a read of the slave ends at a line end, and a  *)
(* write of the slave blocks when nobody reads the master.                *)
(*                                                                        *)
(* A definition marked "mutant" is no part of the model: it is the slip   *)
(* in the code that the property named in PROJECT.json would catch.       *)
EXTENDS Integers, Sequences, FiniteSets, SequencesExt

CONSTANTS
    MaxTyped,   \* bound: keys typed and not read
    MaxOut,     \* bytes the pty holds for the debugger
    MaxLines    \* bound: whole lines the pty holds for the slave

ASSUME BoundAssumption ==
    MaxTyped \in Nat /\ MaxOut \in Nat \ {0} /\ MaxLines \in Nat

VARIABLES
    slave,      \* the process
    mode,       \* where handle_pty is
    ready,      \* what select reported: "stdin", "fdm"
    tty,        \* keys the user typed
    out,        \* bytes in the pty for the debugger, echo included
    lines,      \* lines in the pty for the slave
    partial     \* whether the pty holds the beginning of one

vars == <<slave, mode, ready, tty, out, lines, partial>>

(* "reading", "writing": blocked in the system call; "stopped": stopped   *)
(* or dead, not waited for.                                               *)
SlaveStates == {"running", "reading", "writing", "stopped", "waited"}

(* "input": blocked in slave_input's read; "output": about to read the    *)
(* master; "poll": waitpid with WNOHANG; "wait": waitpid without; "idle": *)
(* returned, with the shell.                                              *)
Modes == {"select", "input", "output", "poll", "wait", "idle"}

(* "text" is any byte but the carriage return, ^C and ^D.                 *)
Keys == {"text", "cr", "int", "eot"}

Blocked == slave \in {"reading", "writing"}

Init ==
    /\ slave = "running" /\ mode = "select"
    /\ ready = {} /\ tty = << >>
    /\ out = 0 /\ lines = 0 /\ partial = FALSE

-------------------------------------------------------------------------
(* The slave, the kernel and the user.                                    *)

Write ==
    /\ slave = "running"
    /\ IF out < MaxOut THEN out' = out + 1 /\ UNCHANGED slave
       ELSE slave' = "writing" /\ UNCHANGED out
    /\ UNCHANGED <<mode, ready, tty, lines, partial>>

Read ==
    /\ slave = "running"
    /\ IF lines > 0 THEN lines' = lines - 1 /\ UNCHANGED slave
       ELSE slave' = "reading" /\ UNCHANGED lines
    /\ UNCHANGED <<mode, ready, tty, out, partial>>

WriteEnds ==
    /\ slave = "writing" /\ out < MaxOut
    /\ slave' = "running" /\ out' = out + 1
    /\ UNCHANGED <<mode, ready, tty, lines, partial>>

ReadEnds ==
    /\ slave = "reading" /\ lines > 0
    /\ slave' = "running" /\ lines' = lines - 1
    /\ UNCHANGED <<mode, ready, tty, out, partial>>

(* A trap, a signal of its own or an exit.                                *)
Stop ==
    /\ slave = "running"
    /\ slave' = "stopped"
    /\ UNCHANGED <<mode, ready, tty, out, lines, partial>>

(* A signal from a third process also ends a blocked call.                *)
Killed ==
    /\ Blocked
    /\ slave' = "stopped"
    /\ UNCHANGED <<mode, ready, tty, out, lines, partial>>

Type(k) ==
    /\ mode # "idle"
    /\ Len(tty) < MaxTyped /\ lines + Len(tty) < MaxLines
    /\ tty' = Append(tty, k)
    /\ UNCHANGED <<slave, mode, ready, out, lines, partial>>

(* A signal for the debugger interrupts select; waitpid and read are      *)
(* restarted.                                                             *)
Interrupted ==
    /\ mode = "select"
    /\ mode' = "wait"
    /\ UNCHANGED <<slave, ready, tty, out, lines, partial>>

-------------------------------------------------------------------------
(* The debugger.                                                          *)

(* select: with nothing to read it times out after 10 microseconds.  The  *)
(* terminal is served first, the pty after it.                            *)
SelectBlocks ==                 \* mutant: no timeout
    /\ mode = "select" /\ (tty # << >> \/ out > 0)
    /\ ready' = (IF tty # << >> THEN {"stdin"} ELSE {})
                \cup (IF out > 0 THEN {"fdm"} ELSE {})
    /\ mode' = IF tty # << >> THEN "input" ELSE "output"
    /\ UNCHANGED <<slave, tty, out, lines, partial>>
Select ==
    /\ mode = "select"
    /\ ready' = (IF tty # << >> THEN {"stdin"} ELSE {})
                \cup (IF out > 0 THEN {"fdm"} ELSE {})
    /\ mode' = IF tty # << >> THEN "input"
               ELSE IF out > 0 THEN "output" ELSE "poll"
    /\ UNCHANGED <<slave, tty, out, lines, partial>>

AfterInput == IF "fdm" \in ready THEN "output" ELSE "poll"

(* What a write of n bytes to the master leaves to be read back.          *)
Echoed(n) == IF out + n < MaxOut THEN out + n ELSE MaxOut

(* One read of slave_input takes all that was typed.  ^D counts before    *)
(* ^C, and each ends the call with the rest of the bytes dropped; ^D      *)
(* writes a newline.                                                      *)
InputEotKeeps ==                \* mutant: ^D writes nothing
    /\ mode = "input" /\ Contains(tty, "eot")
    /\ mode' = AfterInput /\ tty' = << >>
    /\ UNCHANGED <<slave, ready, out, lines, partial>>
InputEot ==
    /\ mode = "input" /\ Contains(tty, "eot")
    /\ lines' = lines + 1 /\ partial' = FALSE /\ out' = Echoed(1)
    /\ mode' = AfterInput /\ tty' = << >>
    /\ UNCHANGED <<slave, ready>>

(* kill(pid, SIGINT); a slave already stopped keeps it pending.           *)
InputInt ==
    /\ mode = "input" /\ Contains(tty, "int") /\ ~Contains(tty, "eot")
    /\ slave' = IF slave = "running" \/ Blocked THEN "stopped" ELSE slave
    /\ mode' = AfterInput /\ tty' = << >>
    /\ UNCHANGED <<ready, out, lines, partial>>

(* A carriage return, which the pty makes a line end, ends the call after *)
(* one more newline; the line discipline sees every carriage return of    *)
(* the bytes.                                                             *)
Enters == Cardinality({i \in DOMAIN tty : tty[i] = "cr"})

InputLine ==
    /\ mode = "input" /\ Contains(tty, "cr")
    /\ ~Contains(tty, "eot") /\ ~Contains(tty, "int")
    /\ lines' = lines + Enters + 1 /\ partial' = FALSE
    /\ out' = Echoed(Len(tty) + 1)
    /\ mode' = AfterInput /\ tty' = << >>
    /\ UNCHANGED <<slave, ready>>

(* Other bytes are passed on and the next read blocks.                    *)
InputText ==
    /\ mode = "input" /\ tty # << >> /\ ToSet(tty) = {"text"}
    /\ partial' = TRUE /\ out' = Echoed(Len(tty)) /\ tty' = << >>
    /\ UNCHANGED <<slave, mode, ready, lines>>

(* slave_output reads until the master has nothing more; that read fails  *)
(* with EAGAIN and its -1 is returned, so handle_pty goes to wait.        *)
Output ==
    /\ mode = "output"
    /\ out' = 0
    /\ mode' = "wait"
    /\ UNCHANGED <<slave, ready, tty, lines, partial>>

PollReturns ==                  \* mutant: waitpid's answer is not compared
    /\ mode = "poll"
    /\ mode' = "idle" /\ slave' = "waited"
    /\ UNCHANGED <<ready, tty, out, lines, partial>>
Poll ==
    /\ mode = "poll"
    /\ IF slave = "stopped" THEN mode' = "idle" /\ slave' = "waited"
       ELSE mode' = "select" /\ UNCHANGED slave
    /\ UNCHANGED <<ready, tty, out, lines, partial>>

WaitPolls ==                    \* mutant: WNOHANG here, too
    /\ mode = "wait"
    /\ IF slave = "stopped" THEN mode' = "idle" /\ slave' = "waited"
       ELSE mode' = "select" /\ UNCHANGED slave
    /\ UNCHANGED <<ready, tty, out, lines, partial>>
Wait ==
    /\ mode = "wait" /\ slave = "stopped"
    /\ mode' = "idle" /\ slave' = "waited"
    /\ UNCHANGED <<ready, tty, out, lines, partial>>

(* The next s, c or rb, once the shell has read what was typed; what is   *)
(* in the pty stays there.                                                *)
ResumeFails ==                  \* mutant: handle_pty even if ptrace failed
    /\ mode = "idle"
    /\ mode' = "select" /\ ready' = {} /\ tty' = << >>
    /\ UNCHANGED <<slave, out, lines, partial>>
Resume ==
    /\ mode = "idle"
    /\ mode' = "select" /\ slave' = "running"
    /\ ready' = {} /\ tty' = << >>
    /\ UNCHANGED <<out, lines, partial>>

HandlePty ==
    \/ Select \/ InputEot \/ InputInt \/ InputLine \/ InputText
    \/ Output \/ Poll \/ Wait

Next ==
    \/ Write \/ Read \/ WriteEnds \/ ReadEnds \/ Stop \/ Killed
    \/ \E k \in Keys : Type(k)
    \/ Interrupted \/ HandlePty \/ Resume

(* The debugger's thread runs when it is not blocked, and the kernel lets *)
(* a blocked call of the slave go on; neither the slave's program nor the *)
(* user has to do anything.                                               *)
Spec ==
    /\ Init /\ [][Next]_vars
    /\ WF_vars(HandlePty) /\ WF_vars(WriteEnds) /\ WF_vars(ReadEnds)

-------------------------------------------------------------------------
(* Properties.                                                            *)

(* Every variable has its type; the shell has the terminal exactly when   *)
(* the stop was waited for.                                               *)
TypeOK ==
    /\ slave \in SlaveStates /\ mode \in Modes
    /\ ready \subseteq {"stdin", "fdm"} /\ tty \in Seq(Keys)
    /\ out \in 0 .. MaxOut /\ lines \in Nat /\ partial \in BOOLEAN
    /\ mode = "idle" <=> slave = "waited"

(* Between the terminal, the pty and two ways to call waitpid, handle_pty *)
(* returns once for each stop and never before it.                        *)
seen == IF Blocked THEN "running" ELSE slave
WaitSide == INSTANCE SlaveWait WITH slave <- seen
IsSlaveWait == WaitSide!Spec

(* A stop is noticed, unless slave_input holds the terminal: it goes on   *)
(* reading until the user enters a line.                                  *)
StopIsNoticed == (slave = "stopped") ~> (mode \in {"idle", "input"})

(* A slave waiting for input gets the line the user enters while          *)
(* slave_input reads.                                                     *)
LineArrives ==
    (slave = "reading" /\ mode = "input" /\ ToSet(tty) \cap {"cr", "eot"} # {})
        ~> (slave # "reading")

(* Once handle_pty waits for a slave that waits for input or for its      *)
(* output to be read, nothing the user can type frees either: after the   *)
(* first output the terminal is not read any more.                        *)
Hung ==
    /\ mode = "wait"
    /\ \/ slave = "reading" /\ lines = 0
       \/ slave = "writing" /\ out = MaxOut
HungStaysHung == [][Hung /\ ~Killed => Hung']_vars
==========================================================================
