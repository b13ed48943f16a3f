------------------------------ MODULE Shell ------------------------------
(* The command loop: main, shell_readloop and process_line, the keys of   *)
(* special_key, the windows of cu_tab and the signal handlers.            *)
(*                                                                        *)
(* The terminal is in cbreak mode with no VINTR: ^C and ^D are bytes.     *)
(* read(0, c, 3) takes up to three pending bytes and only the first       *)
(* counts, except that special_key looks at the third.  The windows read  *)
(* with getchar, whose buffer read(0) does not see.  signal() restarts an *)
(* interrupted read, so a flag set by a handler is seen after the next    *)
(* bytes.  What a command does is left to the modules of the commands;    *)
(* only exit and setenv, which asks a question, are told from the others. *)
(*                                                                        *)
(* A definition marked "mutant" is no part of the model: it is the slip   *)
(* in the code that the property named in PROJECT.json would catch.       *)
EXTENDS LineEdit, FiniteSets

CONSTANTS
    MaxLine,    \* bound: cells in use when another character is typed
    LastWin,    \* the last window of cu_tab's round (WIN_CALL, 4)
    MaxAhead,   \* bound: keys typed while the shell is not waiting
    AheadCells  \* bound: cells in use once what is typed ahead is read

VARIABLES
    tty,    \* bytes typed and not read
    stdio,  \* bytes in getchar's buffer
    hungup, \* the terminal is gone: read returns 0, getchar EOF
    mode,   \* where the loop is
    win,    \* t_slave.c_win
    end, intr,      \* the flags of t_term
    ahead   \* history: how many keys were typed before the shell waited

shellVars == <<tty, stdio, hungup, mode, win, end, intr, ahead>>
vars == <<lineVars, shellVars>>

(* "prompt": before next_line; "read": blocked in read(0); "windows": in  *)
(* cu_tab; "run": the line is complete; "ask": setenv asks whether to     *)
(* overwrite; "over": the session was ended; "crashed": find_prog was     *)
(* given no name.                                                         *)
Modes == {"prompt", "read", "windows", "run", "ask", "over", "crashed"}

(* A key is the bytes it sends.                                           *)
Keys == {<<c>> : c \in Chars \ {"[", "C", "D"}} \cup
        {<<"esc", "[", "D">>, <<"esc", "[", "C">>, <<"esc">>, <<"del">>,
         <<"tab">>, <<"cr">>, <<"int">>, <<"eot">>}
Bytes == UNION {ToSet(k) : k \in Keys}

ASSUME BoundAssumption ==
    /\ MaxLine \in 1 .. MaxCells - 1 /\ MaxAhead \in Nat
    /\ AheadCells \in 1 .. MaxCells - 1
    /\ LastWin \in Nat \ {0}
ASSUME CharAssumption ==
    /\ {" ", "[", "C", "D"} \subseteq Chars
    /\ Chars \cap {Nul, "esc", "del", "tab", "cr", "int", "eot"} = {}

Init ==
    /\ LineInit
    /\ tty = << >> /\ stdio = << >> /\ hungup = FALSE
    /\ mode = "prompt" /\ win = 0
    /\ end = FALSE /\ intr = FALSE
    /\ ahead = 0

-------------------------------------------------------------------------
(* The terminal's side.                                                   *)

Waiting == mode \in {"read", "windows", "ask"} /\ tty = << >> /\ stdio = << >>

(* A read needs at most one cell, and cu_left one more.  An answer to     *)
(* setenv is a key of one byte: what is left of others comes typed ahead. *)
Reads(n) == (n + 2) \div 3
Room(k) ==
    IF Waiting THEN /\ k[1] \in Chars => Cardinality(Live) < MaxLine
                    /\ mode = "ask" => Len(k) = 1
    ELSE /\ ahead < MaxAhead
         /\ Cardinality(Live) + Reads(Len(tty \o k)) <= AheadCells

Type(k) ==
    /\ mode \notin {"over", "crashed"} /\ ~hungup /\ Room(k)
    /\ tty' = tty \o k
    /\ ahead' = IF Waiting THEN ahead ELSE ahead + 1
    /\ UNCHANGED <<lineVars, stdio, hungup, mode, win, end, intr>>

(* handle_term, on SIGTERM, SIGQUIT or SIGHUP; the last with the terminal.*)
Terminate ==
    /\ mode \notin {"over", "crashed"} /\ ~end
    /\ end' = TRUE
    /\ hungup' \in {hungup, TRUE}
    /\ UNCHANGED <<lineVars, tty, stdio, mode, win, intr, ahead>>

(* handle_int shows "^C" at the cursor.  s_term->line is never set, so    *)
(* its clear_line is never called: the line stays.                        *)
HandleInt ==
    /\ intr' = TRUE
    /\ row' = [row EXCEPT ![col + 1] = "^", ![col + 2] = "c"]
    /\ Move(col + 2)
    /\ UNCHANGED <<chain, began>>

(* SIGINT, at any time.  Once the line is complete "^C" lands elsewhere,  *)
(* before the next prompt.  A second one before the flag is looked at     *)
(* only writes over a row that no longer shows the line: it is left out.  *)
Interrupt ==
    /\ mode \notin {"over", "crashed"} /\ ~intr
    /\ IF mode \in {"read", "windows"} THEN HandleInt
       ELSE intr' = TRUE /\ UNCHANGED lineVars
    /\ UNCHANGED <<tty, stdio, hungup, mode, win, end, ahead>>

-------------------------------------------------------------------------
(* The shell's side.                                                      *)

(* The loop conditions of shell_readloop, looked at after every step.     *)
ReadNext == mode' = IF end' \/ intr' THEN "run" ELSE "read"

Prompt ==
    /\ mode = "prompt"
    /\ NextLine
    /\ UNCHANGED <<tty, stdio, hungup, win, end, intr, ahead>>
    /\ ReadNext

Chunk == SubSeq(tty, 1, IF Len(tty) < 3 THEN Len(tty) ELSE 3)
First == Chunk[1]
Third == IF Len(Chunk) = 3 THEN Chunk[3] ELSE Nul

ReadBytes ==
    /\ mode = "read" /\ tty # << >>
    /\ tty' = SubSeq(tty, Len(Chunk) + 1, Len(tty))
    /\ UNCHANGED <<stdio, hungup, ahead>>

ReadChar ==
    /\ ReadBytes /\ First \in Chars
    /\ AddChar(First)
    /\ UNCHANGED <<win, end, intr>>
    /\ ReadNext

ReadEnter ==
    /\ ReadBytes /\ First = "cr"
    /\ mode' = "run"
    /\ UNCHANGED <<lineVars, win, end, intr>>

(* special_key: the third byte first, then the first.                     *)
Special == ReadBytes /\ First \notin Chars \cup {"cr"}

MoveKey ==
    /\ Special /\ Third \in {"D", "C"}
    /\ IF Third = "D" THEN CuLeft ELSE CuRight
    /\ UNCHANGED <<win, end, intr>>
    /\ ReadNext

DeleteKey ==
    /\ Special /\ Third \notin {"D", "C"} /\ First = "del"
    /\ CuDel
    /\ UNCHANGED <<win, end, intr>>
    /\ ReadNext

TabKey ==
    /\ Special /\ Third \notin {"D", "C"} /\ First = "tab"
    /\ win' = win + 1 /\ mode' = "windows"
    /\ UNCHANGED <<lineVars, end, intr>>

IntKey ==
    /\ Special /\ Third \notin {"D", "C"} /\ First = "int"
    /\ HandleInt
    /\ UNCHANGED <<win, end>>
    /\ ReadNext

EotKey ==
    /\ Special /\ Third \notin {"D", "C"} /\ First = "eot"
    /\ end' = TRUE
    /\ UNCHANGED <<lineVars, win, intr>>
    /\ ReadNext

(* A byte no branch knows: ESC with nothing of note behind it.            *)
OtherKey ==
    /\ Special /\ Third \notin {"D", "C"}
    /\ First \notin {"del", "tab", "int", "eot"}
    /\ UNCHANGED <<lineVars, win, end, intr>>
    /\ ReadNext

(* read returned 0: the line is run as if it had been entered.            *)
ReadNothing ==
    /\ mode = "read" /\ tty = << >> /\ hungup
    /\ mode' = "run"
    /\ UNCHANGED <<lineVars, tty, stdio, hungup, win, end, intr, ahead>>

(* cu_tab and edit_stack, edit_regs, edit_code, edit_call: getchar fills  *)
(* its buffer with all that was typed; a TAB goes to the next window, and *)
(* from the last one back to the shell.  EOF is none of their keys: they  *)
(* call getchar again.                                                    *)
NextWinUp == win + 1             \* mutant: no % WIN_SCR
NextWin == IF win = LastWin THEN 0 ELSE win + 1

WindowKeyEsc ==                 \* mutant: ESC leaves a window, too
    /\ mode = "windows" /\ stdio \o tty # << >>
    /\ LET bytes == IF stdio = << >> THEN tty ELSE stdio IN
        /\ tty' = IF stdio = << >> THEN << >> ELSE tty
        /\ stdio' = Tail(bytes)
        /\ IF Head(bytes) \in {"tab", "esc"}
           THEN win' = NextWin ELSE UNCHANGED win
    /\ UNCHANGED <<lineVars, hungup, end, intr, ahead>>
    /\ IF win' = 0 THEN ReadNext ELSE UNCHANGED mode
WindowKey ==
    /\ mode = "windows" /\ stdio \o tty # << >>
    /\ LET bytes == IF stdio = << >> THEN tty ELSE stdio IN
        /\ tty' = IF stdio = << >> THEN << >> ELSE tty
        /\ stdio' = Tail(bytes)
        /\ IF Head(bytes) = "tab" THEN win' = NextWin ELSE UNCHANGED win
    /\ UNCHANGED <<lineVars, hungup, end, intr, ahead>>
    /\ IF win' = 0 THEN ReadNext ELSE UNCHANGED mode

(* str_split_whitespc: a line of blanks splits into no word at all.       *)
NoWord(line) == line # << >> /\ ToSet(line) = {" "}

(* process_line, and the conditions of the loops around it.  An empty     *)
(* line does nothing; any other is some command: exit sends the shell a   *)
(* SIGTERM, setenv may have a question.                                   *)
RunLineAgain ==                 \* mutant: end is not looked at
    /\ mode = "run"
    /\ \/ NoWord(Line) /\ mode' = "crashed" /\ UNCHANGED end
       \/ /\ ~NoWord(Line) /\ end' \in IF Line = << >> THEN {end} ELSE {end, TRUE}
          /\ mode' = "prompt"
       \/ ~NoWord(Line) /\ Line # << >> /\ mode' = "ask" /\ UNCHANGED end
    /\ intr' = FALSE
    /\ OtherRow
    /\ UNCHANGED <<chain, began, tty, stdio, hungup, win, ahead>>
RunLine ==
    /\ mode = "run"
    /\ \/ NoWord(Line) /\ mode' = "crashed" /\ UNCHANGED end
       \/ /\ ~NoWord(Line) /\ end' \in IF Line = << >> THEN {end} ELSE {end, TRUE}
          /\ mode' = IF end' THEN "over" ELSE "prompt"
       \/ ~NoWord(Line) /\ Line # << >> /\ mode' = "ask" /\ UNCHANGED end
    /\ intr' = FALSE
    /\ OtherRow
    /\ UNCHANGED <<chain, began, tty, stdio, hungup, win, ahead>>

(* my_setenvi reads until it has a byte, whatever read returns.           *)
Answer ==
    /\ mode = "ask" /\ tty # << >>
    /\ tty' = Tail(tty)
    /\ mode' = IF end THEN "over" ELSE "prompt"
    /\ intr' = FALSE
    /\ UNCHANGED <<lineVars, stdio, hungup, win, end, ahead>>

ShellStep ==
    \/ Prompt \/ ReadChar \/ ReadEnter \/ MoveKey \/ DeleteKey \/ TabKey
    \/ IntKey \/ EotKey \/ OtherKey \/ ReadNothing \/ WindowKey \/ RunLine
    \/ Answer

Next ==
    \/ \E k \in Keys : Type(k)
    \/ Terminate \/ Interrupt
    \/ ShellStep

(* The shell is a single thread that runs whenever it is not blocked; no  *)
(* one has to type.                                                       *)
Spec == Init /\ [][Next]_vars /\ WF_vars(ShellStep)

-------------------------------------------------------------------------
(* Properties.                                                            *)

(* Every variable has its type; cu_tab returns with the shell's window.   *)
TypeOK ==
    /\ mode \in Modes /\ win \in 0 .. LastWin /\ (mode = "windows" <=> win # 0)
    /\ tty \in Seq(Bytes) /\ stdio \in Seq(Bytes)
    /\ {hungup, end, intr, inherited, clean} \subseteq BOOLEAN
    /\ ahead \in 0 .. MaxAhead
    /\ {head, cur} \subseteq Cells \cup {Nil}
    /\ nxt \in [Cells -> Cells \cup {Nil}]
    /\ prv \in [Cells -> Cells \cup {Nil}]
    /\ ch \in [Cells -> Chars \cup {Nul}]
    /\ Len(row) = Width /\ col \in 0 .. Width - 1

(* Behind the prompt the row shows the very text that will be run and the *)
(* cursor where the next character will go, whatever was typed, unless ^C *)
(* was written over it or the prompt began with the cells of an older     *)
(* line.  It shows nothing else when the prompt came on a blank row; what *)
(* another row held is not cleared, stays behind the line and is not run. *)
ScreenShowsLine ==
    mode = "read" /\ ~intr /\ ~inherited =>
        /\ \A x \in 1 .. Width :
            /\ x <= Len(Line) => row[x] = Line[x]
            /\ clean /\ x > Len(Line) => row[x] = " "
        /\ col = Position

(* Keys take effect in the order they were typed as long as each is typed *)
(* when the shell waits for it: the windows leave nothing in getchar's    *)
(* buffer for a later visit.                                              *)
BufferIsSpent == ahead = 0 /\ mode = "read" => stdio = << >>

(* Told to end, the session ends with the next bytes that come or fail to *)
(* come -- unless a window of cu_tab has the keyboard, where SIGTERM and  *)
(* a hangup go unnoticed, or setenv waits for an answer; a terminal that  *)
(* hung up never gives one.                                               *)
EndsWhenTold ==
    (end /\ (tty # << >> \/ hungup)) ~>
        (mode \in {"over", "crashed", "windows"} \/ (mode = "ask" /\ tty = << >>))
=========================================================================
