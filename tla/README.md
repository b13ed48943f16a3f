# Verification of yaod

yaod ("yet another online debugger") is a curses debugger for x86-64 Linux
programs, built on `ptrace`. It is one single-threaded process that starts one
slave on a pty, reads commands in its own line editor, and shows the slave's
stack, registers, code and calls in windows. The repository has no design
document and no tests: the references for what the program should do are its
source, the comments in `src/include/see_stack.h` and the help texts in
`src/src/cmd_help.c`.

This directory holds TLA+ models of the parts that keep state over several
steps, TLC configurations that check them, and TLAPS proofs of what matters
most. File and line references below are to the repository.

## The system

| component | state it keeps | operations | modules |
|---|---|---|---|
| soft breakpoints (`sbp.c`, `bp.c`, `cmd_sbp.c`) | `t_slave.e_sbp`, `d_sbp`: nodes with address, saved word, flag, id; the 0xcc bytes in the slave's text | `b`, `bd`; on a stop `bp_hdl`; before the slave goes on `sbp_restore` | `BpList`, `Tracer`, `BpMoves`, `BpChain` |
| hardware watchpoints (`hbp.c`, `cmd_hbp.c`, `hbp.h`) | `e_hbp`, `d_hbp`; the slave's debug registers | `hb`, `hbd`, the same handlers | `DebugRegs`, `BpList`, `Tracer` |
| slave execution (`run_slave.c`) | `t_slave.pid`, `regs`; the process itself | start and its failures, `s`, `c`, `rb`/`cb`, death | `Tracer`, `Loader` |
| slave terminal (`slave_io.c`) | which call blocks; the pty's buffers | `handle_pty`, `slave_input`, `slave_output` | `SlaveWait`, `SlaveIo` |
| command loop, line editor (`sh/sh_cmd.c`, `sh_key.c`, `sh_signal.c`, `main.c`) | the chain of `t_buff` cells, the cursor, the screen row, `end`, `intr`, the window | keys, escape sequences, signals, running the line | `LineEdit`, `Shell` |
| call and jump list (`fnt.c`, `update_func`) | `t_slave.fnt`, a stack of functions entered | one update for each stop | `Calls` |
| environment builtins (`sh_env.c`, `env_builtins.c`, `my_cd.c`) | the vector `s_term->environ`, the working directory | `setenv`, `unsetenv`, `env`, `cd` | `EnvMap`, `Session`; the question `setenv` asks in `Shell` |
| command and program tree (`progs_tree.c`, `sh_exe.c`, `builtins_tree.c`) | `s_term->progs`, pipes and children | filled once from PATH and the builtins; `exe_cmd` for each line | `Session` |
| line reader (`get_next_line.c`, `my_getpid.c`) | the blocks read and not yet returned | one line for each call | `LineReader`, `Session` |
| ELF files and link map (`elf_*.c`, `unstrip.c`) | `t_slave.elf`: tables of the file and of the process, the link map, the imports, the libraries to search, the call targets of a stripped program | `elf_get` once, `update_elf` at each stop, `elf_free` | `Loader`; what the tables say of an address and `unstrip.c` in `Calls` |
| info commands (`cmd_infos.c`) | none | `il`, `ids`, `is`, `id`, `ip`, `ish`, `ir` | `Loader` |
| memory access and windows (`ptrace_get.c`, `print_mem.c`, `stack.c`, ...) | scroll positions | drawing | no |

How they meet: `shell_readloop` reads a line and `exe_cmd` calls the function
of the command. A command that lets the slave run (`s`, `c`, `rb`) issues one
`ptrace` request, calls `handle_pty` until the stop is waited for, then
`slave_status`, and on a SIGTRAP `bp_hdl`, which moves a breakpoint to the
disabled list, or else `sbp_restore`, which brings one back. Each stop also
refreshes the register copy, the windows and the call list. All the modules
share `t_slave`; nothing runs concurrently inside the debugger. What is
concurrent is the slave, the kernel's pty, the user's keyboard, and signals
from other processes.

What is hard here: the slave's text is changed in whole words while several
breakpoints share one; breakpoints move between two lists at every stop; the
slave may be killed between any two commands; a blocked `read`, `select` or
`waitpid` decides who notices what; keys come in bytes of which only some are
looked at; the call list is kept by guessing, from the one instruction seen at
the last stop, what the slave has done since; the link map appears at some stop
nobody announces and is read once; a program the shell runs may leave children
that hold the pipe its output is read from.
`PROJECT.json` lists each hazard at its line with the properties that cover it,
and says of those that a property excludes by a premise that it does.

## The modules

**`BpList`** is the lists of breakpoints as sequences: `sbp_append` with its
id, `sbp_remove`, `sbp_by_id`, the searches of `sbp_hdl` and `hbp_hdl`.
**`DebugRegs`** is DR7 as the set of its bits, with `HBP_DR7_*` of `hbp.h` as
the code computes them, and the kernel's reading of the bits (external).

**`Tracer`** puts them together with the process. Its variables are the
process (`slave`, `rip`), what ptrace changed in it (`int3`, `dr`, `dr7`), the
fields of `t_slave` (`pid`, `regs`, the four lists) and the command the
debugger is in. `due` (the instruction the program has reached) and `taint`
(which recorded hazard was met) are history. `SlaveStep` is the environment: instructions, traps,
exits, signals, SIGKILL at any time. `Command` is the code: since the debugger
is one thread that waits whenever the slave runs, a command is cut at its
waits only: `Step`, `BlindCont` let the slave go, and `TakeBreak`, `TakeTrap`,
`TakeSignal`, `TakeDeath`, `TakeArm`, `TakeArmDeath` are what follows
`waitpid`; `NewSbp`, `DeleteSbp`, `NewHbp`, `DeleteHbp`, `StartSlave` and
`Quit` complete at once.

**`BpMoves`** says what `sbp_append`, `sbp_remove` and the move between lists
promise of two sequences of ids. **`BpChain`** is the same code on pointers:
nodes are allocated and freed, `nxt` is cleared by remove and by append, and
the loop of `sbp_restore` follows it. `BpChain` implements `BpMoves`
(`IsLists`), which justifies the sequences `Tracer` is written with.

**`SlaveWait`** is what the rest of the debugger needs of `handle_pty`: it
returns once for each stop. **`SlaveIo`** is the code: the `select` loop with
its timeout, the blocking read of `slave_input`, `slave_output` that ends in a
failing read, and the two `waitpid` calls, against a pty with echo, finite
buffers and a slave that reads and writes as it likes.

**`LineEdit`** is the chain of one-character cells with its cursor, link by
link, and the screen row changed along with it. A prompt is written over a row
and clears nothing: the first one comes on what a failed start printed, the
others on what a command left (`Leftovers`, any set of rows; `clean` says that
the row was blank). **`Shell`** adds the loop:
`read(0, c, 3)` and which of the bytes count, `special_key`, the round of the
windows with `getchar`'s own buffer, signals, and the line that is run.

**`Calls`** is `update_func` and `fnt.c`. The slave is the environment: the
program (`prog`, what each address decodes to), `pc`, and its stack (`frames`,
each with what should be on the list while the slave is in that call). The
debugger's state is `t_slave.fnt` (`lst`, newest entry first), the addresses of
the enabled and disabled breakpoints, and `elf->stripped` with `elf->fsym`,
which `Init` computes from the program as `fsym_from_call` does. `FntNew` is
the symbol lookup in its order: the PLT, the tables, the call targets of a
stripped program, the nearest symbol without a size. An address outside of .text is asked for in the program's own
dynamic table before those of the libraries (`fnt_extern`), and an import has
no size there, so a library function may be entered without one although its
library knows it (`NoSize`). `UpdateFunc` is one update. A stop takes one (`TakeOther`), two (`TakeWatch`) or three
(`TakeBreak`: the first two with `rip` behind the int3), because `take_step`,
`sbp_hdl` and `breaked_update` each ask for one. `s` and `c` are `Step`, one
instruction and a stop; under `rb` the slave runs unseen (`BlindCont`, `Run`).
`last`, `returned`, `runs` and `doubt` are history: `doubt` names what the list
cannot know (`edge`: the int3 ended a function, so two updates were in the next
one; `reread`: an update repeated on a return of a function without a size;
`self`: a return into the same function from a call that is listed, or one to
another list or out of a function without a size from a call that is not,
because it stayed in its function; `astray`: a return to a function other than
the one that called; `quick`: the place returned to was left at once; `plt`: an
entry of the PLT on the list; `wide`: an entry without a size stretched over a
place of another function; `covered`: an int3 over the return an entry was last
seen at; `stripped`).

**`Loader`** is where the tables of `Calls` come from. `NoSlave`, `Exec`,
`Refused` and `Load` are `start_slave` with every way it may end (the signal and
the wait for a child that `handle_pty` has reaped already find nobody, and the
status they overwrite makes no other state); `LoadCrash`
is what `elf_get` runs into for a file or a program it was not made for. The
slave, its dynamic linker (`Link`, `DlOpen`, `DlClose`) and a third process
that kills it (`Die`) are the environment. `TakeStop` is `update_elf` as a stop
brings it, with `elf_linkmap`, `elf_sha` and `elf_populate_dynsym` in their
order; `GetDynsym` and `ElfDynsymAddr` are the search for an import: through the whole
table of a library (`Dynsym`), where a name has an entry for each version and
the last one counts. The info
commands are the actions `Info...`: `shown` has the rows they print, `crash`
the pointer or index they lack. `moved`, the libraries that came or went since
the map was read, is history.

**`LineReader`** is `get_next_line`: reads of any length up to `READ_LEN`, the
list of blocks, the line cut out of it, and `my_getpid`, its caller.
**`EnvMap`** says what `setenv`, `unsetenv` and `cd` promise: a value or none
for each name. **`Session`** extends `LineReader` with the rest of the shell:
`init_mysh` (own pid, PATH read directory by directory, the builtins put over
it), `find_prog`, the builtins on the vector of strings, and `exe_cmd` with its
pipe and its child. A line is its first word with what the builtin makes of the
others (`Declined`: `setenv`, `unsetenv` and `cd` without a word they can use,
which do not look at the environment), because `Shell` has the typing. Programs, their children (`Heirs`) and
the limit on descriptors (`Spare`: what is left once the debugger has its own,
those `elf_sha.c` keeps of each library included) are the environment. `Session` implements
`EnvMap` (`IsEnvMap`) under the look-up of `my_getenv`.

## The runs

| run | what it shows | bounds |
|---|---|---|
| `soft` | ids, flags, text, register copy and pid stay consistent under every command; breakpoints are transparent outside the recorded hazards | three instructions with a loop and an exit, two-byte words, two breakpoints at three addresses one of which is unmapped, ids within 2 of 0 |
| `hard` | the same with watchpoints; every bit of DR7 is asked for by an enabled one | an execute and a write watchpoint, one soft breakpoint |
| `chain` | the pointers implement the sequences | three nodes, two addresses, ids to 4 |
| `shell` | cell chain, row, order of keys | four cells, lines of three characters, one window; no key typed ahead; a blank row and one with a text in it |
| `shell_ends` | a session told to end ends | three cells, lines of two characters, one key typed ahead, two windows |
| `calls` | what of the call list can be relied on: its top, its calls, their order, no stale entry | 72 programs of two local functions with a symbol and one without, a PLT entry, an import that no table has a size for and one that its library has; calls three deep, lists of four, one `rb`, two breakpoints, one on a return |
| `slave_io` | `handle_pty` implements `SlaveWait`; what is noticed, what hangs | three keys, three bytes of output, four lines |
| `loader` | what the debugger knows of the slave's libraries and imports whenever the prompt is there, and which programs it can be used on | 14 programs of two or three symbols, five libraries with the vdso, one without DT_HASH and one with two versions of a name, any number of opens and closes |
| `session` | the environment is a map, a word means what PATH and the builtins say, the shell finds its own pid, the prompt comes back | a four-line status file read two bytes at a time, PATH of three directories one of which is `.`, six inherited environments, four names one of which begins another, three spare descriptors |
| `overlap`, `missed`, `slots` | violations, see below | as `soft` or `hard` |

Why the bounds are enough. A breakpoint only interacts with one in the same
word, with the one restored before it and with its own list: two soft
breakpoints cover every pair, the third address the failing `POKETEXT`, and
`missed` takes three where the second one left behind matters. Ids within two
of zero let a node be appended behind another one and behind a gap. The words
have two bytes (four where the breakpoints shall overlap) because only
"overlaps the neighbour" or "does not" is distinguished; the proofs hold for
every word of two bytes or more. A line of three characters has a first, a
middle and a last cell, so insertion and deletion happen at each, and with a
fourth cell a freed one is used again while others are linked. Keys are typed
ahead in `shell_ends` only; the proofs about the chain and the row hold for any
number of them. The windows have
the same loop, so a round of one or two stands for one of four. In `calls` a
list of four holds two jumps above a call above a caller, and the programs have
calls, jumps and returns in direct succession, recursion, and a jump between
functions and back into the middle of one. In `slave_io` the buffers have to
fill and the slave has to find them empty. The programs of `loader` are one the
debugger is made for, with its libraries in either order, and one for each way
a program may differ: a library without a hash table or one that mentions what
another defines, an own symbol among the first or behind them, no PLT, no lazy
binding, no dynamic section, no symbols, no sections, no file, a position of
its own, and one that execve refuses; a word (`Words`) has 16 values, so that
nchains wraps where it does in 32 bits. In `session` two bytes make every line
of more than one byte cross a block, and one is empty; three descriptors are
two for a pipe and one to lose.

`CHECK_DEADLOCK FALSE` stands where the program really stops: `Tracer` after
quit, `Shell` after the end of the session, `BpChain` when its bound on ids is
met, `Calls` after the slave's exit, after a walk off the list and where the
bounds on depth and list are met, `Loader` after a crash or the user's exit,
and `Session` after the end of the shell.

Named bounds: `MaxSbp`, `MaxHbp`, `MaxId` (Tracer), `MaxId` (BpChain),
`MaxCells`, `MaxLine`, `MaxAhead`, `AheadCells`, `LastWin` (Shell), `MaxTyped`,
`MaxOut`, `MaxLines` (SlaveIo), `MaxRuns`, `MaxDepth`, `MaxList` (Calls),
`Words` (Loader), `ReadLen`, `Spare` (Session).

Every property of a passing run has a mutant in `PROJECT.json`: a definition
of the module marked *mutant*, no part of the model, which replaces the one it
is named after and violates the property.

### Fairness

`Tracer`, `BpChain`, `Calls` and `Loader` state safety only. In `Shell` the only fairness is
`WF(ShellStep)`: a single thread that is not blocked runs. Nobody has to type,
and signals need not come; `EndsWhenTold` therefore asks for bytes to read or
a terminal that hung up. In `SlaveIo` there is `WF(HandlePty)` for the same
reason and `WF(WriteEnds)`, `WF(ReadEnds)`, because the kernel completes a
blocked call when it can. `Session` has `WF(ShellStep)`, the shell's own steps
between two lines. The slave's program, the programs the shell runs with their
children, and the user have no duty: `PromptReturns` asks for a program that
has exited and for no heir on the pipe.

## What the code does that its texts do not say

- `overlap`: `sbp_set` saves and `sbp_unset` writes back a whole word, so of
  two breakpoints in one word taking or deleting one erases the other's int3.
- `missed`: the loop of `sbp_restore` follows a pointer the call before has
  cleared, so one breakpoint is restored per call, and `rb` runs through others.
- `slots`: the fields of DR7 are added to a multiple of the register number
  instead of shifted, so some watchpoints are listed and not armed.

`GoesOnWhereDue` and `TextMatchesLists` say that outside these and the hazards
recorded in `taint` the mechanism is right. `BitsAreWanted` says less than that
a deleted watchpoint is gone: every bit of DR7 is asked for by some enabled
watchpoint, so with none there none is set; but the bits are not the
registers' own, and after `hb 4 0 0 0`, `hb 9 1 0 1` and `hbd` of the first the
bit that enables its register stays, because the second asks for it, too.
`RegsAreSlaves` is about the debugger's copy, which commands read: the window
with the registers is not drawn again after `bd` and shows the old `rip`.
`StopsKeepBps` covers every step but the four commands themselves, the restore
after a resume that found the slave dead among them. Among the hazards is
that `bd` goes through `sbp_unset` and so sets the slave's `rip` to the deleted
breakpoint, wherever the slave stands (`moved`), and that the first step of
`rb` is not looked at: if it executes an int3, the slave goes on inside an
instruction (`blind`). `WalksOnlyOverPlt` says the
same of the walk in `fnt_ret`: without the PLT it never runs off the list.
An entry of the PLT carries the flag of a jump even if it was called, so the
return from the function behind it takes off the caller, too; after a second
such call right behind the first the list holds jumps only, and the next return
walks off its end (`plt` in `doubt`).
`CallsAreListed` and `NoStaleEntries` hold of a slave that is stepped, when
nothing of `doubt` but `covered` happened. The second does not say that every
jump is listed: `fnt_ret` takes entries off, and only the next update enters
the function returned to if it is not there.
`TopIsCurrent` holds as soon as two updates in a row found the slave in one
function, whatever happened before, with one exception that the proof brought
out: `is_fnt_ret` reads memory without the saved words, so once an enabled
breakpoint covered the return an entry was last seen at (`covered` in `doubt`),
`fnt_ret` may take that function for over when the int3 is gone.

`Loader` says how far what is known of the libraries can be trusted. The
premises of its properties are what it found: `CompleteIsSafe` holds of
programs with sections, a symbol table, a dynamic section and a PLT, and each
other kind has its own value of `crash`; `PromptSeesLinks` is about
programs bound lazily, because for the others the linker leaves no address in
the GOT and `update_elf` never has a map, and for the imports it excepts a
program that brings a value for a symbol of its own, because `linked` is then
set before an import was looked for; `ShowsBindings` excepts a name that an
earlier library mentions, because `elf_dynsym_addr` does not look whether it is
defined there, and of several versions of a name claims the last in the table,
which need not be the one the program is bound to (of an indirect function it
is the resolver); `ListsLoaded` excepts what came or went after the one time the map was
read. `WordMeans` bounds the programs a session can run by its descriptors:
`exe_cmd` closes no reading end.

`ScreenShowsLine` says that the row begins with the line that will run. Behind
it may stand what another row left, for `next_line` clears nothing; it does not
if the prompt came on a blank row. `^C` may come at any time, in a window, while
a slave or a program has the terminal or at the question of `setenv`; where the
shell reads keys it writes over the row, and elsewhere it is forgotten before
the next prompt or ends that at once.

## The proofs

Checked by TLAPS, for every program, word size (two bytes or more), argument and
bound:

- **`TracerProofs`**: first lemmas on the list operators (what append and remove
  return, that ids keep rising or falling, that flags and saved words are kept),
  then `TypeCorrect` (`[]TypeOK`), `IdsUnambiguous`
  (`[]IdsNameOneBp`) and `FlagsAgree` (`[]FlagMatchesList`). The inductive
  invariant is their conjunction: removing a node from the middle keeps the
  order of ids only if they were ordered, appending takes the id of the last
  node, and its type is needed for the arithmetic.
- **`TracerTextProofs`**: `TextIsKept` (`[]TextMatchesLists`) and `PidIsChild`
  (`[]PidUntilReaped`). Text and lists agree inductively only together with
  two facts: breakpoints on the lists are pairwise at least a word apart
  unless `taint` says otherwise, and a node's saved word is empty whichever
  list it is on. The first is what makes writing a whole word back harmless.
  Built on it are `StopsMove` (`StopsKeepBps`), `RegsCopied`
  (`[]RegsAreSlaves`) and `BreakpointsTransparent` (`[]GoesOnWhereDue`). The
  first counts the nodes of an address before and after the moves of `sbp.c`
  and `hbp.c`. The last needs `DueInv`: a stopped slave is where its program
  is, or one byte behind it because it executed the int3 of an enabled
  breakpoint, which only a handler of `take_step` is left to see. `HitIsDue`
  then shows that `SbpHit` finds just that breakpoint, from text and lists in
  agreement (`TextInv`), from addresses given by `b` only (`AddrsGiven`), and
  from words of at least two bytes, so that breakpoints at neighbouring
  addresses overlap.
  `WatchesOwned` (`[]BitsAreWanted`) needs what the kernel takes: with `len` 0
  the wrong fields of `HBP_SET_DR7` stay below bit 17 (`ByteBits`), where no
  type the kernel refuses can arise (`LowAccepted`), so no `hbp_unset` fails on
  a slave that is there; `WatchInv` then follows the bits of the lists through
  each move.
- **`BpChainProofs`**: `ChainsAreLists` (`[]ChainsHoldUsed`) and
  `RefinesBpMoves` (`IsLists`), for every number of nodes. Two sequences of
  nodes (the walks from the heads) are carried through the steps: that a
  pointer structure *is* such a sequence determines the walk, so each of
  `sbp_append`, `sbp_remove` and the loop of `sbp_restore` is followed on the
  sequence, where it is an operation of `BpMoves`.
- **`SlaveIoProofs`**: `RefinesSlaveWait`: every step of `SlaveIo` is a step of
  `SlaveWait` or a stutter under the mapping `seen`, for every buffer size;
  `SlaveIoTyped` (`[]TypeOK`) and `HungForGood` (`HungStaysHung`).
- **`LoaderProofs`**: `LoaderTyped` (`[]TypeOK`), `CompleteSafe`
  (`[]CompleteIsSafe`), `PromptLinks` (`[]PromptSeesLinks`), `Bindings`
  (`[]ShowsBindings`) and `ListsAreLoaded` (`[]ListsLoaded`), for every set of
  libraries and programs. None of them is
  inductive. `StagePart` bounds `dynsym` by the PLT and orders the stages of
  `start_slave`; with `NchainsFits` (nchains wraps exactly when there is no
  PLT) it gives `CompleteSafe`. `NeedsPart` keeps what the program needs
  mapped, in its place, and in the map one entry further on; `MapPart` has
  every library that did not move in the map; `ImportPart` says that the
  imports were looked for with the whole map or not at all; `PromptPart` that
  no prompt comes before the map. Closing a library takes an entry out of the
  middle of `loaded`, and the place of the others follows from `Closed`. That
  `get_dynsym` finds the first library rests on `LeastNumber`, which comes from
  the well-foundedness of the naturals. For `ListsLoaded`, `SameOutside` compares
  the map with what is mapped by a rising map between their places instead of
  by filtering both, so that opening (`SameOpened`) and closing (`SameClosed`)
  need no induction along the list.

- **`CallsProofs`**: `TypeCorrect` (`[]TypeOK`), `WalksEndOnList`
  (`[]WalksOnlyOverPlt`) and `TopFollows` (`[]TopIsCurrent`). The second keeps
  the oldest entry of the list no jump as long as nothing of the PLT was
  entered, which is what ends the walk of `fnt_ret`. `TopIsCurrent` is not
  inductive at all; `TopInv` keeps what the next update will look at: each
  entry is a symbol with a size or covers a place between two addresses that
  are in no symbol that has its size in every table (`Plain`, `Free`,
  `AllFormed`), none but the newest and the oldest was left at a return
  (`Rested`), and the next update will not take the top for over unless the
  slave left it (`Ready`). `CallsListed` (`[]CallsAreListed`) and
  `NothingStale` (`[]NoStaleEntries`) relate the whole list to the slave's
  stack. In `ListInv` a rising map finds each entry of the list among those
  that should be there, and each call among the entries (`Linked`). That alone
  is not inductive: below the top it also says how each function was left
  (`LeftAt`), no return, and a call only where that function is listed right
  below, so that what a return uncovers is either the function returned to or
  one that the next update leaves below a jump. Between an instruction and its
  update the list is linked to the stack before (`Moved`: the slave stayed,
  entered or returned); `FrameInv` ties each frame's list to the one below. An
  update puts another visit on top (`LinkedRetop`), a jump left out before
  (`LinkedCatchUp`), a new function (`LinkedEnter`), or takes a call off
  (`LinkedPop`), which takes the map from one list to the next without an
  induction along them. TLC checked `ListInv` on the runs' bounds before it was
  proved, and the attempt showed what the premises had missed: the returns from
  unlisted calls in `self`, `astray` and `wide` come from it. `TopFollows`,
  `CallsListed` and `NothingStale` have as hypothesis that a symbol that starts
  in another starts with it and has its size or none, and that none runs past
  .text (`SymbolsApart`). So it is in an ordinary program: an alias has the same
  place and size, a resolved import the place of its library's function and no
  size. `MCCalls` has TLC evaluate it for its tables, which have such a pair.
- **`SessionProofs`**: `TypeCorrect` (`[]TypeOK`), `RefinesEnvMap`
  (`IsEnvMap`), `WordsMean` (`[]WordMeans`) and `OwnPid` (`[]PidIsOwn`). The
  vector has distinct names in every reachable state (`EnvInv`), without which
  closing it up in `unsetenv` would uncover a second value. The tree, half
  filled, holds of a word what `Final` says as far as `PATH` was read
  (`TreePart`); descriptors lost are counted against programs tried
  (`PipePart`). `ReadInv` says that the blocks read, with the rest of the file,
  are the lines not yet returned, each with its end; cutting a line out of the
  blocks keeps it because a sequence with an end of line has one first such
  place (`EolCut`), however the reads cut it into blocks.

- **`ShellProofs`**: `ChainStaysLinked` (`[]ChainIsLinked`), `ScreenIsLine`
  (`[]ScreenShowsLine`), `NothingHeldBack` (`[]BufferIsSpent`) and `TypeCorrect`
  (`[]TypeOK`), all from one invariant `Inv`. A sequence of cells is carried
  along the chain (`Linked`), as in `BpChainProofs`; each of `add_char`,
  `cu_left`, `cu_right` and `cu_del` puts a cell in or takes one out and changes
  the row so that it shows the sequence again (`Keeps`). That is inductive only
  with three more facts: a cell off the chain is blank, which `cu_left` relies
  on when it takes one without writing to it; the column is never left of the
  cursor's cell, even after `^C` spoiled the row, so that `cu_del` has something
  to pull; and for every byte typed a cell is left (`Fits`), or else
  `my_memalloc` would have to fail. `LineIs` shows that the walk of
  `concat_buff` returns the characters the row shows. For the buffer of
  `getchar`, `Unread` keeps that what is pending is of a single key and that a
  TAB is a key of its own. `MCShell` bounds the line to three cells when a key
  is typed; here `MaxCells`, `MaxLine` and the alphabet are any.

They rest on the named assumptions on the constants (`ProgramAssumption`,
`WordAssumption`, `CommandAssumption`, `BoundAssumption`, `LibraryAssumption`,
`NodeAssumption`, `SymbolAssumption`, `FileAssumption`, `EnvAssumption`,
`TreeAssumption`, `CellAssumption`, `CharAssumption`, `LeftoverAssumption`), which TLC evaluates in
each run. `WordAssumption` of
`Loader` is that a PLT has fewer relocations than a 32-bit word counts, which
the size of a file ensures; `FileAssumption` is that a status file has a line
that begins with the tag `my_getpid` looks for.

The induction principles of the library take an operator as parameter, which
none of the provers can instantiate. Where a proof has to go along a sequence
it uses a set instead: the set of the sequences (or of the numbers) for which
the statement holds contains the empty one and is closed under `Append`, and
`SeqInduction`, proved from the least counterexample (`LeastNumber`), says that
it then contains all. Recursive functions are used through lemmas that give
their equation.

Every invariant and action property of the runs is proved. Only model-checked
is liveness (`StopIsNoticed`, `LineArrives`, `EndsWhenTold`, `PromptReturns`),
which is beyond these provers.

## What is not modelled, and the plan

Left out on purpose:

- drawing and scrolling, the line wrap at the edge of the window, and the words
  at an address that the print commands and the windows show (`ptrace_get.c`,
  `print_mem.c`, `stack.c`): they read the slave and keep no state but scroll
  positions;
- the layout of the info commands, and the rows of the tables that never change;
- names and `rbp` in the call list; `fnt_ret_sym` is not called;
- failing allocations, and reads of the slave's memory that fail half way
  through a table: `Loader` lets a table be read or not, and takes a kill in
  the middle of one update for one before or after it;
- the search of a library's file by `elf_sha_sym` for the name of an address:
  `Loader` says which files are there to be searched, `Calls` only asks whether
  a name is found;
- when a child of `start_slave` could not execute its program, `run_slave.c:342`
  to `344` use a status as a pid; `Loader` has the outcome, not the status;
- the freeing of the debugger's memory at its end, but for `elf_free`;
- the files the Makefile does not build or nobody calls (`start_shell.c`,
  `sh_hist.c`, `sh_termcap.c`; `run_loop`; `r` is in the help and not among the
  builtins).

`SharedTable` in `Calls` takes the link map to be there from the first
instruction; the program then has to be past its dynamic linker, which is what
`PromptSeesLinks` gives.

Next, in this order:

1. `Calls` with the link map of `Loader`, and the `rip` that `bd` moves.
2. The search of a library's file by `elf_sha_sym`, against the symbols of the
   library, for what the call list shows of calls into it.
