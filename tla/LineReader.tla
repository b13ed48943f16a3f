--------------------------- MODULE LineReader ---------------------------
(* get_next_line, and my_getpid, which reads /proc/self/status with it to *)
(* learn the shell's own pid.  A read gives any number of bytes up to     *)
(* READ_LEN; what lies behind a line is kept in a list of blocks for the  *)
(* next call.                                                             *)
(*                                                                        *)
(* A definition marked "mutant" is no part of the model: it is the slip   *)
(* in the code that the property named in PROJECT.json would catch.       *)
EXTENDS Integers, SequencesExt

CONSTANTS
    File,       \* the lines of the file; the first byte of one stands for
                \* the text up to its colon
    PidTag,     \* the one for "Pid:"
    EOL,        \* the end of a line
    ReadLen     \* READ_LEN: bytes in a block

ASSUME FileAssumption ==
    /\ ReadLen \in Nat \ {0} /\ PidTag # EOL
    /\ File \in Seq(Seq(STRING)) /\ EOL \in STRING
    /\ \E i \in DOMAIN File : File[i] # <<>> /\ File[i][1] = PidTag
    /\ \A i \in DOMAIN File : \A j \in DOMAIN File[i] : File[i][j] # EOL

VARIABLES
    rest,       \* bytes not read yet
    blocks,     \* the list of blocks of the descriptor
    pid,        \* what my_getpid has found; empty for -1
    lines       \* history: the lines returned

readerVars == <<rest, blocks, pid, lines>>

Text == FlattenSeq([i \in 1 .. Len(File) |-> Append(File[i], EOL)])

ReaderInit == rest = Text /\ blocks = <<>> /\ pid = <<>> /\ lines = <<>>

(* glst_memchr: the first block with an end of line. *)
HasEol(b) == \E i \in DOMAIN b : b[i] = EOL
Found == \E k \in DOMAIN blocks : HasEol(blocks[k])
EolBlock == SelectInSeq(blocks, HasEol)
EolOffset == SelectInSeq(blocks[EolBlock], LAMBDA c : c = EOL)

(* read_again: one read, whatever it gives. *)
ReadAgain ==
    /\ ~Found /\ rest # <<>>
    /\ \E n \in 1 .. ReadLen :
         /\ n <= Len(rest)
         /\ blocks' = Append(blocks, SubSeq(rest, 1, n))
         /\ rest' = SubSeq(rest, n + 1, Len(rest))
    /\ UNCHANGED <<pid, lines>>

(* Mutant: the byte behind the end of line is lost, too. *)
CopyEndLess(b, off) == SubSeq(b, off + 2, Len(b))

(* copy_end: what is left of the block with the end of line. *)
CopyEnd(b, off) == SubSeq(b, off + 1, Len(b))

(* concat_glst: the blocks before and the bytes up to the end of line.    *)
(* An empty block is taken out of the list.                               *)
Line ==
    FlattenSeq(SubSeq(blocks, 1, EolBlock - 1))
        \o SubSeq(blocks[EolBlock], 1, EolOffset - 1)
After ==
    LET left == CopyEnd(blocks[EolBlock], EolOffset)
        next == SubSeq(blocks, EolBlock + 1, Len(blocks))
    IN  IF left = <<>> THEN next ELSE <<left>> \o next

(* One line for my_getpid: the number behind "Pid:" is kept. *)
GetNextLine ==
    /\ Found
    /\ blocks' = After
    /\ lines' = Append(lines, Line)
    /\ pid' = IF Line # <<>> /\ Line[1] = PidTag THEN Tail(Line) ELSE pid
    /\ UNCHANGED rest

(* get_next_line returns NULL; a line without an end is lost. *)
AtEof == ~Found /\ rest = <<>>

(* The lines come out whole, once each and in order, however the bytes    *)
(* came in, and the pid that exit will signal is the shell's own          *)
(* (my_getpid, my_exit).                                                  *)
PidIsOwn ==
    /\ lines = SubSeq(File, 1, Len(lines))
    /\ AtEof => /\ Len(lines) = Len(File)
                /\ \E i \in DOMAIN File : File[i] = <<PidTag>> \o pid
=========================================================================
