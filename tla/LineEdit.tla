---------------------------- MODULE LineEdit ----------------------------
(* The command line being edited, pointer by pointer, and the screen row  *)
(* that shows it: next_line, add_char and concat_buff of sh_cmd.c and     *)
(* cu_left, cu_right and cu_del of sh_key.c.                              *)
(*                                                                        *)
(* A t_buff holds BUFF_SIZE = 1 byte, so a cell holds a character or, its *)
(* len being 0, Nul.  The cursor is cur: the next character goes behind   *)
(* it.  my_memalloc never fails and takes the lowest free cell; a cell    *)
(* off the chain is freed or leaked, nothing reads it, and it is kept     *)
(* blank.  The row is what follows the prompt; it is wider than any line  *)
(* the bounds allow, so the wrap at WIN_SH_CO is never met.  The first    *)
(* prompt of a session goes to the top left corner of a window that keeps *)
(* what a failed start printed there.                                     *)
(*                                                                        *)
(* A definition marked "mutant" is no part of the model: it is the slip   *)
(* in the code that the property named in PROJECT.json would catch.       *)
EXTENDS Integers, SequencesExt

CONSTANTS
    MaxCells,   \* bound: t_buff cells in use at once
    Chars,      \* the printable characters typed, " " among them
    Leftovers   \* the rows a prompt may be written over

Cells == 1 .. MaxCells
Nil == 0
Nul == "nul"
Width == MaxCells + 4
Blanks == [x \in 1 .. Width |-> " "]

ASSUME CellAssumption == MaxCells \in Nat \ {0}
ASSUME LeftoverAssumption == Leftovers \subseteq [1 .. Width -> Chars]

VARIABLES
    head,           \* s_line.line
    cur,            \* s_buff
    nxt, prv, ch,   \* the cells
    row, col,       \* the screen row and the cursor's column in it
    inherited,      \* history: this prompt began with an old line's cells
    clean           \* history: and on a blank row

chain == <<head, cur, nxt, prv, ch>>
screen == <<row, col>>
began == <<inherited, clean>>
lineVars == <<chain, screen, began>>

LineInit ==
    /\ head = Nil /\ cur = Nil
    /\ nxt = [c \in Cells |-> Nil] /\ prv = [c \in Cells |-> Nil]
    /\ ch = [c \in Cells |-> Nul]
    /\ row \in Leftovers /\ col = 0
    /\ inherited = FALSE /\ clean = FALSE

(* Once the line is complete a newline goes out, and the output of the    *)
(* command: the row the cursor is left on may hold anything.              *)
OtherRow == row' \in Leftovers /\ col' = 0

(* The k-th cell after head.                                              *)
Walk[k \in 0 .. MaxCells] ==
    IF k = 0 THEN head
    ELSE LET p == Walk[k - 1] IN IF p = Nil THEN Nil ELSE nxt[p]

Live == {Walk[k] : k \in 0 .. MaxCells} \ {Nil}
Fresh ==
    LET free == Cells \ Live
    IN  CHOOSE c \in free : \A d \in free : c <= d

(* concat_buff: the len bytes of each cell in turn.                       *)
Buff(c) == IF c = Nil \/ ch[c] = Nul THEN << >> ELSE <<ch[c]>>
Concat[k \in 0 .. MaxCells] ==
    IF k = 0 THEN << >> ELSE Concat[k - 1] \o Buff(Walk[k - 1])
Line == Concat[MaxCells]

(* How many characters lie before the cursor.                             *)
Position ==
    LET upto == CHOOSE k \in 0 .. MaxCells : Walk[k] = cur
    IN  IF ch[head] = Nul THEN upto ELSE upto + 1

-------------------------------------------------------------------------
(* Curses on the row: waddch overwrites, winsch shifts what follows to    *)
(* the right, mvwdelch(col - 1) pulls it to the left; a wmove outside the *)
(* row fails.                                                             *)
Move(x) == col' = IF x \in 0 .. Width - 1 THEN x ELSE col
Put(c) ==
    /\ row' = [row EXCEPT ![col + 1] = c]
    /\ Move(col + 1)
Squeeze(c) ==
    /\ row' = SubSeq(row, 1, col) \o <<c>> \o SubSeq(row, col + 1, Width - 1)
    /\ Move(col + 1)
Pull ==
    /\ row' = SubSeq(row, 1, col - 1) \o SubSeq(row, col + 1, Width) \o <<" ">>
    /\ Move(col - 1)

-------------------------------------------------------------------------
(* next_line: a new line, unless the old one's first cell is empty: that  *)
(* cell is used again with whatever still follows it.  ":> " clears       *)
(* nothing: the row keeps what it holds.                                  *)
NextLine ==
    /\ IF head = Nil \/ ch[head] # Nul
       THEN /\ head' = 1 /\ cur' = 1
            /\ nxt' = [c \in Cells |-> Nil] /\ prv' = [c \in Cells |-> Nil]
            /\ ch' = [c \in Cells |-> Nul]
            /\ inherited' = FALSE
       ELSE /\ cur' = head
            /\ inherited' = (nxt[head] # Nil)
            /\ UNCHANGED <<head, nxt, prv, ch>>
    /\ clean' = (row = Blanks)
    /\ col' = 0 /\ UNCHANGED row

(* add_char: the first cell, when empty, takes the character itself; a    *)
(* full one gets a new cell behind it.                                    *)
AddCharKeepsPrev(c) ==          \* mutant: the prev of what follows stays
    /\ IF nxt[cur] # Nil THEN Squeeze(c) ELSE Put(c)
    /\ IF ch[cur] = Nul
       THEN ch' = [ch EXCEPT ![cur] = c] /\ UNCHANGED <<cur, nxt, prv>>
       ELSE /\ cur' = Fresh
            /\ nxt' = [nxt EXCEPT ![cur] = Fresh, ![Fresh] = nxt[cur]]
            /\ prv' = [prv EXCEPT ![Fresh] = cur]
            /\ ch' = [ch EXCEPT ![Fresh] = c]
    /\ UNCHANGED <<head, began>>
AddChar(c) ==
    /\ IF nxt[cur] # Nil THEN Squeeze(c) ELSE Put(c)
    /\ IF ch[cur] = Nul
       THEN ch' = [ch EXCEPT ![cur] = c] /\ UNCHANGED <<cur, nxt, prv>>
       ELSE /\ cur' = Fresh
            /\ nxt' = [nxt EXCEPT ![cur] = Fresh, ![Fresh] = nxt[cur]]
            /\ prv' = [b \in Cells |-> IF b = Fresh THEN cur
                                       ELSE IF b = nxt[cur] THEN Fresh
                                       ELSE prv[b]]
            /\ ch' = [ch EXCEPT ![Fresh] = c]
    /\ UNCHANGED <<head, began>>

(* cu_left: before a first cell that holds a character, an empty one is   *)
(* put in front.                                                          *)
CuLeft ==
    /\ IF prv[cur] # Nil
       THEN cur' = prv[cur] /\ Move(col - 1) /\ UNCHANGED <<head, nxt, prv>>
       ELSE IF ch[cur] # Nul
       THEN /\ head' = Fresh /\ cur' = Fresh
            /\ prv' = [prv EXCEPT ![cur] = Fresh]
            /\ nxt' = [nxt EXCEPT ![Fresh] = cur]
            /\ Move(col - 1)
       ELSE UNCHANGED <<head, cur, nxt, prv, col>>
    /\ UNCHANGED <<ch, row, began>>

CuRight ==
    /\ IF nxt[cur] # Nil THEN cur' = nxt[cur] /\ Move(col + 1)
       ELSE UNCHANGED <<cur, col>>
    /\ UNCHANGED <<head, nxt, prv, ch, row, began>>

(* cu_del: the cell goes, but the first is only emptied.                  *)
CuDelKeepsFirst ==              \* mutant: the first cell is never emptied
    /\ IF prv[cur] # Nil
       THEN /\ cur' = prv[cur]
            /\ nxt' = [nxt EXCEPT ![prv[cur]] = nxt[cur], ![cur] = Nil]
            /\ prv' = [c \in Cells |-> IF c = cur THEN Nil
                                       ELSE IF c = nxt[cur] THEN prv[cur]
                                       ELSE prv[c]]
            /\ ch' = [ch EXCEPT ![cur] = Nul]
            /\ Pull
       ELSE IF ch[cur] # Nul
       THEN Pull /\ UNCHANGED <<cur, nxt, prv, ch>>
       ELSE UNCHANGED <<chain, screen>>
    /\ UNCHANGED <<head, began>>
CuDel ==
    /\ IF prv[cur] # Nil
       THEN /\ cur' = prv[cur]
            /\ nxt' = [nxt EXCEPT ![prv[cur]] = nxt[cur], ![cur] = Nil]
            /\ prv' = [c \in Cells |-> IF c = cur THEN Nil
                                       ELSE IF c = nxt[cur] THEN prv[cur]
                                       ELSE prv[c]]
            /\ ch' = [ch EXCEPT ![cur] = Nul]
            /\ Pull
       ELSE IF ch[cur] # Nul
       THEN /\ ch' = [ch EXCEPT ![cur] = Nul]
            /\ Pull
            /\ UNCHANGED <<cur, nxt, prv>>
       ELSE UNCHANGED <<chain, screen>>
    /\ UNCHANGED <<head, began>>

-------------------------------------------------------------------------
(* The cells reached from head are linked both ways without a loop, the   *)
(* cursor is on one of them, and none but the first is empty: however     *)
(* keys and prompts follow each other, no edit reads a freed cell.        *)
ChainIsLinked ==
    head # Nil =>
        /\ cur \in Live /\ prv[head] = Nil
        /\ \A c \in Live :
            /\ nxt[c] # Nil => prv[nxt[c]] = c
            /\ prv[c] # Nil => nxt[prv[c]] = c
            /\ c # head => ch[c] # Nul
=========================================================================
