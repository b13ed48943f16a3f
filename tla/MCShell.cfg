SPECIFICATION Spec
CONSTANTS
    MaxCells = 4
    MaxLine = 3
    LastWin = 1
    MaxAhead = 0
    AheadCells = 1
    Chars <- FewChars
    Leftovers <- SomeRows
CHECK_DEADLOCK FALSE
INVARIANTS TypeOK ChainIsLinked ScreenShowsLine BufferIsSpent
