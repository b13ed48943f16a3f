SPECIFICATION Spec
CONSTANTS
    MaxCells = 3
    MaxLine = 2
    LastWin = 2
    MaxAhead = 1
    AheadCells = 2
    Chars <- FewChars
    Leftovers <- BlankRow
CHECK_DEADLOCK FALSE
PROPERTIES EndsWhenTold
