SPECIFICATION Spec
CONSTANTS
    Text <- LoopText
    Instr <- LoopInstr
    Flow <- LoopFlow
    Entry = 2
    WordSize = 2
    BreakAddrs <- TwoAndUnmapped
    WatchArgs <- NoWatch
    MaxSbp = 2
    MaxHbp = 0
    MaxId = 2
CHECK_DEADLOCK FALSE
INVARIANTS TypeOK IdsNameOneBp FlagMatchesList PidUntilReaped RegsAreSlaves TextMatchesLists GoesOnWhereDue
PROPERTIES StopsKeepBps
