SPECIFICATION Spec
CONSTANTS
    Text <- LoopText
    Instr <- LoopInstr
    Flow <- LoopFlow
    Entry = 2
    WordSize = 2
    BreakAddrs <- TwoAddrs
    WatchArgs <- ExecAndWrite
    MaxSbp = 1
    MaxHbp = 2
    MaxId = 2
CHECK_DEADLOCK FALSE
INVARIANTS IdsNameOneBp FlagMatchesList GoesOnWhereDue BitsAreWanted
PROPERTIES StopsKeepBps
