SPECIFICATION Spec
CONSTANTS
    Text <- LoopText
    Instr <- LoopInstr
    Flow <- LoopFlow
    Entry = 2
    WordSize = 4
    BreakAddrs <- TwoAddrs
    WatchArgs <- NoWatch
    MaxSbp = 2
    MaxHbp = 0
    MaxId = 2
CHECK_DEADLOCK FALSE
INVARIANTS EnabledIsArmed
