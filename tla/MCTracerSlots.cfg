SPECIFICATION Spec
CONSTANTS
    Text <- LoopText
    Instr <- LoopInstr
    Flow <- LoopFlow
    Entry = 2
    WordSize = 2
    BreakAddrs <- TwoAddrs
    WatchArgs <- ExecAndWrite
    MaxSbp = 0
    MaxHbp = 3
    MaxId = 3
CHECK_DEADLOCK FALSE
INVARIANTS WatchIsArmed
