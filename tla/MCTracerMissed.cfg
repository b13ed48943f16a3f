SPECIFICATION Spec
CONSTANTS
    Text <- LoopText
    Instr <- LoopInstr
    Flow <- RoundFlow
    Entry = 2
    WordSize = 2
    BreakAddrs <- ThreeAddrs
    WatchArgs <- NoWatch
    MaxSbp = 3
    MaxHbp = 0
    MaxId = 3
CHECK_DEADLOCK FALSE
PROPERTIES ContStopsAtListed
