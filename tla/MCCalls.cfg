SPECIFICATION Spec
CONSTANTS
    Code <- SmallCode
    Local <- SmallText
    Symbols <- SmallSymbols
    Programs <- SmallPrograms
    Entry = 10
    BreakAddrs <- TwoBreaks
    MaxRuns = 1
    MaxDepth = 3
    MaxList = 4
CHECK_DEADLOCK FALSE
INVARIANTS TypeOK WalksOnlyOverPlt TopIsCurrent CallsAreListed NoStaleEntries
