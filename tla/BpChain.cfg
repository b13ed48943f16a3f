SPECIFICATION Spec
CONSTANTS
    Nodes = {1, 2, 3}
    Places = {16, 32}
    MaxId = 4
INVARIANTS ChainsHoldUsed
PROPERTIES IsLists
CHECK_DEADLOCK FALSE
