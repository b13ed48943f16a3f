SPECIFICATION Spec
CONSTANTS
    File <- SmallFile
    PidTag = "P"
    EOL = "."
    ReadLen = 2
    Vars <- SmallVars
    Values <- SmallValues
    Dirs <- SmallDirs
    Empty = ""
    Absent = "absent"
    Begins <- SmallBegins
    Inherited <- SmallInherited
    Given <- SmallGiven
    Home = "home"
    SearchPath <- SmallPath
    Here = "."
    Listed <- SmallListed
    Words <- SmallWords
    Builtins <- SmallBuiltins
    Spare = 3
CHECK_DEADLOCK FALSE
INVARIANTS TypeOK PidIsOwn WordMeans
PROPERTIES IsEnvMap PromptReturns
