SPECIFICATION Spec
CONSTANTS
    Libraries <- SmallLibraries
    Names = {"f", "g", "h"}
    Dynsym <- SmallDynsym
    Hashed <- SmallHashed
    Openable <- SmallOpenable
    Main = "main"
    Programs <- SmallPrograms
    Words = 16
CHECK_DEADLOCK FALSE
INVARIANTS TypeOK CompleteIsSafe PromptSeesLinks ShowsBindings ListsLoaded
