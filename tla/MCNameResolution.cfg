CONSTANTS
    Projects <- MCProjects
    Stdlib <- MCStdlib
    MaxEdits = 1
    RecursionLimit = 3
SPECIFICATION Spec
CHECK_DEADLOCK FALSE
INVARIANTS
    ModulesInOrder
    ReadAfresh
    BindsAsScoped
    RejectsExactly
