SPECIFICATION Spec
CONSTANTS
    Programs <- MCPrograms
    Inputs <- MCInputs
    Idents <- MCIdents
INVARIANTS
    RoundTrip
    NothingIgnored
CHECK_DEADLOCK FALSE
