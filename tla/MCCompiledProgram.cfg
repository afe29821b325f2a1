CONSTANTS
    Owner <- MCOwner
    Primitives = {"strLen"}
    Sums <- MCSums
    Records <- MCRecords
    Aliases <- MCAliases
    Arguments <- MCArguments
    Programs <- MCPrograms
SPECIFICATION Spec
CHECK_DEADLOCK FALSE
INVARIANTS
    MeaningPreserved
    AcceptedRunsRight
    EffectsAsDeclared
