SPECIFICATION Spec
CONSTANTS
    Sources <- MCSources
    Spelling <- MCSpelling
    Keywords <- MCKeywords
INVARIANTS
    LayoutAsSpecified
    TokensCoverSource
    LongestMatch
CHECK_DEADLOCK FALSE
