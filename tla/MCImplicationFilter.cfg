SPECIFICATION FiltersSpec
CONSTANTS
    s1 = s1
    s2 = s2
    s3 = s3
    NoListing = NoListing
    Spec <- MCSpecs
    World <- MCWorld
    Rank <- MCRank
    Capacity = 3
    MaxPopulation = 4
    MayTimeOut = FALSE
    MayThrow = TRUE
    MayAbandon = TRUE
INVARIANTS
    KeepsExactlyTheMaximal
    StreamIsMaximal
PROPERTIES
    ImplementsMaximalSet
CHECK_DEADLOCK FALSE
