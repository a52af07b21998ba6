SPECIFICATION MCSpec
CONSTANTS
    Models <- MCModels
    Requirement <- MCRequirement
    Ruled <- MCRuled
    Specification <- MCSpecification
    Rate <- MCRate
    Mode = {"m"}
    MaxTicks = 1
    Addable = {}
    Signals = {"p", "q"}
    Letter <- MCLetter
    MaxLength = 3
    Names <- MCNames
    FreshNames <- MCFreshNames
    ElementWidth = 2
    SampledElements = 1
    MaxPositions = 4
    WordShift = 2
    MaxAtoms = 2
    MaxExponent = 5
    MaxIndex = 4
INVARIANTS
    LoweringIsFret
    ImplicationRulesAreSound
    RewritesKeepTheMeaning
    FingerprintsAreExact
    ScoresAreOverlaps
    LoweringIsTlsf
    MovesGoTheirWay
    CountsAreExact
    MovesKeepTheFormat
CHECK_DEADLOCK FALSE
