SPECIFICATION Spec
CONSTANTS
    strong = strong
    same = same
    weak = weak
    Candidates <- MCCandidates
    Implies <- MCImplies
    Climbed <- MCClimbed
    Generations = 2
    Settings <- MCSettings
INVARIANTS
    DirectoryIsReadable
PROPERTIES
    AccumulatorIsHarmless
CHECK_DEADLOCK FALSE
