SPECIFICATION CheckersSpec
SYMMETRY Symmetry
CONSTANTS
    Worker = {w1, w2}
    Conjunct <- MCConjunct
    Scope <- MCScope
    Word <- MCWord
    Strategy <- MCStrategy
    Plays <- MCPlays
    Sat <- MCSat
    Rules <- MCRules
    InputFree <- MCInputFree
    Query <- MCQuery
    Settings <- MCSettings
    SignatureBits = 2
    DifferenceCap = 1
    PerScope = 1
    Candidates = 1
    plain = plain
    weak = weak
    renamed = renamed
    long = long
    zero = zero
    t1 = t1
    t2 = t2
INVARIANTS
    AnswersAreTrue
    CachesAreSound
    WitnessesProve
    StatusIsGraded
PROPERTIES
    SatisfiabilityIsTrue
CHECK_DEADLOCK FALSE
