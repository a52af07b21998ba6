SPECIFICATION SearchSpec
CONSTANTS
    Models <- MCModels
    Rate <- MCRate
    Mode = {}
    MaxTicks = 4
    Addable <- MCAddable
    Original <- MCOriginal
    Cores <- MCCores
    Settings <- MCSettings
    MaxBred <- MCMaxBred
    Searchable <- MCSearchable
    Start <- MCStart
    Objectives <- MCObjectives
    Offspring <- MCOffspring
    Correct <- MCCorrect
    Bloated <- MCBloated
    Stronger <- MCStronger
    ProvedUnrealizable <- MCProvedUnrealizable
    Realizable <- MCRealizable
    MayFailToScore <- MCMayFailToScore
    SearchSettings <- MCSearchSettings
    SearchFailurePercent = 34
    PopulationSize = 3
    SelectionPercent = 100
    Levels <- MCLevels
    Count = 2
    MaximalityDemotion = TRUE
    MaxDistinct = 4
    MaxRank = 3
    RankLists <- MCRankLists
    MaxTarget = 12
    Spec_ <- MCSpec
    Parts <- MCParts
    ScoredPopulations <- MCPopulations
    FailurePercent = 50
    Calls = 3
INVARIANTS
    EveryFrontHasAMember
CHECK_DEADLOCK FALSE
