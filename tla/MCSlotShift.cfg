SPECIFICATION Spec
CONSTANTS
    Models <- MCModels
    Rate <- MCRate
    Mode = {}
    MaxTicks = 2
    Addable = {}
    Original <- AdjacentOriginal
    Cores <- MCCores
    Settings <- OnlyRemoving
    MaxBred <- FourBred
INVARIANT SlotsDescend
CHECK_DEADLOCK FALSE
