SPECIFICATION Spec
CONSTANTS
    Models <- MCModels
    Rate <- MCRate
    Mode = {}
    MaxTicks = 2
    Addable = {}
    Original <- ZeroTickOriginal
    Cores <- MCCores
    Settings <- OnlyGrafting
    MaxBred <- FourBred
INVARIANT BoundsSpanATick
CHECK_DEADLOCK FALSE
