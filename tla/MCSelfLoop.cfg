CONSTANTS
    Infinity = Infinity
    Eps = Eps
    States <- MCStates
    Semirings <- Probabilities
    Zero <- MCZero
    One <- MCOne
    Plus <- MCPlus
    Times <- MCTimes
    ApproxEqual <- MCApproxEqual
    Idempotent = {}
    Fsts <- SelfLooped
    FilterEpsilon = FALSE
    Retains = {FALSE}
    MaxPasses = 1
    PathBound = 4

SPECIFICATION SDSpec

INVARIANT
    DistanceExact

CHECK_DEADLOCK FALSE
