CONSTANTS
    a = a
    Eps = Eps
    States <- MCStates
    Semirings = {"series"}
    Zero <- MCZero
    One <- MCOne
    Plus <- MCPlus
    Times <- MCTimes
    ApproxEqual <- MCApproxEqual
    Idempotent = {}
    Fsts <- MCFsts
    FilterEpsilon = TRUE
    Retains = {TRUE}
    MaxPasses = 2
    PathBound = 3
    Labels <- MCLabels
    Words <- MCWords

SPECIFICATION RmSpec

INVARIANTS
    DistancesFresh
    ExpandExact
    LanguageKept

PROPERTIES
    ExpandEnds

CHECK_DEADLOCK FALSE
