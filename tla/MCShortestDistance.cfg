CONSTANTS
    Infinity = Infinity
    Eps = Eps
    States <- MCStates
    Semirings <- MCSemirings
    Zero <- MCZero
    One <- MCOne
    Plus <- MCPlus
    Times <- MCTimes
    ApproxEqual <- MCApproxEqual
    Idempotent <- MCIdempotent
    Fsts <- MCFsts
    FilterEpsilon = FALSE
    Retains = {TRUE, FALSE}
    MaxPasses = 2
    PathBound = 3

SPECIFICATION SDSpec

INVARIANTS
    Conserved
    QueueFaithful

PROPERTIES
    PassEnds

CHECK_DEADLOCK FALSE
