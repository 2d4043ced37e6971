CONSTANTS
    w = w
    r = r
    a = a
    b = b
    c = c
    isfinal = isfinal
    NoFinal = NoFinal
    NoTuple = NoTuple
    Threads <- MCThreads
    Jobs <- MCJobs
    Tuples <- MCTuples
    StartTuples <- MCStartTuples
    Succ <- MCSucc
    Final <- MCFinal
    Weights <- MCWeights
    Fallible <- MCFallible
    InitNames <- MCInitNames
    Walker = w
    StateBounds <- MCStateBounds
    TrBounds <- MCTrBounds

SPECIFICATION WalkSpec

INVARIANTS
    IterComplete
    SingleTouch
    ComputeFaithful
    BudgetExact

PROPERTIES
    WalkerIsClient
    WalkEnds
