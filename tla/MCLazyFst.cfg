CONSTANTS
    q = q
    r = r
    a = a
    b = b
    c = c
    isfinal = isfinal
    NoFinal = NoFinal
    NoTuple = NoTuple
    Threads <- MCThreads
    Jobs <- MCJobs
    Tuples <- MCTuples
    StartTuples <- MCStartTuples
    Succ <- MCSucc
    Final <- MCFinal
    Weights <- MCWeights
    Fallible <- MCFallible
    InitNames <- MCInitNames

SPECIFICATION FairSpec

INVARIANTS
    TableBijective
    CacheSound
    AnswersSound
    NoAbsentLookup
    KnownCovers
    CloneClosed

PROPERTIES
    Implements
    CallsReturn
