SPECIFICATION Spec
CONSTANTS
    r = r
    a = a
    t1 = t1
    t2 = t2
    Threads = {t1, t2}
    Tuples <- MCTuples
    Start = r
    Succ <- MCSucc
    Final <- MCFinal
    Jobs <- MCJobs
    Layers <- MCLayers
    MaxClears = 1
INVARIANTS
    AnswersRight
    IterDefined
    FilesClosed
    ReadsBack
