CONSTANTS
    a = a
    b = b
    c = c
    d = d
    e = e
    NoTuple = NoTuple
    Tuples <- MCTuples
    Hash <- MCHash
    TupleBytes <- MCTupleBytes
    Caps <- MCCaps
    RevSlack = 1
    INITIAL_SLOT_COUNT = 2
    NO_STATE_ID = 4

SPECIFICATION Spec

INVARIANT
    PoisonedByIo
