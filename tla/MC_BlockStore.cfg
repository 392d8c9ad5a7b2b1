CONSTANTS
    a = a
    b = b
    None = None
    Tasks = {t1, t2}
    First <- MCFirst
    Numbers <- MCNumbers
    Blocks <- MCBlocks
    MaxCrashes = 1
SPECIFICATION Spec
INVARIANTS
    QueueContiguous
    ChainLinked
    PersistBeforeAck
    RunnerWritesNext
    ReadBack
    OkMeansQueued
PROPERTIES
    EventuallyPersisted
    Refinement
