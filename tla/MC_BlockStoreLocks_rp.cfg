\* The same callers on a reader-preferring RwLock.
CONSTANTS
    Tasks = {t1, t2, t3}
    Runner = r
    WriterPreferring = FALSE
SPECIFICATION Spec
INVARIANTS
    NoDeadlock
PROPERTIES
    HolderReleases
