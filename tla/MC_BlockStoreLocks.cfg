\* Three callers and the runner on the Linux build, whose std RwLock
\* (futex based) makes a new reader wait behind a waiting writer.
CONSTANTS
    Tasks = {t1, t2, t3}
    Runner = r
    WriterPreferring = TRUE
SPECIFICATION Spec
INVARIANTS
    NoDeadlock
PROPERTIES
    HolderReleases
