\* Two threads each bump or invalidate one slot of a full three-slot cache.
CONSTANTS
    t1 = t1
    t2 = t2
    MAX_SIZE = 3
    Threads <- MCThreads
    Ops <- WriteOps
SPECIFICATION Spec
INVARIANT ListAcyclicAfterRace
