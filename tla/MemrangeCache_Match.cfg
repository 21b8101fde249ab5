\* FIFO replacement with the linear scan (LIBALLOCS_CACHE_REPLACE_FIFO and
\* LIBALLOCS_CACHE_LINEAR), two slots, every fact the spec allows (including
\* a zero-period and a null-typed one) and every kind of query.  A lookup
\* that faults kills the process, so a faulted state has no successor.
CONSTANTS
    I = I
    A = A
    S = S
    NullType = NullType
    Types = {I, A, S}
    TypeDesc <- MCTypeDesc
    MAX_SIZE = 2
    REPLACE_FIFO = TRUE
    CACHE_LINEAR = TRUE
    Facts <- AllFacts
    Queries <- AllQueries
    Regions <- MCRegions
SPECIFICATION RecencySpec
INVARIANT TypeOK
INVARIANT LookupExact
PROPERTY RecentTouchSurvivesInsert
CHECK_DEADLOCK FALSE
