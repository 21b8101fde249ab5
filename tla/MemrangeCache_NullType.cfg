\* A null-typed entry kills lookup_with_size at its offset_to_t.
CONSTANTS
    I = I
    A = A
    S = S
    NullType = NullType
    Types = {I, A, S}
    TypeDesc <- MCTypeDesc
    MAX_SIZE = 2
    REPLACE_FIFO = FALSE
    CACHE_LINEAR = FALSE
    Facts <- AllFacts
    Queries <- AllQueries
    Regions <- MCRegions
SPECIFICATION Spec
INVARIANT NoNullTypeDeref
CHECK_DEADLOCK FALSE
