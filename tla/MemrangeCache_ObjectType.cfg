\* get_cached_object_type reports a type at an offset into a cached object.
CONSTANTS
    I = I
    A = A
    S = S
    NullType = NullType
    Types = {I, A, S}
    TypeDesc <- MCTypeDesc
    MAX_SIZE = 2
    REPLACE_FIFO = FALSE
    CACHE_LINEAR = FALSE
    Facts <- AllFacts
    Queries <- AllQueries
    Regions <- MCRegions
SPECIFICATION Spec
INVARIANT ObjectTypeOnlyAtBoundary
CHECK_DEADLOCK FALSE
