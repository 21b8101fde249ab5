\* A zero-period entry ("single whole-range fact") kills a typed or sized lookup.
CONSTANTS
    I = I
    A = A
    S = S
    NullType = NullType
    Types = {I, A, S}
    TypeDesc <- MCTypeDesc
    MAX_SIZE = 2
    REPLACE_FIFO = FALSE
    CACHE_LINEAR = FALSE
    Facts <- AllFacts
    Queries <- AllQueries
    Regions <- MCRegions
SPECIFICATION Spec
INVARIANT NoDivideByZero
CHECK_DEADLOCK FALSE
