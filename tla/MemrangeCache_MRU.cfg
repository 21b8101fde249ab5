\* MRU replacement (the default build), three slots, composed with a heap
\* of four allocations over two reusable spans: the store invariants, the
\* exactness of lookups, the protection of a just-hit entry, the
\* refinement of the abstract LRU list, and that no lookup returns a fact
\* about freed memory.
CONSTANTS
    I = I
    A = A
    S = S
    NullType = NullType
    Types = {I, A, S}
    TypeDesc <- MCTypeDesc
    MAX_SIZE = 3
    REPLACE_FIFO = FALSE
    CACHE_LINEAR = FALSE
    Allocs <- MCAllocs
    Facts <- HeapFacts
    Queries <- HeapQueries
    Regions <- HeapRegions
SPECIFICATION HeapSpec
INVARIANT HeapTypeOK
INVARIANT CacheSane
INVARIANT LookupExact
INVARIANT HitIsLive
PROPERTY RecentHitSurvivesInsert
PROPERTY ImplementsLRU
