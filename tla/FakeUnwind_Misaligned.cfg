\* A debug build over stacks that may hold a misaligned saved bp.
CONSTANTS
    ADDR_BITS = 7
    WORD = 4
    SANE_LIMIT = 12
    STEP_LIMIT = 32
    StackWords <- MCStackWords
    Vals <- GarbageVals
    NDEBUG = FALSE
SPECIFICATION Spec
INVARIANT NoAssertAbort
