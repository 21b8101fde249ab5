\* A release build (assert compiled out) over stacks that may hold a
\* misaligned saved bp: the walk terminates, and
\* every step moves up the stack.
CONSTANTS
    ADDR_BITS = 7
    WORD = 4
    SANE_LIMIT = 12
    STEP_LIMIT = 32
    StackWords <- MCStackWords
    Vals <- GarbageVals
    NDEBUG = TRUE
SPECIFICATION Spec
PROPERTY WalkTerminates
PROPERTY StepMovesUp
