\* f and g share a subprogram_key (a static inline function of one header,
\* emitted out of line in two CUs).
CONSTANTS
    SubpSeq <- MCSubpSeq
    SubpName <- MCSubpName
    Key <- DupKey
    PcRanges <- MCPcRanges
    CuBase <- MCCuBase
    Dies <- MCDies
    DieOffset <- MCDieOffset
    StaticStorage = {"z"}
    Concrete = {"p", "b", "c", "z", "q"}
    ByteSize <- MCByteSize
    LocLists <- MCLocLists
    Addrs = {0, 1, 2, 3, 4, 5}
    ALL_VADDRS = 99
    WORD = 8
    UNSIGNED_BITS = 16
    NoBase = NoBase
    NoSize = NoSize
    OptionSets <- MCTraditional
    TripleKey <- MCTripleKey
    AbstractInstances <- MCAbstract
    BUF_SIZE = 4096
    CUs <- MCCUs
    TypeDies <- MCTypeDies
    END = END
    Lines <- MCLines
    MAX_LINES = 2
SPECIFICATION MetaSpec
INVARIANT TableDescribesFrames
