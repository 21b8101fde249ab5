\* Two subprograms with distinct keys, every choice of location lists; then
\* frametypes2 on the same binary under four command lines; then the allocation-site
\* helpers on every .allocs file of up to two of eleven lines.
CONSTANTS
    SubpSeq <- MCSubpSeq
    SubpName <- MCSubpName
    Key <- MCKey
    PcRanges <- MCPcRanges
    CuBase <- MCCuBase
    Dies <- MCDies
    DieOffset <- MCDieOffset
    StaticStorage = {"z"}
    Concrete = {"p", "b", "c", "z", "q"}
    ByteSize <- MCByteSize
    LocLists <- MCLocLists
    Addrs = {0, 1, 2, 3, 4, 5}
    ALL_VADDRS = 99
    WORD = 8
    UNSIGNED_BITS = 16
    NoBase = NoBase
    NoSize = NoSize
    OptionSets <- MCOptionSets
    TripleKey <- MCTripleKey
    AbstractInstances <- MCAbstract
    BUF_SIZE = 4096
    CUs <- MCCUs
    TypeDies <- MCTypeDies
    END = END
    Lines <- MCLines
    MAX_LINES = 2
SPECIFICATION MetaSpec
INVARIANT TableDescribesFrames
INVARIANT MembersInsideFrame
 
INVARIANT CompactDescribesFrames
INVARIANT TraditionalAbortsOnlyOnOffsetless
INVARIANT RelationMatchesReference
