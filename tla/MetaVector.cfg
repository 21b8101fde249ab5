\* A binary of two PT_LOAD segments, four statics and two RELA sections of
\* section-relative relocations, every choice of two entries per section.
CONSTANTS
    ADDR_BITS = 8
    SWORD_BITS = 7
    BITMAP_WORD_NBITS = 8
    Phdrs <- MCPhdrs
    StaticChoices <- MCStatics
    SectionChoices <- MCSections
    NoType = NoType
SPECIFICATION Spec
INVARIANT RecordsExact
