---------------------------- MODULE MC_MetaVector ----------------------------
(***************************************************************************)
(* An 8-bit address space with 8-bit bitmap words.  Two PT_LOAD segments, *)
(* text at [4, 24) (not word-aligned, so the bitmap starts below it) and   *)
(* data at [36, 56), with a PT_NOTE between them.  Four statics, two of    *)
(* them extrasyms.  A PROGBITS section and two relocation sections, each   *)
(* of any relocated-section kind and any two of the entries below.         *)
(***************************************************************************)
EXTENDS MetaVector

MCPhdrs ==
    << [type |-> "LOAD", vaddr |-> 4,  memsz |-> 20],
       [type |-> "NOTE", vaddr |-> 8,  memsz |-> 4],
       [type |-> "LOAD", vaddr |-> 36, memsz |-> 20] >>

MCStatics ==
    { { [lo |-> 6,  hi |-> 10, k |-> "EXTRASYM", idx |-> 0, type |-> "T1"],
        [lo |-> 12, hi |-> 16, k |-> "SYMTAB",   idx |-> 3, type |-> NoType],
        [lo |-> 40, hi |-> 48, k |-> "EXTRASYM", idx |-> 0, type |-> "T2"],
        [lo |-> 50, hi |-> 52, k |-> "DYNSYM",   idx |-> 1, type |-> "T1"] } }

Rel(sym, value, addend, pcrel, secend) ==
    [sym |-> sym, value |-> value, addend |-> addend, pcrel |-> pcrel, secend |-> secend]

(* .data is [36, 56), .text is [4, 24). *)
Entries ==
    { Rel("section", 36, 8, FALSE, 56),        \* inside a static: discarded
      Rel("section", 36, 16, FALSE, 56),       \* 52, just past a static
      Rel("section", 36, 12, TRUE, 56),        \* PC-relative: 36 + 12 + 4 = 52
      Rel("section", 4, -4, TRUE, 24),         \* 4, the start of the segment
      Rel("local_notype", 20, 0, FALSE, 24),   \* 20
      Rel("section", 36, 20, FALSE, 56),       \* 56, one past .data
      Rel("global", 12, 0, FALSE, 24) }        \* not counted

RelSecs ==
    { [type |-> "RELA", relocated |-> rk, rels |-> <<e1, e2>>]
      : rk \in {"none", "alloc", "nonalloc"}, e1 \in Entries, e2 \in Entries }

MCSections ==
    { << [type |-> "PROGBITS", relocated |-> "none", rels |-> <<>>], s1, s2 >>
      : s1 \in RelSecs, s2 \in RelSecs }
=============================================================================
