--------------------------- MODULE MC_FrameTypes ---------------------------
(***************************************************************************)
(* Three subprograms: f, over pcs 0..3 of a CU whose base is 0, g, over  *)
(* pcs 4..5 of a CU whose base is 4, and h, an abstract instance of an    *)
(* inlined subprogram with no pcs and no locals.  f has a parameter p,    *)
(* two locals b and c of sibling blocks that may share one stack slot or  *)
(* c may be static on part of its range, and a static variable z; g has  *)
(* a local q and a local i of incomplete type.  Each DIE may have any of  *)
(* a few location lists: for all vaddrs, split by a move to a register,  *)
(* with a gap, or none.                                                   *)
(***************************************************************************)
EXTENDS MetaTools, MC_AllocSites

(* frametypes2 --output-traditional. *)
MCTraditional == {<<[flag |-> "OUTPUT_TRADITIONAL", on |-> TRUE]>>}

(* That, the same followed by --include-static, frametypes2              *)
(* --no-include-cfi, and frametypes2 --no-include-cfi --include-static    *)
(* --include-incomplete.                                                  *)
MCOptionSets ==
    MCTraditional \cup
    {<<[flag |-> "OUTPUT_TRADITIONAL", on |-> TRUE], [flag |-> "INCLUDE_STATIC", on |-> TRUE]>>,
     <<[flag |-> "INCLUDE_CFI", on |-> FALSE]>>,
     <<[flag |-> "INCLUDE_CFI", on |-> FALSE], [flag |-> "INCLUDE_STATIC", on |-> TRUE],
       [flag |-> "INCLUDE_INCOMPLETE", on |-> TRUE]>>}

(* The triples sort by element name first, and the names differ. *)
MCTripleKey == [d \in {"p", "b", "c", "z", "q", "i"} |->
                  CASE d = "b" -> 1 [] d = "c" -> 2 [] d = "i" -> 3
                    [] d = "p" -> 4 [] d = "q" -> 5 [] d = "z" -> 6]

(* h is the abstract instance root of an inline function with no        *)
(* out-of-line copy: no pcs, no located DIEs, a key of its own.            *)
MCSubpSeq == <<"f", "g", "h">>
MCAbstract == {"h"}
MCSubpName == [s \in {"f", "g", "h"} |-> s]
MCKey == [s \in {"f", "g", "h"} |-> CASE s = "f" -> 1 [] s = "g" -> 2 [] s = "h" -> 3]
(* g is a second out-of-line copy of a static inline function of the     *)
(* same header as f: same name, same decl_file, same comp_dir.            *)
DupKey == [s \in {"f", "g", "h"} |-> IF s = "h" THEN 3 ELSE 1]
MCPcRanges == [s \in {"f", "g", "h"} |->
                 CASE s = "f" -> {<<0, 4>>} [] s = "g" -> {<<4, 6>>} [] s = "h" -> {}]
MCCuBase == [s \in {"f", "g", "h"} |-> IF s = "g" THEN 4 ELSE 0]
MCDies == [s \in {"f", "g", "h"} |->
             CASE s = "f" -> <<"p", "b", "c", "z">> [] s = "g" -> <<"q", "i">> [] s = "h" -> <<>>]
MCDieOffset == [d \in {"p", "b", "c", "z", "q", "i"} |->
                  CASE d = "p" -> 1 [] d = "b" -> 2 [] d = "c" -> 3
                    [] d = "z" -> 4 [] d = "q" -> 5 [] d = "i" -> 6]
MCByteSize == [d \in {"p", "b", "c", "z", "q", "i"} |->
                  CASE d \in {"p", "q", "z"} -> 4 [] d \in {"b", "c"} -> 8
                    [] d = "i" -> NoSize]

(* Location expressions: DW_OP_fbreg o; a register; DW_OP_addr. *)
FB(o) == [addr_first |-> FALSE, stack_value_last |-> FALSE, reads_reg |-> FALSE,
          eval |-> "address", off |-> o]
REG == [FB(0) EXCEPT !.reads_reg = TRUE]
ADDR == [FB(0) EXCEPT !.addr_first = TRUE]

E(lo, hi, x) == [lo |-> lo, hi |-> hi, expr |-> x]

MCLocLists ==
    [d \in {"p", "b", "c", "z", "q", "i"} |->
       CASE d = "p" -> {<<E(0, 0, FB(8))>>, <<E(0, 0, FB(-4))>>,
                        <<E(0, 2, FB(-4)), E(2, 4, REG)>>}
         [] d = "b" -> {<<E(1, 3, FB(-16))>>, <<E(1, 2, FB(-16)), E(3, 4, FB(-16))>>}
         [] d = "c" -> {<<>>, <<E(2, 3, FB(-16))>>, <<E(2, 3, ADDR)>>}
         [] d = "z" -> {<<E(0, 4, ADDR)>>}
         [] d = "q" -> {<<E(0, 2, FB(-12))>>, <<E(0, 0, FB(-12))>>, <<E(0, 1, ADDR)>>}
         [] d = "i" -> {<<E(0, 2, FB(-8))>>}]
====
