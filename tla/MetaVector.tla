----------------------------- MODULE MetaVector -----------------------------
(***************************************************************************)
(* The metavector tool (src/tools/metavector.cpp).  From a binary's       *)
(* sanely described statics and its relocation sections it builds, in     *)
(* generate_recs, an address-keyed std::map of records: one per static,   *)
(* and one per relocation target that falls in no static.  Then, for each *)
(* PT_LOAD segment, output_one_segment_metavec prints the records of the  *)
(* segment in address order (the metavector) and a bitmap with one bit    *)
(* per byte of the segment, set at each record's address.  The run-time   *)
(* finds the record of an address by counting bits.                       *)
(*                                                                         *)
(* The DWARF and ELF reading is abstracted to its results: the statics    *)
(* with the summary stickyroot gives them, and the relocation entries     *)
(* with the facts the scan tests.  Printing is abstracted to records of   *)
(* what is printed; the comments in the output are left out.              *)
(***************************************************************************)
EXTENDS Integers, Sequences, SequencesExt, FiniteSets

CONSTANTS
    ADDR_BITS,          \* width of Dwarf_Addr and uintptr_t
    SWORD_BITS,         \* width of Elf64_Sword
    BITMAP_WORD_NBITS,  \* bits of a bitmap_word_t
    Phdrs,              \* the program headers: [type, vaddr, memsz]
    StaticChoices,      \* the sets of statics the binary may have
    SectionChoices,     \* the section lists the binary may have
    NoType              \* a static without a type

RelTypes == {"RELA", "REL"}

VARIABLES
    statics,    \* get_sanely_described_statics(): [lo, hi, k, idx, type]
    sections,   \* the ELF sections in shndx order
    recs,       \* generate_recs' std::map< Dwarf_Addr, ... >
    phase,      \* "statics", "relocs", "output" or "done"
    sec,        \* the section the while loop of generate_recs is at
    relbase,    \* relscn_global_base
    ph,         \* the phdr main's loop is at
    out         \* the segment metavectors and bitmaps printed so far

vars == <<statics, sections, recs, phase, sec, relbase, ph, out>>

(* Unsigned and 32-bit signed arithmetic. *)
ToAddr(x) == x % 2^ADDR_BITS
Sword(x) ==
    LET m == x % 2^SWORD_BITS
    IN IF m >= 2^(SWORD_BITS - 1) THEN m - 2^SWORD_BITS ELSE m

RoundDown(x, n) == (x \div n) * n
RoundUp(x, n) == ((x + n - 1) \div n) * n

(* statics.find(right_open(a, a + 1)) != statics.end() *)
OverlapsStatic(a) == \E s \in statics : s.lo <= a /\ a < s.hi

Init ==
    /\ statics \in StaticChoices
    /\ sections \in SectionChoices
    /\ recs = [a \in {} |-> 0]
    /\ phase = "statics"
    /\ sec = 1
    /\ relbase = 0
    /\ ph = 1
    /\ out = <<>>

(***************************************************************************)
(* generate_recs, its two loops over the statics.  extrasym_idx starts at *)
(* 1 and is incremented before each use, so the j-th extrasym in address  *)
(* order gets index j + 1.  The statics are disjoint, so no insert of     *)
(* these loops meets a key already present.                                *)
(***************************************************************************)
ExtrasymIdx(s) ==
    1 + Cardinality({t \in statics : t.k = "EXTRASYM" /\ t.lo <= s.lo})

StaticRec(s) ==
    [k |-> s.k, type |-> s.type,
     idx |-> IF s.k = "EXTRASYM" THEN ExtrasymIdx(s) ELSE s.idx]

GenerateStaticRecs ==
    /\ phase = "statics"
    /\ LET first  == {s \in statics : s.k = "EXTRASYM"}
           second == {s \in statics : s.k # "EXTRASYM"}
           Recs(S) == [a \in {s.lo : s \in S} |->
                         StaticRec(CHOOSE s \in S : s.lo = a)]
       IN recs' = Recs(first) @@ Recs(second)
    /\ phase' = "relocs"
    /\ UNCHANGED <<statics, sections, sec, relbase, ph, out>>

(***************************************************************************)
(* scan_reloc_target_addr_end_pairs.                                       *)
(***************************************************************************)
(* reloc_synthetic_addend: 4 for the PC-relative x86 relocation types. *)
SyntheticAddend(r) == IF r.pcrel THEN 4 ELSE 0

(* The referenced vaddr, as the code computes it into an Elf64_Sword: the *)
(* addend is taken from r_addend of a RELA entry, and as 0 for a REL one. *)
RelocTarget(shdr, r) ==
    ToAddr(Sword(r.value + (IF shdr.type = "RELA" THEN r.addend ELSE 0)
                 + SyntheticAddend(r)))

(* A reloc against a section symbol or a local NOTYPE symbol. *)
Counted(r) == r.sym \in {"section", "local_notype"}

ScanRelocTargets(shdr, base) ==
    IF shdr.relocated = "nonalloc" THEN {}
    ELSE { [coord |-> base + i - 1,
            target |-> RelocTarget(shdr, shdr.rels[i]),
            end |-> ToAddr(Sword(shdr.rels[i].secend))]
           : i \in {j \in DOMAIN shdr.rels : Counted(shdr.rels[j])} }

(* Mutant: recs[target] = rec, so a later relocation replaces the first. *)
AddSaneRelocIntervals_Overwrite(rs, pairs) ==
    LET add(acc, p) ==
            IF OverlapsStatic(p.target) THEN acc
            ELSE (p.target :> [k |-> "REL", idx |-> p.coord, type |-> NoType]) @@ acc
    IN FoldLeft(add, rs, SetToSortSeq(pairs, LAMBDA p, q : p.coord < q.coord))

(* add_sane_reloc_intervals: in coordinate order, a target that no static *)
(* overlaps is inserted; std::map::insert keeps a key already present.    *)
AddSaneRelocIntervals(rs, pairs) ==
    LET add(acc, p) ==
            IF OverlapsStatic(p.target) THEN acc
            ELSE acc @@ (p.target :> [k |-> "REL", idx |-> p.coord, type |-> NoType])
    IN FoldLeft(add, rs, SetToSortSeq(pairs, LAMBDA p, q : p.coord < q.coord))

(* One iteration of the while loop over the sections in generate_recs. *)
ScanSection ==
    /\ phase = "relocs"
    /\ LET shdr == sections[sec]
       IN IF shdr.type \in RelTypes
          THEN /\ recs' = AddSaneRelocIntervals(recs, ScanRelocTargets(shdr, relbase))
               /\ relbase' = relbase + Len(shdr.rels)
          ELSE UNCHANGED <<recs, relbase>>
    /\ sec' = sec + 1
    /\ phase' = IF sec = Len(sections) THEN "output" ELSE "relocs"
    /\ UNCHANGED <<statics, sections, ph, out>>

(***************************************************************************)
(* output_one_segment_metavec.                                             *)
(***************************************************************************)
BitmapBase(p) == RoundDown(p.vaddr, BITMAP_WORD_NBITS)

(* bit_idx = i_rec->first - bitmap_base_addr *)
BitIndex(a, p) == a - BitmapBase(p)

SegmentMetavec(p) ==
    LET base  == p.vaddr
        limit == ToAddr(base + p.memsz)
        addrs == SetToSortSeq({a \in DOMAIN recs : base <= a /\ a < limit},
                              LAMBDA a, b : a < b)
        bb    == BitmapBase(p)
        bl    == RoundUp(limit, BITMAP_WORD_NBITS)
    IN [base |-> base, limit |-> limit,
        vec |-> [j \in DOMAIN addrs |-> recs[addrs[j]]],
        bitmap_base |-> bb,
        nwords |-> RoundUp(bl - bb, BITMAP_WORD_NBITS) \div BITMAP_WORD_NBITS,
        bits |-> {BitIndex(addrs[j], p) : j \in DOMAIN addrs}]

(* One iteration of main's loop over the program headers. *)
OutputPhdr ==
    /\ phase = "output"
    /\ out' = IF Phdrs[ph].type = "LOAD"
              THEN Append(out, SegmentMetavec(Phdrs[ph])) ELSE out
    /\ ph' = ph + 1
    /\ phase' = IF ph = Len(Phdrs) THEN "done" ELSE "output"
    /\ UNCHANGED <<statics, sections, recs, sec, relbase>>

(* main has returned. *)
Done ==
    /\ phase = "done"
    /\ UNCHANGED vars

Next == GenerateStaticRecs \/ ScanSection \/ OutputPhdr \/ Done

Spec == Init /\ [][Next]_vars

-----------------------------------------------------------------------------
(* The address a relocation refers to: the symbol's value plus the addend *)
(* (r_addend, or the implicit addend of a REL entry) plus the PC-relative *)
(* adjustment, as the comment in scan_reloc_target_addr_end_pairs says.   *)
RefTarget(r) == r.value + r.addend + SyntheticAddend(r)

(* The linearised index of a relocation: its index within its section    *)
(* plus the entries of every relocation section before it.                *)
RefCoord(i, j) ==
    j - 1 + FoldLeft(LAMBDA acc, s : acc + (IF s.type \in RelTypes THEN Len(s.rels) ELSE 0),
                     0, SubSeq(sections, 1, i - 1))

RefRelocs ==
    UNION { { [coord |-> RefCoord(i, j), target |-> RefTarget(sections[i].rels[j])]
              : j \in {j2 \in DOMAIN sections[i].rels : Counted(sections[i].rels[j2])} }
            : i \in {i2 \in DOMAIN sections : sections[i2].type \in RelTypes
                                              /\ sections[i2].relocated # "nonalloc"} }

(* What generate_recs promises (the comments at lines 56-63 and 393-396): *)
(* a record at the start of every static, of the static's kind and type; *)
(* a REL record at every target of a counted relocation that lies in no   *)
(* static, indexed by the first relocation referring to it; and nothing  *)
(* else.  It is about the three loops of generate_recs together, and      *)
(* about add_sane_reloc_intervals' order of insertion.                     *)
RecordsExact ==
    phase \in {"output", "done"} =>
        LET targets == {t.target : t \in RefRelocs}
            free    == {a \in targets : ~OverlapsStatic(a)}
        IN /\ DOMAIN recs = {s.lo : s \in statics} \cup free
           /\ \A s \in statics : recs[s.lo].k = s.k /\ recs[s.lo].type = s.type
           /\ \A s \in statics : s.k # "EXTRASYM" => recs[s.lo].idx = s.idx
           /\ \A a \in free :
                 /\ recs[a].k = "REL"
                 /\ recs[a].idx = Min({t.coord : t \in {u \in RefRelocs : u.target = a}})
=============================================================================
