---------------------------- MODULE FrameTypes2 ----------------------------
(***************************************************************************)
(* The rewritten frame-layout generator src/tools/frametypes2.cpp: main   *)
(* parses the options into flags, gathers the defined subprograms into    *)
(* subprograms_by_key and subprograms_by_vaddr and collects every kept     *)
(* frame element of every subprogram into one interval map,               *)
(* elements_by_interval.  Under --output-traditional, which is meant to   *)
(* replicate frametypes.cpp (FrameTypes), write_traditional_output groups *)
(* its segments by the subprogram owning their lower bound, then prints   *)
(* one uniqtype (or alias) per segment and the frame_vaddrs[] table;      *)
(* otherwise write_compact_output prints the table of name--type--piece  *)
(* triples and one frame layout per segment, each a list of <triple      *)
(* index, frame offset> pairs, skipping a segment that continues the     *)
(* previous one with the same layout.                                     *)
(*                                                                         *)
(* The module extends FrameTypes for the binary both tools read (the      *)
(* constants and the location lists chosen by Init) and for the interval- *)
(* map operators.  frame-element.hpp and the helper find_equal_range_last  *)
(* are not in the repository: a frame element is the pair <<DIE, location *)
(* expression>> of one location-list entry, over the pcs that entry       *)
(* covers, and find_equal_range_last extends a segment over the following *)
(* segments that touch it and hold the same elements.  frame_intervals_t  *)
(* is taken to be the joining boost::icl::interval_map of sets that       *)
(* frametypes uses, so a segment is a maximal run of one element set       *)
(* (Segments).  by_off_by_interval is a joining interval_map too: a map  *)
(* from pcs to by_off, an empty by_off absorbed, its iterative_size the  *)
(* number of its segments.  Two touching segments of different element   *)
(* sets are joined there when their by_offs are equal, which happens      *)
(* once an element with no frame offset is kept.                          *)
(***************************************************************************)
EXTENDS FrameTypes

CONSTANTS
    OptionSets, \* the command lines, each a sequence of [flag, on] records
    TripleKey,  \* [DIE -> Nat]: where the DIE's <name, type, piece> triple
                \* sorts in std::map order (equal for equal triples)
    AbstractInstances \* the subprogram DIEs with DW_AT_inline other than
                      \* DW_INL_not_inlined

(* main: flags start as INCLUDE_REGISTERS | INCLUDE_CFI | INCLUDE_COMPUTED; *)
(* --[no-]X sets or clears X; --output-traditional also clears COMPUTED,   *)
(* CFI, STATIC and INCOMPLETE.                                              *)
ProcessOpt(fl, o) ==
    IF o.flag = "OUTPUT_TRADITIONAL" /\ o.on
    THEN (fl \cup {"OUTPUT_TRADITIONAL"})
           \ {"INCLUDE_COMPUTED", "INCLUDE_CFI", "INCLUDE_STATIC", "INCLUDE_INCOMPLETE"}
    ELSE IF o.on THEN fl \cup {o.flag} ELSE fl \ {o.flag}

DefaultFlags == {"INCLUDE_REGISTERS", "INCLUDE_CFI", "INCLUDE_COMPUTED"}

FlagsOf(opts) == FoldLeft(ProcessOpt, DefaultFlags, opts)

\* The paths modelled: no CFI elements, no pointer filter.
ASSUME \A o \in OptionSets : FlagsOf(o) \cap {"INCLUDE_CFI", "ONLY_POINTERS"} = {}
ASSUME AbstractInstances \subseteq Subprograms

VARIABLES
    phase2,     \* the loop frametypes2 is in ("wait" until frametypes is done)
    flags2,     \* flags
    gi2,        \* gather_defined_subprograms: the next subprogram DIE
    by_key,     \* subprograms_by_key, as the set of subprograms it holds
    by_vaddr,   \* subprograms_by_vaddr: [Addrs -> set of subprograms]
    elements,   \* elements_by_interval: [Addrs -> set of <<DIE, expr>>]
    fibs,       \* frame_intervals_by_subprogram: [subprogram -> frame map]
    fobs,       \* frame_offsets_by_subprogram: [subprogram -> unsigned]
    boi,        \* by_off_by_interval: [Addrs -> by_off], {} where it has none
    cur2,       \* the subprogram write_traditional_output is at
    ei2,        \* the segment of fibs[cur2] its inner loop is at
    nreal,      \* n_real_intervals of the current subprogram
    nentries,   \* by_off_by_interval_nentries of the current subprogram
    out2,       \* the uniqtypes printed
    vaddrs2,    \* frame_vaddrs[]
    triples,    \* the triple table write_triples prints, as TripleKeys
    idx_map,    \* idx_map: [TripleKey -> index in that table]
    layouts,    \* the frame layouts printed: [lo, vs] with vs a set of <idx, offset>
    prev_cfa    \* prev_cfa_offset_elements, as a set of <offset, element>

compactVars == <<triples, idx_map, layouts, prev_cfa>>

vars2 == <<phase2, flags2, gi2, by_key, by_vaddr, elements, fibs, fobs, boi, cur2, ei2,
           nreal, nentries, out2, vaddrs2, compactVars>>

(* m.insert(interval, v) on an interval map: only where m has no value. *)
InsertWhereEmpty(m, pcs, v) == [a \in Addrs |-> IF a \in pcs /\ m[a] = {} THEN v ELSE m[a]]

(* file_relative_intervals of a subprogram, as a set of pcs. *)
SubpPcs(s) == UNION {r[1]..(r[2] - 1) : r \in PcRanges[s]}

-----------------------------------------------------------------------------
(* gather_defined_subprograms, one subprogram DIE per step: an abstract   *)
(* instance is passed over (a test frametypes' loop does not make); of    *)
(* the others the key map keeps the first of each key, and every one,     *)
(* kept or not, is inserted into subprograms_by_vaddr over its pcs.       *)
Gather2 ==
    /\ phase2 = "gather"
    /\ LET s == SubpSeq[gi2]
       IN IF s \in AbstractInstances
          THEN UNCHANGED <<by_key, by_vaddr>>
          ELSE /\ by_key' = IF \E t \in by_key : Key[t] = Key[s] THEN by_key
                            ELSE by_key \cup {s}
               /\ by_vaddr' = InsertWhereEmpty(by_vaddr, SubpPcs(s), {s})
    /\ gi2' = gi2 + 1
    /\ phase2' = IF gi2 = Len(SubpSeq) THEN "locals" ELSE "gather"
    /\ UNCHANGED <<flags2, compactVars, elements, fibs, fobs, boi, cur2, ei2, nreal, nentries,
                   out2, vaddrs2>>

(* frame_element::local_elements_for: one element per location-list     *)
(* entry, over the pcs the entry covers.                                  *)
LocalElementsFor(s, d) ==
    {<<RefPcs(s, e), <<d, e.expr>>>> : e \in {loclist[d][k] : k \in DOMAIN loclist[d]}}

(* The DO_DISCARD tests of add_local_elements under the flags.  A         *)
(* register-named location is dropped by the traditional hack even when  *)
(* INCLUDE_REGISTERS is set.                                               *)
Discarded(d, x) ==
    \/ "INCLUDE_REGISTERS" \notin flags2 /\ x.reads_reg
    \/ "INCLUDE_COMPUTED" \notin flags2 /\ x.eval # "address"
    \/ "INCLUDE_STATIC" \notin flags2 /\ x.addr_first /\ ~x.stack_value_last
    \/ "INCLUDE_INCOMPLETE" \notin flags2 /\ d \notin Concrete
    \/ "OUTPUT_TRADITIONAL" \in flags2 /\ x.reads_reg

(* add_local_elements: for each subprogram of the key map, every DIE of  *)
(* its subtree except static variables, every element not discarded is    *)
(* added to elements_by_interval; main then takes the output path.        *)
AddLocalElements ==
    /\ phase2 = "locals"
    /\ LET DiesOf(s) == {Dies[s][i] : i \in DOMAIN Dies[s]} \ StaticStorage
           kept == UNION {UNION {{el \in LocalElementsFor(s, d) : ~Discarded(d, el[2][2])}
                                 : d \in DiesOf(s)} : s \in by_key}
       IN elements' = [a \in Addrs |-> elements[a] \cup {el[2] : el \in {x \in kept : a \in x[1]}}]
    /\ phase2' = IF "OUTPUT_TRADITIONAL" \in flags2 THEN "group" ELSE "compact"
    /\ UNCHANGED <<flags2, compactVars, gi2, by_key, by_vaddr, fibs, fobs, boi, cur2, ei2, nreal, nentries,
                   out2, vaddrs2>>

(* The loop over the segments of elements_by_interval: each goes to the  *)
(* frame map of the one subprogram subprograms_by_vaddr gives for its    *)
(* lower bound; a segment whose lower bound no subprogram (or more than   *)
(* one) covers is skipped.                                                 *)
Owner(a) == IF Cardinality(by_vaddr[a]) = 1 THEN CHOOSE s \in by_vaddr[a] : TRUE ELSE "none"

GroupBySubprogram ==
    /\ phase2 = "group"
    /\ LET owned(s) == UNION {g[1]..(g[2] - 1) : g \in {g \in ToSet(Segments(elements)) : Owner(g[1]) = s}}
       IN fibs' = [s \in Subprograms |-> [a \in Addrs |-> IF a \in owned(s) THEN elements[a] ELSE {}]]
    /\ phase2' = "next"
    /\ UNCHANGED <<flags2, compactVars, gi2, by_key, by_vaddr, elements, fobs, boi, cur2, ei2, nreal, nentries,
                   out2, vaddrs2>>

(* has_fixed_offset_from_frame_base: a frame-base-relative address. *)
HasFixedOffset(x) == ~x.reads_reg /\ ~x.addr_first /\ x.eval = "address"

GetFrameOffset(m) ==
    LET offs == {el[2].off : el \in {e \in UNION {m[a] : a \in Addrs} : HasFixedOffset(e[2])}}
    IN IF offs = {} \/ Min(offs) >= 0 THEN 0
       ELSE LET q == (-Min(offs)) \div WORD
                r == (-Min(offs)) % WORD
            IN IF r = 0 THEN q * WORD ELSE (q + 1) * WORD

(* The loop over subprograms_by_key, in key order: the frame offset, and *)
(* the size of by_off_by_interval before the inner loop.                   *)
NextSubprogram2 ==
    /\ phase2 = "next"
    /\ LET todo == by_key \ DOMAIN fobs
       IN IF todo = {}
          THEN phase2' = "table" /\ UNCHANGED <<cur2, fobs>>
          ELSE LET s == CHOOSE s \in todo : \A t \in todo : Key[s] <= Key[t]
               IN /\ cur2' = s
                  /\ fobs' = fobs @@ (s :> GetFrameOffset(fibs[s]))
                  /\ phase2' = "emit"
    /\ ei2' = 1
    /\ nreal' = 0
    /\ nentries' = Len(Segments(boi))
    /\ UNCHANGED <<flags2, compactVars, gi2, by_key, by_vaddr, elements, fibs, boi, out2, vaddrs2>>

(* Mutant: every element kept, whatever its location. *)
LocalElementsByStackOffset_AnyOffset(v) == {<<el[2].off, el>> : el \in v}

(* local_elements_by_stack_offset: the multimap of the elements with a   *)
(* fixed frame offset, keyed by that offset.                               *)
LocalElementsByStackOffset(v) == {<<el[2].off, el>> : el \in {e \in v : HasFixedOffset(e[2])}}

(* find_equal_range_last(i, end): the last segment before end reached    *)
(* from the k-th through segments that touch and hold the same elements. *)
FindEqualRangeLast(segs, m, k, end) ==
    Max({j \in k..(end - 1) :
           \A i \in k..(j - 1) : segs[i][2] = segs[i + 1][1] /\ m[segs[i + 1][1]] = m[segs[k][1]]})

(* One iteration of the loop over the segments of the subprogram's frame *)
(* map.  by_off is inserted into by_off_by_interval over the segment (an  *)
(* empty one is absorbed, an equal touching one joined); an empty by_off *)
(* goes to continue_loop; else the earlier segments are searched, in     *)
(* order, for an equal by_off (each must be found in by_off_by_interval:  *)
(* the assert at line 607; find gives the joined segment over it), and the *)
(* first one found is aliased, by a `continue` that skips continue_loop;  *)
(* else a composite is printed, of size interval_maxoff + frame_offset,   *)
(* interval_maxoff being the end of the last element of the highest      *)
(* offset (by_off's order among equal offsets is frame_element's, not in *)
(* the repository, so any of them), whose size is dereferenced unchecked. *)
(* After the last segment, the assert at line 730: one new segment of     *)
(* by_off_by_interval per iteration.                                      *)
Emit2 ==
    /\ phase2 = "emit"
    /\ LET m    == fibs[cur2]
           segs == Segments(m)
           n    == Len(segs)
       IN IF ei2 > n
          THEN /\ phase2' = IF nreal = Len(Segments(boi)) - nentries THEN "next" ELSE "aborted"
               /\ UNCHANGED <<ei2, nreal, boi, out2>>
          ELSE LET last  == FindEqualRangeLast(segs, m, ei2, n + 1)
                   name  == TypeName(cur2, <<segs[ei2][1], segs[last][2]>>)
                   byoff == LocalElementsByStackOffset(m[segs[ei2][1]])
                   boi1  == InsertWhereEmpty(boi, segs[ei2][1]..(segs[ei2][2] - 1), byoff)
                   found == {j \in 1..(ei2 - 1) : boi1[segs[j][1]] # {}}
                   eq    == {j \in found : boi1[segs[j][1]] = byoff}
                   lost  == (1..(ei2 - 1)) \ found
                   fo    == fobs[cur2]
                   top   == {x \in byoff : \A y \in byoff : y[1] <= x[1]}
               IN /\ boi' = boi1
                  /\ nreal' = nreal + 1
                  /\ CASE byoff = {} ->
                           /\ ei2' = last + 1
                           /\ UNCHANGED <<phase2, out2>>
                       [] lost # {} /\ (eq = {} \/ Min(lost) < Min(eq)) ->
                           /\ phase2' = "aborted"
                           /\ UNCHANGED <<ei2, out2>>
                       [] eq # {} ->
                           LET j == Min(eq)
                           IN /\ out2' = Append(out2,
                                    [kind |-> "alias", name |-> name,
                                     target |-> TypeName(cur2, <<segs[j][1],
                                                  segs[FindEqualRangeLast(segs, m, j, ei2)][2]>>)])
                              /\ ei2' = ei2 + 1
                              /\ UNCHANGED phase2
                       [] OTHER ->
                           \E x \in top :
                             IF ByteSize[x[2][1]] = NoSize
                             THEN phase2' = "aborted" /\ UNCHANGED <<ei2, out2>>
                             ELSE LET e == x[1] + ByteSize[x[2][1]]
                                      maxoff == IF e < 0 THEN 0 ELSE e
                                  IN /\ out2' = Append(out2,
                                           [kind |-> "def", name |-> name, size |-> maxoff + fo,
                                            members |-> {[off |-> UInt(y[1] + fo), die |-> y[2][1]]
                                                         : y \in byoff}])
                                     /\ ei2' = last + 1
                                     /\ UNCHANGED phase2
    /\ UNCHANGED <<flags2, compactVars, gi2, by_key, by_vaddr, elements, fibs, fobs, cur2, nentries, vaddrs2>>

(* The table loop: every segment of every frame map is looked up in      *)
(* by_off_by_interval (the assert at line 766); the non-empty ones give   *)
(* one record each, named by the segment itself, with the subprogram's    *)
(* frame offset (0, default-inserted, for one never processed).           *)
Table2 ==
    /\ phase2 = "table"
    /\ LET segs(s) == ToSet(Segments(fibs[s]))
           all == UNION {{<<s, g>> : g \in segs(s)} : s \in Subprograms}
       IN IF \E p \in all : boi[p[2][1]] = {}
          THEN phase2' = "aborted" /\ UNCHANGED vaddrs2
          ELSE /\ vaddrs2' = {[lo |-> p[2][1], hi |-> p[2][2],
                               offset |-> IF p[1] \in DOMAIN fobs THEN fobs[p[1]] ELSE 0,
                               name |-> TypeName(p[1], p[2])] : p \in all}
               /\ phase2' = "done"
    /\ UNCHANGED <<flags2, compactVars, gi2, by_key, by_vaddr, elements, fibs, fobs, boi, cur2, ei2, nreal,
                   nentries, out2>>

(* write_compact_output, the triple loop and write_triples: every element *)
(* of elements_by_interval is keyed by the triple of its DIE (the piece   *)
(* pair of a whole, single-piece element is (0, 0)); the distinct triples *)
(* are printed in map order and idx_map numbers them from 0.              *)
WriteTriples ==
    /\ phase2 = "compact"
    /\ LET present == {TripleKey[el[1]] : el \in UNION {elements[a] : a \in Addrs}}
       IN /\ triples' = SetToSortSeq(present, <)
          /\ idx_map' = [k \in present |-> Cardinality({j \in present : j < k})]
    /\ ei2' = 1
    /\ phase2' = "layout"
    /\ UNCHANGED <<flags2, layouts, prev_cfa, gi2, by_key, by_vaddr, elements, fibs, fobs, boi,
                   cur2, nreal, nentries, out2, vaddrs2>>

(* Mutant: the layouts compared by their offsets alone. *)
SameCfaLayout_OffsetsOnly(c1, c2) == {p[1] : p \in c1} = {p[1] : p \in c2}

(* cfa_offset_elements == prev_cfa_offset_elements: both are sorted and    *)
(* hold each element once, so they are equal when their sets are.         *)
SameCfaLayout(c1, c2) == c1 = c2

(* One iteration of the loop over the segments of elements_by_interval:   *)
(* the elements with a fixed frame offset, sorted by <offset, element>;   *)
(* a segment that touches the previous one and has the same list is only *)
(* commented on and `continue` skips the store into prev_cfa; any other   *)
(* is printed as a layout of <idx_map[triple], offset> entries.  The      *)
(* previous segment is the one before, printed or not.                    *)
CompactSegment ==
    /\ phase2 = "layout"
    /\ LET segs == Segments(elements)
           seg  == segs[ei2]
           cfa  == LocalElementsByStackOffset(elements[seg[1]])
       IN /\ ei2 <= Len(segs)
          /\ IF ei2 > 1 /\ segs[ei2 - 1][2] = seg[1] /\ SameCfaLayout(cfa, prev_cfa)
             THEN UNCHANGED <<layouts, prev_cfa>>
             ELSE /\ layouts' = Append(layouts,
                                   [lo |-> seg[1],
                                    vs |-> {<<idx_map[TripleKey[p[2][1]]], p[1]>> : p \in cfa}])
                  /\ prev_cfa' = cfa
    /\ ei2' = ei2 + 1
    /\ UNCHANGED <<phase2, flags2, triples, idx_map, gi2, by_key, by_vaddr, elements, fibs,
                   fobs, boi, cur2, nreal, nentries, out2, vaddrs2>>

(* The segment loop ends; main exits. *)
CompactDone ==
    /\ phase2 = "layout"
    /\ ei2 > Len(Segments(elements))
    /\ phase2' = "done"
    /\ UNCHANGED <<flags2, compactVars, gi2, by_key, by_vaddr, elements, fibs, fobs, boi,
                   cur2, ei2, nreal, nentries, out2, vaddrs2>>

(* frametypes2 runs on the binary once frametypes has exited, with one of *)
(* the command lines: its options are processed in order.                  *)
Start2 ==
    /\ phase2 = "wait"
    /\ phase \in {"done", "aborted"}
    /\ \E o \in OptionSets : flags2' = FlagsOf(o)
    /\ phase2' = "gather"
    /\ UNCHANGED <<compactVars, gi2, by_key, by_vaddr, elements, fibs, fobs, boi, cur2, ei2,
                   nreal, nentries, out2, vaddrs2>>

Finished2 ==
    /\ phase2 \in {"done", "aborted"}
    /\ UNCHANGED vars2

Init2 ==
    /\ phase2 = "wait"
    /\ flags2 = DefaultFlags
    /\ triples = <<>>
    /\ idx_map = [k \in {} |-> 0]
    /\ layouts = <<>>
    /\ prev_cfa = {}
    /\ gi2 = 1
    /\ by_key = {}
    /\ by_vaddr = EmptyMap
    /\ elements = EmptyMap
    /\ fibs = [s \in Subprograms |-> EmptyMap]
    /\ fobs = <<>>
    /\ boi = EmptyMap
    /\ cur2 = SubpSeq[1]
    /\ ei2 = 1
    /\ nreal = 0
    /\ nentries = 0
    /\ out2 = <<>>
    /\ vaddrs2 = {}

(* The two tools run on the same binary, one after the other: a step of *)
(* one leaves the other's state alone.                                     *)
PipelineNext ==
    \/ (Gather \/ NextSubprogram \/ CollectDie \/ Classify \/ Extent \/ Emit \/ Table)
       /\ UNCHANGED vars2
    \/ (Start2 \/ Gather2 \/ AddLocalElements \/ GroupBySubprogram \/ NextSubprogram2
        \/ Emit2 \/ Table2 \/ WriteTriples \/ CompactSegment \/ CompactDone) /\ UNCHANGED vars
    \/ Finished /\ Finished2

PipelineInit == Init /\ Init2

PipelineSpec == PipelineInit /\ [][PipelineNext]_<<vars, vars2>>
-----------------------------------------------------------------------------
CompactDescribesFrames ==
    phase2 = "done" /\ "OUTPUT_TRADITIONAL" \notin flags2 =>
      \A a \in Addrs : elements[a] # {} =>
        LET at == {i \in DOMAIN layouts : layouts[i].lo <= a}
        IN /\ at # {}
           /\ {<<triples[v[1] + 1], v[2]>> : v \in layouts[Max(at)].vs}
                = {<<TripleKey[el[1]], el[2].off>> : el \in {e \in elements[a] : HasFixedOffset(e[2])}}

(* The elements of a set with a fixed frame offset, keyed by it. *)
FixedOffsetPairs(v) == {<<el[2].off, el>> : el \in {e \in v : HasFixedOffset(e[2])}}

(* The traditional writer stops at its asserts (lines 607 and 730) only   *)
(* for what it was not written for, and always for it: once frametypes2  *)
(* with OUTPUT_TRADITIONAL set has exited, it finished only if no pc of  *)
(* the frame maps of the key map has elements none of which is at a      *)
(* fixed frame offset, and no two touching pcs with different elements   *)
(* have the same ones at fixed offsets (by_off_by_interval joins their    *)
(* segments); it aborted only if one of these holds or some kept element *)
(* has a type of no size.  They come in when a later --include-static     *)
(* sets again what --output-traditional cleared.                          *)
TraditionalAbortsOnlyOnOffsetless ==
    phase2 \in {"done", "aborted"} /\ "OUTPUT_TRADITIONAL" \in flags2 =>
      LET at(a)      == UNION {fibs[s][a] : s \in by_key}
          offsetless == \E a \in Addrs : at(a) # {} /\ FixedOffsetPairs(at(a)) = {}
          joined     == \E a \in Addrs : /\ a + 1 \in Addrs
                                        /\ at(a) # {} /\ at(a + 1) # {} /\ at(a) # at(a + 1)
                                        /\ FixedOffsetPairs(at(a)) = FixedOffsetPairs(at(a + 1))
          sizeless   == \E a \in Addrs : \E el \in elements[a] : ByteSize[el[1]] = NoSize
      IN /\ phase2 = "done" => ~offsetless /\ ~joined
         /\ phase2 = "aborted" => offsetless \/ joined \/ sizeless
====
