----------------------------- MODULE FrameTypes -----------------------------
(***************************************************************************)
(* The frame-layout generator src/tools/frametypes.cpp.  From the DWARF of *)
(* a binary it prints, for every subprogram and every vaddr range over     *)
(* which the subprogram's stack frame is laid out the same way, a uniqtype *)
(* describing the frame (or an alias of an earlier identical one), and a  *)
(* table frame_vaddrs[] mapping each range to its uniqtype and to the     *)
(* offset added to the frame base.  liballocs reads that table to type    *)
(* stack addresses.                                                        *)
(*                                                                         *)
(* The boost::icl interval maps with set values (subp_vaddr_intervals,     *)
(* frame_intervals) are functions from addresses to sets: `+=` is a       *)
(* pointwise union, and the map's segments are the maximal runs of equal  *)
(* non-empty values, since an icl interval_map absorbs empty values and   *)
(* joins equal neighbours.  Iterating the map is iterating those runs in  *)
(* address order.                                                          *)
(*                                                                         *)
(* DWARF is abstracted to what the code's tests look at: a location       *)
(* expression is a record of the facts the classification reads (whether *)
(* it starts with DW_OP_addr, ends with DW_OP_stack_value, reads a        *)
(* register, what evaluating it yields and the frame offset); a DIE has   *)
(* its storage class, its type's completeness and its byte size.  Names   *)
(* are tuples, not strings: typename_for_vaddr_interval is the tuple      *)
(* <<subprogram name, lower, upper>>.                                     *)
(***************************************************************************)
EXTENDS Integers, Sequences, SequencesExt, FiniteSets, TLC

CONSTANTS
    SubpSeq,     \* the defined subprogram DIEs, in DWARF order
    SubpName,    \* [subprogram -> name] (DW_AT_name, or its offset)
    Key,         \* [subprogram -> subprogram_key], a natural: map order
    PcRanges,    \* [subprogram -> set of <<lo, hi>>]: file_relative_intervals
    CuBase,      \* [subprogram -> low_pc of its CU, or NoBase]
    Dies,        \* [subprogram -> sequence of its variable/parameter DIEs]
    DieOffset,   \* [DIE -> its offset in .debug_info]
    StaticStorage, \* the variable DIEs with static storage
    Concrete,    \* the DIEs whose type has a concrete type
    ByteSize,    \* [DIE -> calculate_byte_size of its type, or NoSize]
    LocLists,    \* [DIE -> set of location lists it may have]
    Addrs,       \* the file-relative addresses, 0..N-1
    ALL_VADDRS,  \* numeric_limits<Dwarf_Off>::max()
    WORD,        \* sizeof (void* )
    UNSIGNED_BITS, \* width of unsigned (32; scaled down for TLC)
    NoBase, NoSize

Subprograms == {SubpSeq[i] : i \in DOMAIN SubpSeq}
AllDies == UNION {{Dies[s][i] : i \in DOMAIN Dies[s]} : s \in Subprograms}
UInt(x) == x % 2^UNSIGNED_BITS   \* C unsigned arithmetic

VARIABLES
    loclist,     \* [DIE -> its location list]: the input, fixed by Init
    phase,       \* the loop the program is in
    gi,          \* gather: the next subprogram DIE of SubpSeq
    listed,      \* subprograms_list, as the set of subprograms it holds
    cur,         \* the subprogram being processed
    di,          \* collect: the next DIE of Dies[cur]
    vaddr,       \* subp_vaddr_intervals: [Addrs -> set of <<DIE, expr>>]
    frame,       \* frame_intervals: [Addrs -> set of <<offset, DIE>>]
    maxoffs,     \* interval_maxoffs: [segment -> unsigned]
    frames,      \* intervals_by_subprogram: [done subprogram -> frame map]
    offsets,     \* frame_offsets_by_subprogram: [done subprogram -> unsigned]
    ei,          \* emit: the next segment of frame
    out,         \* the uniqtypes printed: records [kind, name, ...]
    table        \* frame_vaddrs[]: a set of [lo, hi, offset, name]

vars == <<loclist, phase, gi, listed, cur, di, vaddr, frame, maxoffs,
          frames, offsets, ei, out, table>>

EmptyMap == [a \in Addrs |-> {}]

(* The segments of an interval map: maximal runs [lo, hi) of one non-empty *)
(* value, in address order.                                                *)
Segments(m) ==
    LET N == Cardinality(Addrs)
        segs == {g \in Addrs \X (1..N) :
                   /\ g[1] < g[2]
                   /\ m[g[1]] # {}
                   /\ \A a \in g[1]..(g[2] - 1) : m[a] = m[g[1]]
                   /\ g[1] = 0 \/ m[g[1] - 1] # m[g[1]]
                   /\ g[2] = N \/ m[g[2]] # m[g[1]]}
    IN SetToSortSeq(segs, LAMBDA x, y : x[1] < y[1])

(* m += make_pair(interval, v) *)
AddInterval(m, lo, hi, v) ==
    [a \in Addrs |-> IF lo <= a /\ a < hi THEN m[a] \cup v ELSE m[a]]

TypeName(s, g) == <<SubpName[s], g[1], g[2]>>

-----------------------------------------------------------------------------
(* The gathering loop over every subprogram DIE: subprograms_list.insert  *)
(* keeps the first subprogram of each key and only warns about the rest. *)
Gather ==
    /\ phase = "gather"
    /\ LET s == SubpSeq[gi]
       IN listed' = IF \E t \in listed : Key[t] = Key[s] THEN listed
                    ELSE listed \cup {s}
    /\ gi' = gi + 1
    /\ phase' = IF gi = Len(SubpSeq) THEN "next" ELSE "gather"
    /\ UNCHANGED <<loclist, cur, di, vaddr, frame, maxoffs, frames, offsets,
                   ei, out, table>>

(* The loop over subprograms_list, in key order. *)
NextSubprogram ==
    /\ phase = "next"
    /\ LET todo == listed \ DOMAIN frames
       IN IF todo = {}
          THEN phase' = "table" /\ UNCHANGED cur
          ELSE /\ cur' = CHOOSE s \in todo : \A t \in todo : Key[s] <= Key[t]
               /\ phase' = "collect"
    /\ di' = 1
    /\ vaddr' = EmptyMap
    /\ UNCHANGED <<loclist, gi, listed, frame, maxoffs, frames, offsets, ei,
                   out, table>>
-----------------------------------------------------------------------------
(* One entry e (the k-th of n) of a DIE's location list, added to          *)
(* subp_vaddr_intervals.  A base-address-selection entry, or a "for all    *)
(* vaddrs" entry that is not the list's only entry, fails an assertion.   *)
AddLocExpr(acc, d, e, k, n) ==
    LET base == CuBase[cur]
        elem == {<<d, e.expr>>}
        RECURSIVE AddAll(_, _)
        AddAll(m, rs) ==
            IF rs = {} THEN m
            ELSE LET r == CHOOSE x \in rs : TRUE
                 IN AddAll(AddInterval(m, r[1], r[2], elem), rs \ {r})
    IN CASE ~acc.ok -> acc
         [] e.lo = ALL_VADDRS -> [acc EXCEPT !.ok = FALSE]
         [] e.lo = e.hi /\ e.hi # 0 -> acc
         [] e.hi < e.lo -> acc
         [] base = NoBase -> acc
         [] e.lo = 0 /\ e.hi \in {0, ALL_VADDRS} ->
              IF k = 1 /\ n = 1
              THEN [acc EXCEPT !.m = AddAll(acc.m, PcRanges[cur])]
              ELSE [acc EXCEPT !.ok = FALSE]
         [] OTHER -> [acc EXCEPT !.m = AddInterval(acc.m, e.lo + base, e.hi + base, elem)]

(* The body of the breadth-first walk for one DIE of the subprogram:      *)
(* static variables are skipped; every entry of the location list is      *)
(* added.  After the last DIE, the classification loop follows.           *)
CollectDie ==
    /\ phase = "collect"
    /\ IF di > Len(Dies[cur])
       THEN phase' = "classify" /\ UNCHANGED <<di, vaddr>>
       ELSE LET d  == Dies[cur][di]
                ll == loclist[d]
                r  == FoldLeftDomain(LAMBDA acc, k : AddLocExpr(acc, d, ll[k], k, Len(ll)),
                                     [m |-> vaddr, ok |-> TRUE], ll)
            IN /\ di' = di + 1
               /\ IF d \in StaticStorage
                  THEN UNCHANGED <<vaddr, phase>>
                  ELSE /\ vaddr' = r.m
                       /\ phase' = IF r.ok THEN "collect" ELSE "aborted"
    /\ UNCHANGED <<loclist, gi, listed, cur, frame, maxoffs, frames, offsets,
                   ei, out, table>>

(* What the classification makes of one element <<d, x>>: its frame slot *)
(* <<offset, d>>, or nothing when it is discarded as a static variable    *)
(* masquerading as a local, as register-located, as not evaluable to an   *)
(* address, or as having no concrete type.                                *)
FrameSlot(d, x) ==
    IF \/ x.addr_first /\ ~x.stack_value_last
       \/ x.reads_reg
       \/ x.eval # "address"
       \/ d \notin Concrete
    THEN {}
    ELSE {<<x.off, d>>}

(* The loop over the segments of subp_vaddr_intervals and their elements, *)
(* each kept slot added to frame_intervals over its segment.              *)
Classify ==
    /\ phase = "classify"
    /\ frame' = [a \in Addrs |-> UNION {FrameSlot(el[1], el[2]) : el \in vaddr[a]}]
    /\ phase' = "extent"
    /\ UNCHANGED <<loclist, gi, listed, cur, di, vaddr, maxoffs, frames, offsets,
                   ei, out, table>>

(* compare_first_signed_second_offset: by frame offset, then DIE offset. *)
SlotBefore(x, y) ==
    x[1] < y[1] \/ (x[1] = y[1] /\ DieOffset[x[2]] < DieOffset[y[2]])

LastSlot(v)  == CHOOSE x \in v : \A y \in v \ {x} : SlotBefore(y, x)
FirstSlot(v) == CHOOSE x \in v : \A y \in v \ {x} : SlotBefore(x, y)

(* The size used for an element: calculate_byte_size, or zero (with a   *)
(* warning) when the type has no concrete type or no size.              *)
SlotSize(d) == IF d \notin Concrete \/ ByteSize[d] = NoSize THEN 0 ELSE ByteSize[d]

(* Mutant: the end of the lowest-starting element (begin() for --end()). *)
IntervalMaxoff_FirstSlot(v) ==
    LET x == FirstSlot(v)
        e == x[1] + SlotSize(x[2])
    IN IF e < 0 THEN 0 ELSE e

(* interval_maxoff: the end of the highest-starting element, at least 0. *)
IntervalMaxoff(v) ==
    LET x == LastSlot(v)
        e == x[1] + SlotSize(x[2])
    IN IF e < 0 THEN 0 ELSE e

(* interval_minoff: the lowest-starting element's offset, at most 0. *)
IntervalMinoff(v) ==
    LET o == FirstSlot(v)[1] IN IF o > 0 THEN 0 ELSE o

(* Mutant: the negated minimum rounded down to a word. *)
OffsetToAll_RoundDown(minoff) ==
    IF minoff < 0 THEN ((-minoff) \div WORD) * WORD ELSE 0

(* offset_to_all: the negation of the overall minimum offset, rounded up *)
(* to a word.                                                             *)
OffsetToAll(minoff) ==
    IF minoff < 0
    THEN LET rem == (-minoff) % WORD
             q   == (-minoff) \div WORD
         IN IF rem = 0 THEN q * WORD ELSE (q + 1) * WORD
    ELSE 0

(* intervals_by_subprogram[i_subp] = frame_intervals, then the loop over *)
(* its segments computing interval_maxoffs, interval_minoffs and the     *)
(* overall minimum, then frame_offsets_by_subprogram[i_subp].            *)
Extent ==
    /\ phase = "extent"
    /\ LET segs == ToSet(Segments(frame))
           minoff == Min({0} \cup {IntervalMinoff(frame[g[1]]) : g \in segs})
       IN /\ maxoffs' = [g \in segs |-> IntervalMaxoff(frame[g[1]])]
          /\ frames' = frames @@ (cur :> frame)
          /\ offsets' = offsets @@ (cur :> OffsetToAll(minoff))
    /\ ei' = 1
    /\ phase' = "emit"
    /\ UNCHANGED <<loclist, gi, listed, cur, di, vaddr, frame, out, table>>

(* Mutant: layouts compared by their offsets only. *)
SameLayout_OffsetsOnly(v, w) == {x[1] : x \in v} = {x[1] : x \in w}

(* Two frame layouts are the same: by_off == i_earlier_frame_int->second. *)
SameLayout(v, w) == v = w

(* One iteration of the emission loop over the segments of               *)
(* frame_intervals: an alias of the first earlier segment with the same  *)
(* layout, or a composite uniqtype whose size is interval_maxoff +       *)
(* offset_to_all and whose members sit at offset + offset_to_all.        *)
(* After the last segment, the next subprogram.                          *)
Emit ==
    /\ phase = "emit"
    /\ LET segs == Segments(frame)
       IN IF ei > Len(segs)
          THEN phase' = "next" /\ UNCHANGED <<ei, out>>
          ELSE LET g    == segs[ei]
                   v    == frame[g[1]]
                   same == {j \in 1..(ei - 1) : SameLayout(v, frame[segs[j][1]])}
                   ota  == offsets[cur]
               IN /\ out' = Append(out,
                       IF same # {}
                       THEN [kind |-> "alias", name |-> TypeName(cur, g),
                             target |-> TypeName(cur, segs[Min(same)])]
                       ELSE [kind |-> "def", name |-> TypeName(cur, g),
                             size |-> UInt(maxoffs[g] + ota),
                             members |-> {[off |-> UInt(x[1] + ota), die |-> x[2]] : x \in v}])
                  /\ ei' = ei + 1
                  /\ UNCHANGED phase
    /\ UNCHANGED <<loclist, gi, listed, cur, di, vaddr, frame, maxoffs, frames,
                   offsets, table>>

(* The table: one record per segment of every processed subprogram,     *)
(* with the subprogram's offset and the name of the segment's uniqtype.  *)
Table ==
    /\ phase = "table"
    /\ table' = UNION {{[lo |-> g[1], hi |-> g[2], offset |-> offsets[s],
                         name |-> TypeName(s, g)] : g \in ToSet(Segments(frames[s]))}
                        : s \in DOMAIN frames}
    /\ phase' = "done"
    /\ UNCHANGED <<loclist, gi, listed, cur, di, vaddr, frame, maxoffs, frames,
                   offsets, ei, out>>

(* The program has exited, normally or on a failed assertion. *)
Finished ==
    /\ phase \in {"done", "aborted"}
    /\ UNCHANGED vars

Init ==
    /\ loclist \in {f \in [AllDies -> UNION {LocLists[d] : d \in AllDies}] :
                      \A d \in AllDies : f[d] \in LocLists[d]}
    /\ phase = "gather"
    /\ gi = 1
    /\ listed = {}
    /\ cur = SubpSeq[1]
    /\ di = 1
    /\ vaddr = EmptyMap
    /\ frame = EmptyMap
    /\ maxoffs = <<>>
    /\ frames = <<>>
    /\ offsets = <<>>
    /\ ei = 1
    /\ out = <<>>
    /\ table = {}

Next ==
    \/ Gather \/ NextSubprogram \/ CollectDie \/ Classify \/ Extent \/ Emit
    \/ Table \/ Finished

Spec == Init /\ [][Next]_vars
-----------------------------------------------------------------------------
NoDef == [kind |-> "none", name |-> <<>>, size |-> 0, members |-> {}]

(* The composite a uniqtype name denotes, following aliases; NoDef when   *)
(* the name is printed other than exactly once or denotes nothing.        *)
RECURSIVE DefOf(_, _)
DefOf(n, fuel) ==
    LET at == {i \in DOMAIN out : out[i].name = n}
    IN IF Cardinality(at) # 1 \/ fuel = 0 THEN NoDef
       ELSE LET r == out[CHOOSE i \in at : TRUE]
            IN IF r.kind = "def" THEN r ELSE DefOf(r.target, fuel - 1)

Resolve(n) == DefOf(n, Len(out))

(* Reference: the stack slots <<offset, DIE>> that the DWARF input says   *)
(* are live in subprogram s at pc a.  An entry covers its own range       *)
(* (relative to the CU base) or, for "all vaddrs", the subprogram's.     *)
RefPcs(s, e) ==
    IF e.lo = 0 /\ e.hi \in {0, ALL_VADDRS}
    THEN UNION {r[1]..(r[2] - 1) : r \in PcRanges[s]}
    ELSE IF CuBase[s] = NoBase THEN {}
    ELSE (e.lo + CuBase[s])..(e.hi + CuBase[s] - 1)

OnStack(d, x) ==
    /\ d \in Concrete \ StaticStorage
    /\ ~x.reads_reg
    /\ x.eval = "address"
    /\ x.addr_first => x.stack_value_last

RefLayout(s, a) ==
    UNION {{<<loclist[d][k].expr.off, d>> :
              k \in {k \in DOMAIN loclist[d] : /\ OnStack(d, loclist[d][k].expr)
                                               /\ a \in RefPcs(s, loclist[d][k])}}
           : d \in {Dies[s][i] : i \in DOMAIN Dies[s]}}

(* When the program has finished, every pc at which the DWARF places a    *)
(* local or parameter of a subprogram on the stack is covered by exactly  *)
(* one frame_vaddrs[] record, whose uniqtype (after following aliases,    *)
(* printed once) has exactly those elements as members, at their frame   *)
(* offset plus the record's offset.  This is what liballocs relies on     *)
(* when it types a stack address; it depends on the interval-map joins,   *)
(* the alias choice and the naming agreeing with each other.              *)
TableDescribesFrames ==
    phase = "done" =>
      /\ \A t1, t2 \in table : t1 # t2 => t1.hi <= t2.lo \/ t2.hi <= t1.lo
      /\ \A s \in Subprograms, a \in Addrs :
           RefLayout(s, a) # {} =>
             \E t \in table :
               /\ t.lo <= a /\ a < t.hi
               /\ Resolve(t.name) # NoDef
               /\ Resolve(t.name).members =
                    {[off |-> x[1] + t.offset, die |-> x[2]] : x \in RefLayout(s, a)}

(* The bytes a member occupies, taking at least one. *)
Span(m) == m.off..(m.off + SlotSize(m.die) + (IF SlotSize(m.die) = 0 THEN 0 ELSE -1))

(* Every member of a frame uniqtype whose members do not overlap lies    *)
(* inside it: at a non-negative offset and ending at or before the size  *)
(* printed, interval_maxoff + offset_to_all.                              *)
MembersInsideFrame ==
    \A i \in DOMAIN out :
      LET r == out[i]
      IN r.kind = "def" /\ (\A m1, m2 \in r.members : m1 # m2 => Span(m1) \cap Span(m2) = {})
         => \A m \in r.members : m.off + SlotSize(m.die) <= r.size
====
