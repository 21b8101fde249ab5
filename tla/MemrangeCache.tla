--------------------------- MODULE MemrangeCache ---------------------------
(***************************************************************************)
(* The liballocs memrange cache, __liballocs_ool_cache: a fixed array of   *)
(* entries (slot 0 is the null slot), a validity bitmask, a FIFO victim    *)
(* index and a doubly linked recency (MRU) list threaded through the      *)
(* entries by index.  Sources: src/include/liballocs_cil_inlines.h (the    *)
(* store, replacement, bump, invalidation and lookups) and src/src/cache.c *)
(* (the global instance and __liballocs_uncache_all).                      *)
(*                                                                         *)
(* The two build switches are constants:                                   *)
(*   REPLACE_FIFO  -- LIBALLOCS_CACHE_REPLACE_FIFO (else replace MRU-wise) *)
(*   CACHE_LINEAR  -- LIBALLOCS_CACHE_LINEAR (linear scan, FIFO bump, no   *)
(*                    MRU list)                                            *)
(* Every public operation is one atomic step: the cache has no locks, no   *)
(* suspension points and a single owner.                                   *)
(***************************************************************************)
EXTENDS MemrangeMatch, Naturals, Sequences, SequencesExt, FiniteSets

CONSTANTS
    MAX_SIZE,       \* LIBALLOCS_MEMRANGE_CACHE_MAX_SIZE
    REPLACE_FIFO,
    CACHE_LINEAR,
    Facts,          \* [range_base, range_limit, period, offset_to_t, t] the resolver installs
    Queries,        \* the lookups the program makes (records built with Query)
    Regions         \* [base, size] spans passed to __liballocs_uncache_all

\* The MRU insert path calls __liballocs_cache_link_head_mru, which is only
\* compiled without LIBALLOCS_CACHE_LINEAR: that combination does not build.
ASSUME CACHE_LINEAR => REPLACE_FIFO
\* validity is an unsigned short and the indices are unsigned chars.
ASSUME MAX_SIZE \in 1..16
\* The assert at the top of __liballocs_cache_with_type.
ASSUME \A f \in Facts : f.period # 0 => (f.range_limit - f.range_base) % f.period = 0

VARIABLES
    cache,  \* the struct __liballocs_memrange_cache
    last,   \* the query of the latest lookup and the slot it returned (0: none)
    fault   \* "none", or the signal that killed the process in a lookup

vars == <<cache, last, fault>>

max_pos == 1 + MAX_SIZE
Slots == 1..MAX_SIZE
Index == 0..MAX_SIZE

FactFields == {"range_base", "range_limit", "period", "offset_to_t", "t"}

(* The fact an entry describes, without its list links. *)
FactOf(e) == [k \in FactFields |-> e[k]]

NoLookup == [q |-> Query("none", 0, NullType, 0), hit |-> 0]

(***************************************************************************)
(* Operators on a cache value c, one per inline function of the header.   *)
(***************************************************************************)

(* __liballocs_cache_unlink_mru: the entry keeps its own (now stale) links. *)
UnlinkMRU(c, i) ==
    LET our_next == c.entries[i].next_mru
        our_prev == c.entries[i].prev_mru
        e1 == IF our_prev # 0 THEN [c.entries EXCEPT ![our_prev].next_mru = our_next]
                              ELSE c.entries
        e2 == IF our_next # 0 THEN [e1 EXCEPT ![our_next].prev_mru = our_prev]
                              ELSE e1
    IN [c EXCEPT !.entries  = e2,
                 !.head_mru = IF @ = i THEN our_next ELSE @,
                 !.tail_mru = IF @ = i THEN our_prev ELSE @]

(* Mutant: the first entry linked does not become the tail. *)
LinkHeadMRU_NoTail(c, i) ==
    LET e1 == [c.entries EXCEPT ![i].prev_mru = 0, ![i].next_mru = c.head_mru]
        e2 == IF c.head_mru # 0 THEN [e1 EXCEPT ![c.head_mru].prev_mru = i] ELSE e1
    IN [c EXCEPT !.entries = e2, !.head_mru = i]

(* __liballocs_cache_link_head_mru *)
LinkHeadMRU(c, i) ==
    LET e1 == [c.entries EXCEPT ![i].prev_mru = 0, ![i].next_mru = c.head_mru]
        e2 == IF c.head_mru # 0 THEN [e1 EXCEPT ![c.head_mru].prev_mru = i] ELSE e1
    IN [c EXCEPT !.entries  = e2,
                 !.head_mru = i,
                 !.tail_mru = IF @ = 0 THEN i ELSE @]

(* Mutant: the FIFO victim index advances without wrapping. *)
NextVictimAfter_NoWrap(i) == 1 + i

(* The FIFO bump: the touched slot must not be the next victim. *)
NextVictimAfter(i) == 1 + ((i + 1 - 1) % (max_pos - 1))

(* Mutant: a hit does not bump the touched slot. *)
Bump_Noop(c, i) == c

(* Mutant: bump never moves next_victim, as in the FIFO build without *)
(* LIBALLOCS_CACHE_LINEAR, whose bump only relinks the MRU list.       *)
Bump_NoAdvance(c, i) ==
    IF CACHE_LINEAR THEN c
    ELSE IF c.head_mru # i THEN LinkHeadMRU(UnlinkMRU(c, i), i) ELSE c

(* __liballocs_cache_bump *)
Bump(c, i) ==
    IF CACHE_LINEAR
    THEN IF c.next_victim = i /\ max_pos > 1
         THEN [c EXCEPT !.next_victim = NextVictimAfter(i)] ELSE c
    ELSE IF c.head_mru # i THEN LinkHeadMRU(UnlinkMRU(c, i), i) ELSE c

(* __liballocs_cache_invalidate *)
Invalidate(c, i) ==
    LET c1 == [c EXCEPT !.validity = @ \ {i}, !.next_victim = i]
    IN IF CACHE_LINEAR THEN c1 ELSE UnlinkMRU(c1, i)

(* The new entry keeps the list links found in the slot it overwrites. *)
Install(c, pos, f) ==
    [c EXCEPT !.entries[pos] = [range_base |-> f.range_base,
                                range_limit |-> f.range_limit,
                                period |-> f.period,
                                offset_to_t |-> f.offset_to_t,
                                t |-> f.t,
                                prev_mru |-> @.prev_mru,
                                next_mru |-> @.next_mru]]

(* __builtin_ffs(~validity): one plus the lowest clear bit; max_pos if full. *)
FirstClear(validity) == Min({j \in 1..max_pos : j \notin validity})

(* __liballocs_cache_with_type, FIFO-wise: overwrite next_victim, then bump. *)
CacheWithTypeFIFO(c, f) ==
    LET pos == c.next_victim
    IN Bump(Install([c EXCEPT !.validity = @ \cup {pos}], pos, f), pos)

(* Mutant: the "store full" test is dropped (pos <= max_pos). *)
CacheWithTypeMRU_NoFullTest(c, f) ==
    LET free == FirstClear(c.validity)
    IN Install(LinkHeadMRU([c EXCEPT !.validity = @ \cup {free}], free), free, f)

(* Mutant: a full store evicts the most recently used entry. *)
CacheWithTypeMRU_EvictHead(c, f) ==
    LET free == FirstClear(c.validity)
    IN IF free # max_pos
       THEN Install(LinkHeadMRU([c EXCEPT !.validity = @ \cup {free}], free), free, f)
       ELSE Install(c, c.head_mru, f)

(* __liballocs_cache_with_type, MRU-wise: link a free slot at the head, or *)
(* bump the tail slot to the head and overwrite it in place.              *)
CacheWithTypeMRU(c, f) ==
    LET free == FirstClear(c.validity)
    IN IF free # max_pos
       THEN Install(LinkHeadMRU([c EXCEPT !.validity = @ \cup {free}], free), free, f)
       ELSE Install(Bump(c, c.tail_mru), c.tail_mru, f)

CacheWithType(c, f) ==
    IF REPLACE_FIFO THEN CacheWithTypeFIFO(c, f) ELSE CacheWithTypeMRU(c, f)

(* Mutant: range_base > allocptr, so an entry based at the span's start   *)
(* survives.                                                               *)
UncacheStep_StrictBase(c, i, r) ==
    IF /\ i \in c.validity
       /\ r.base < c.entries[i].range_base
       /\ c.entries[i].range_base < r.base + r.size
    THEN Invalidate(c, i) ELSE c

(* One iteration of the loop of __liballocs_uncache_all: an entry is      *)
(* dropped when its range_base (only) lies in [base, base + size).        *)
UncacheStep(c, i, r) ==
    IF /\ i \in c.validity
       /\ r.base <= c.entries[i].range_base
       /\ c.entries[i].range_base < r.base + r.size
    THEN Invalidate(c, i) ELSE c

UncacheAll(c, r) ==
    FoldLeft(LAMBDA acc, i : UncacheStep(acc, i, r), c, [k \in Slots |-> k])

(* The slots a lookup loop visits, in order: 1..max_pos under              *)
(* CACHE_LINEAR (slot max_pos has no validity bit), else the MRU list from *)
(* head_mru, cut off after max_pos steps should it be cyclic.              *)
RECURSIVE WalkNext(_, _, _)
WalkNext(c, i, fuel) ==
    IF i = 0 \/ fuel = 0 THEN <<>>
    ELSE <<i>> \o WalkNext(c, c.entries[i].next_mru, fuel - 1)

RECURSIVE WalkPrev(_, _, _)
WalkPrev(c, i, fuel) ==
    IF i = 0 \/ fuel = 0 THEN <<>>
    ELSE <<i>> \o WalkPrev(c, c.entries[i].prev_mru, fuel - 1)

(* Mutant: the lookup loop stops one slot early. *)
ScanOrder_StopEarly(c) ==
    IF CACHE_LINEAR THEN [k \in 1..(max_pos - 2) |-> k]
    ELSE LET w == WalkNext(c, c.head_mru, max_pos)
         IN IF w = <<>> THEN w ELSE SubSeq(w, 1, Len(w) - 1)

ScanOrder(c) ==
    IF CACHE_LINEAR THEN [k \in 1..max_pos |-> k]
    ELSE WalkNext(c, c.head_mru, max_pos)

(* Position in the scan of the first valid entry whose test does not miss. *)
FirstNonMiss(c, q) ==
    SelectInSeq(ScanOrder(c),
                LAMBDA i : i \in c.validity /\ Outcome(c.entries[i], q) # "miss")

(***************************************************************************)
(* The state machine.                                                      *)
(***************************************************************************)
EmptyEntry ==
    [range_base |-> 0, range_limit |-> 0, period |-> 0, offset_to_t |-> 0,
     t |-> NullType, prev_mru |-> 0, next_mru |-> 0]

(* The static initialiser in cache.c: max_pos and next_victim set, the   *)
(* rest zero.                                                             *)
Init ==
    /\ cache = [entries     |-> [i \in Slots |-> EmptyEntry],
                next_victim |-> 1,
                head_mru    |-> 0,
                tail_mru    |-> 0,
                validity    |-> {}]
    /\ last = NoLookup
    /\ fault = "none"

(* The resolver installs a fact; the caller keeps the store free of        *)
(* duplicate facts (the sanity check asserts it, insert does not test it). *)
Insert(f) ==
    /\ fault = "none"
    /\ \A i \in cache.validity : FactOf(cache.entries[i]) # f
    /\ cache' = CacheWithType(cache, f)
    /\ last' = NoLookup
    /\ UNCHANGED fault

(* The allocator's free/resize hook. *)
Uncache(r) ==
    /\ fault = "none"
    /\ cache' = UncacheAll(cache, r)
    /\ last' = NoLookup
    /\ UNCHANGED fault

(* A lookup returns the first matching entry of the scan and bumps it. *)
LookupHit(q) ==
    LET k == FirstNonMiss(cache, q)
        i == ScanOrder(cache)[k]
    IN /\ fault = "none"
       /\ k # 0
       /\ Outcome(cache.entries[i], q) = "hit"
       /\ cache' = Bump(cache, i)
       /\ last' = [q |-> q, hit |-> i]
       /\ UNCHANGED fault

LookupMiss(q) ==
    /\ fault = "none"
    /\ FirstNonMiss(cache, q) = 0
    /\ last' = [q |-> q, hit |-> 0]
    /\ UNCHANGED <<cache, fault>>

(* The scan reaches an entry whose test divides by zero or dereferences a *)
(* null type: the process dies and nothing further happens.               *)
LookupFault(q) ==
    LET k == FirstNonMiss(cache, q)
    IN /\ fault = "none"
       /\ k # 0
       /\ Outcome(cache.entries[ScanOrder(cache)[k]], q) \in Faults
       /\ fault' = Outcome(cache.entries[ScanOrder(cache)[k]], q)
       /\ last' = [q |-> q, hit |-> 0]
       /\ UNCHANGED cache

Next ==
    \/ \E f \in Facts : Insert(f)
    \/ \E r \in Regions : Uncache(r)
    \/ \E q \in Queries : LookupHit(q) \/ LookupMiss(q) \/ LookupFault(q)

Spec == Init /\ [][Next]_vars

(***************************************************************************)
(* Properties.                                                             *)
(***************************************************************************)
Entry == [range_base : Nat, range_limit : Nat, period : Nat, offset_to_t : Nat,
          t : AnyType, prev_mru : Index, next_mru : Index]

TypeOK ==
    /\ cache \in [entries : [Slots -> Entry], next_victim : Slots,
                  head_mru : Index, tail_mru : Index, validity : SUBSET Slots]
    /\ last \in [q : Queries \cup {NoLookup.q}, hit : Index]
    /\ fault \in {"none"} \cup Faults

(* __liballocs_check_cache_sanity: walking the MRU list forwards from      *)
(* head_mru and backwards from tail_mru each visits every valid slot       *)
(* exactly once and nothing else, and no two valid entries hold the same   *)
(* fact.  It is what unlink/link/bump/invalidate/insert must preserve      *)
(* together across any sequence of public operations.                      *)
CacheSane ==
    /\ ~CACHE_LINEAR =>
         \A w \in {WalkNext(cache, cache.head_mru, max_pos),
                   WalkPrev(cache, cache.tail_mru, max_pos)} :
            IsInjective(w) /\ ToSet(w) = cache.validity
    /\ \A i, j \in cache.validity :
         i # j => FactOf(cache.entries[i]) # FactOf(cache.entries[j])

(* A lookup that returns nothing had no valid entry to return: every valid *)
(* entry misses the query; one that returns a slot returns a valid entry   *)
(* that matches.  A scan that skips a slot (a broken list, a wrong loop    *)
(* bound) turns a cached fact into a spurious miss.                        *)
LookupExact ==
    last.q.kind # "none" /\ fault = "none" =>
      IF last.hit = 0
      THEN \A i \in cache.validity : Outcome(cache.entries[i], last.q) = "miss"
      ELSE last.hit \in cache.validity /\ Outcome(cache.entries[last.hit], last.q) = "hit"

(* The entry a lookup just hit survives the next insert: bump protects     *)
(* the touched slot from being the next write target (the MRU list moves   *)
(* it to the head, the FIFO bump moves next_victim past it).               *)
RecentHitSurvivesInsert ==
    [][ (\E f \in Facts : Insert(f)) /\ last.hit # 0 /\ MAX_SIZE > 1
          => FactOf(cache'.entries[last.hit]) = FactOf(cache.entries[last.hit])
             /\ last.hit \in cache'.validity ]_vars

(* Lookups never kill the process: no entry the resolver may install makes *)
(* a lookup divide by a zero period.                                       *)
NoDivideByZero == fault # "SIGFPE"

(* Lookups never dereference a null entry type.                           *)
NoNullTypeDeref == fault # "SIGSEGV"

(* get_cached_object_type reports t only for a hit at a period boundary   *)
(* (offset 0 into a period); it does not surface hits at an offset into a *)
(* cached object.                                                          *)
ObjectTypeOnlyAtBoundary ==
    last.q.kind = "object_type" /\ last.hit # 0 =>
      LET e == cache.entries[last.hit]
      IN IF e.period = 0 THEN last.q.obj = e.range_base
         ELSE (last.q.obj - e.range_base) % e.period = 0

(***************************************************************************)
(* Refinement: under MRU replacement the store implements MemrangeLRU.     *)
(* The abstract list is the fact sequence met walking the MRU list from    *)
(* head_mru; the abstract lookup result is the fact in the returned slot.  *)
(***************************************************************************)
MRUOrder ==
    LET w == WalkNext(cache, cache.head_mru, max_pos)
    IN [k \in 1..Len(w) |-> FactOf(cache.entries[w[k]])]

LRU == INSTANCE MemrangeLRU
         WITH order <- MRUOrder,
              last  <- [q   |-> last.q,
                        hit |-> IF last.hit = 0 THEN <<>>
                                ELSE <<FactOf(cache.entries[last.hit])>>]

(* MRU replacement is LRU eviction, move-to-front on every hit, and        *)
(* lookups that return the most recently used matching fact: the link and *)
(* unlink steps, the ffs search for a free slot and the bump-then-         *)
(* overwrite of the tail together behave as one recency-ordered list.      *)
ImplementsLRU == LRU!Spec
=============================================================================
