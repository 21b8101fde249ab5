---------------------------- MODULE MemrangeHeap ----------------------------
(***************************************************************************)
(* The memrange cache composed with the memory it describes.  The heap is *)
(* the set of live allocations; the resolver derives facts only from live *)
(* memory and installs them with __liballocs_cache_with_type on a miss;    *)
(* the allocator's free hook calls __liballocs_uncache_all on the span of  *)
(* the allocation before the memory can be reused (src/src/cache.c).  An  *)
(* address span can then be reused by an allocation of another type,      *)
(* whose facts answer the same addresses differently.                      *)
(*                                                                         *)
(* The allocator and the resolver are not in the repository: Malloc, Free  *)
(* and Resolve follow the contract the cache's specification gives them.  *)
(* Their cache effects are the cache's own operations, in MemrangeCache.   *)
(***************************************************************************)
EXTENDS MemrangeCache

CONSTANTS
    Allocs  \* the allocations the program may make: [base, size, facts]

\* The resolver derives facts about the objects inside one allocation.
ASSUME \A a \in Allocs : \A f \in a.facts :
         a.base <= f.range_base /\ f.range_limit <= a.base + a.size

VARIABLES
    live    \* the allocations currently live

heapVars == <<cache, last, fault, live>>

Span(a) == [base |-> a.base, size |-> a.size]

Disjoint(a, b) == a.base + a.size <= b.base \/ b.base + b.size <= a.base

(* The facts the resolver can derive from the memory as it is now. *)
LiveFacts == UNION {a.facts : a \in live}

HeapInit ==
    /\ Init
    /\ live = {}

(* malloc: the allocator hands out a span no live allocation occupies.    *)
Malloc(a) ==
    /\ fault = "none"
    /\ a \notin live
    /\ \A b \in live : Disjoint(a, b)
    /\ live' = live \cup {a}
    /\ UNCHANGED <<cache, last, fault>>

(* free: the hook purges the cache over the allocation's span, then the   *)
(* span is released.  Nothing runs in between: the cache has one owner.   *)
Free(a) ==
    /\ a \in live
    /\ Uncache(Span(a))
    /\ live' = live \ {a}

(* A miss sends the program to the resolver, which installs a fact about  *)
(* live memory.                                                            *)
Resolve(f) ==
    /\ f \in LiveFacts
    /\ Insert(f)
    /\ UNCHANGED live

HeapNext ==
    \/ \E a \in Allocs : Malloc(a) \/ Free(a)
    \/ \E f \in Facts : Resolve(f)
    \/ \E q \in Queries : (LookupHit(q) \/ LookupMiss(q) \/ LookupFault(q))
                          /\ UNCHANGED live

HeapSpec == HeapInit /\ [][HeapNext]_heapVars

-----------------------------------------------------------------------------
HeapTypeOK == TypeOK /\ live \subseteq Allocs

(* A lookup never answers with a fact about memory that has been freed:   *)
(* the entry it returns describes a live allocation.  uncache_all tests    *)
(* only each entry's range_base against the freed span (cache.c:22-23), so *)
(* this holds only as long as every entry is based inside the allocation   *)
(* it describes; it is about the free hook, the purge loop and the order  *)
(* of frees, reuses and inserts over many steps.                           *)
HitIsLive ==
    last.hit # 0 => FactOf(cache.entries[last.hit]) \in LiveFacts
=============================================================================
