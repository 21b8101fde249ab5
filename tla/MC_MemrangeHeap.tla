------------------------- MODULE MC_MemrangeHeap -------------------------
(***************************************************************************)
(* Model-checking instance of MemrangeHeap, over the types of             *)
(* MC_MemrangeCache.  Three allocations; the span of the first is reused *)
(* by an object of another type:                                          *)
(*   [0, 8)   an A[2], or (reused) an S at [0, 6);                        *)
(*   [8, 14)  an S.                                                       *)
(* Each carries the facts the resolver derives from it.                    *)
(***************************************************************************)
EXTENDS MemrangeHeap, MC_MemrangeCache

Alloc(b, sz, fs) == [base |-> b, size |-> sz, facts |-> fs]

MCAllocs ==
    { Alloc(0, 8,  {Fact(0, 8, 4, 0, A), Fact(0, 8, 4, 2, I)}),
      Alloc(0, 6,  {Fact(0, 6, 6, 0, S)}),
      Alloc(8, 6,  {Fact(8, 14, 6, 0, S), Fact(8, 10, 2, 0, I)}) }

HeapFacts == UNION {a.facts : a \in MCAllocs}

(* StoreQueries without the one that misses every fact. *)
HeapQueries ==
    { Query("range", 0, NullType, 0), Query("range", 8, NullType, 0),
      Query("with_type", 8, A, 0), Query("with_type", 8, I, 2) }

HeapRegions == {Span(a) : a \in MCAllocs}
=============================================================================
