------------------------- MODULE MC_MemrangeCache -------------------------
(***************************************************************************)
(* Model-checking instance of MemrangeCache.                               *)
(*                                                                         *)
(* Three uniqtypes, laid out as in a small C program:                      *)
(*   I  a 2-byte int;                                                      *)
(*   A  int[2] (size 4, element I), whose cache word last recorded the     *)
(*      I at offset 2;                                                     *)
(*   S  struct { I a; A arr; } (size 6), whose cache word last recorded    *)
(*      the A at offset 2.                                                 *)
(* Memory: an A[2] at [0, 8) and an S at [8, 14).  The facts the resolver  *)
(* can derive about it overlap in range, so that several entries answer    *)
(* the same address and the scan order decides which one a lookup returns. *)
(***************************************************************************)
EXTENDS MemrangeCache

CONSTANTS I, A, S

MCTypeDesc ==
    I :> [pos_maxoff |-> 2, is_array |-> FALSE, related0 |-> NullType,
          cw_addr |-> NullType, cw_bits |-> 0]
 @@ A :> [pos_maxoff |-> 4, is_array |-> TRUE, related0 |-> I,
          cw_addr |-> I, cw_bits |-> 2]
 @@ S :> [pos_maxoff |-> 6, is_array |-> FALSE, related0 |-> NullType,
          cw_addr |-> A, cw_bits |-> 2]

Fact(b, l, p, o, t) ==
    [range_base |-> b, range_limit |-> l, period |-> p, offset_to_t |-> o, t |-> t]

(* Well-formed facts: nonzero period, non-null type. *)
GoodFacts ==
    { Fact(0, 8, 4, 0, A),    \* the A[2]
      Fact(0, 8, 4, 2, I),    \* the second int of each A
      Fact(8, 14, 6, 0, S),   \* the S
      Fact(8, 10, 2, 0, I) }  \* its first field

(* Facts the spec allows but the lookups cannot handle. *)
ZeroPeriodFact == Fact(14, 16, 0, 0, I)       \* a single whole-range fact
NullTypeFact   == Fact(16, 18, 2, 0, NullType) \* a range of unknown type

AllFacts == GoodFacts \cup {ZeroPeriodFact, NullTypeFact}

(* 0 and 8 are entry bases, 1 is misaligned in the array, 2 is the second *)
(* int of an A, 10 is S.arr (reached through S's cache word), 14 and 16    *)
(* lie in the zero-period and the null-typed range.                        *)
Addrs == {0, 1, 2, 8, 10, 14, 16}

TypedQueries ==
    { Query("with_type", a, qt, qp) :
        a \in Addrs, qt \in {NullType, I, A, S}, qp \in {0, 4} }
SizeQueries == { Query("with_size", a, NullType, qp) : a \in Addrs, qp \in {2, 4} }
RangeQueries == { Query("range", a, NullType, 0) : a \in Addrs }
ObjectTypeQueries == { Query("object_type", a, NullType, 0) : a \in Addrs }

(* For the store: lookups that hit an entry at a base shared by two facts *)
(* (so the scan order decides), one that skips a matching-range entry of  *)
(* the wrong period, and one that misses everything.                       *)
StoreQueries ==
    { Query("range", 0, NullType, 0), Query("range", 8, NullType, 0),
      Query("range", 20, NullType, 0),
      Query("with_type", 8, A, 0), Query("with_type", 8, I, 2) }

AllQueries == TypedQueries \cup SizeQueries \cup RangeQueries \cup ObjectTypeQueries

(* [0, 8) frees the array, [8, 8) the struct; [4, 8) overlaps the array   *)
(* but contains no entry's base.                                           *)
MCRegions == { [base |-> 0, size |-> 8], [base |-> 8, size |-> 8],
               [base |-> 4, size |-> 8] }
=============================================================================
